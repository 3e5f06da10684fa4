---------------------------- MODULE ChunkedUpload ----------------------------
(***************************************************************************)
(* The chunked upload of one work-experience video: receive_chunk and      *)
(* _assemble of documents/chunked_upload.py, and what upload_workexp_chunk *)
(* (documents/routes.py) does with an assembled file.                      *)
(*                                                                         *)
(* The upload session is one JSON value in Redis.  A request reads it,     *)
(* changes its own copy and writes the whole copy back; chunk files and    *)
(* the assembled file are on a disk that both uvicorn workers share.       *)
(* Requests of one upload overlap when the client repeats a chunk whose    *)
(* answer it did not wait for.                                             *)
(***************************************************************************)
EXTENDS Naturals, FiniteSets

CONSTANTS
    Requests,       \* slots for requests in flight
    TotalChunks,    \* total_chunks, as declared to /workexp/init
    LastChunks,     \* the chunks the client sends with is_last
    MayBeTooLarge,  \* whether the chunks may exceed MAX_VIDEO_BYTES
    MaxFaults,      \* bound on failed calls and crashed handlers
    None

Chunks == 0..(TotalChunks - 1)

\* Any number of chunks, any of them flagged last.
ChunksAssumption ==
    /\ TotalChunks \in Nat \ {0}
    /\ LastChunks \subseteq Chunks
    /\ MayBeTooLarge \in BOOLEAN
    /\ MaxFaults \in Nat

VARIABLES
    upload,     \* upload:{upload_id}, the session, or None
    disk,       \* the chunks whose file is in the upload directory
    assembled,  \* the chunks assembled.mp4 holds, or None
    sent,       \* history: the videos sent to candidate.workexp.video
    docs,       \* WORKEXP_VIDEO rows recorded for the upload (2: or more)
    req, faults

vars == <<upload, disk, assembled, sent, docs, req, faults>>

-----------------------------------------------------------------------------
\* The client of /workexp/init may name no application.
Uploads == [application_id : {"", "app"}, received : SUBSET Chunks,
            status : {"in_progress", "complete"}]

Idle == [pc |-> "idle", chunk |-> None, session |-> None]

PCs == {"idle", "write", "set", "assemble", "delete", "complete", "session", "send", "record"}

States == [pc : PCs, chunk : Chunks \cup {None}, session : Uploads \cup {None}]

TypeOK ==
    /\ upload \in Uploads \cup {None}
    /\ disk \subseteq Chunks
    /\ assembled = None \/ assembled \subseteq Chunks
    /\ sent \subseteq SUBSET Chunks
    /\ docs \in 0..2
    /\ req \in [Requests -> States]
    /\ \A r \in Requests :
          req[r].pc # "idle" => req[r].chunk \in Chunks /\ req[r].session \in Uploads
    /\ faults \in 0..MaxFaults

\* init_upload has answered: the session is in Redis, the directory exists.
Init ==
    /\ \E a \in {"", "app"} :
          upload = [application_id |-> a, received |-> {}, status |-> "in_progress"]
    /\ disk = {}
    /\ assembled = None
    /\ sent = {}
    /\ docs = 0
    /\ req = [r \in Requests |-> Idle]
    /\ faults = 0

Move(r, pc) == req' = [req EXCEPT ![r].pc = pc]
Answer(r) == req' = [req EXCEPT ![r] = Idle]
Fault == faults < MaxFaults /\ faults' = faults + 1

-----------------------------------------------------------------------------
(***************************************************************************)
(* receive_chunk.                                                          *)
(***************************************************************************)
\* Mutant: a complete upload still takes chunks, and none is a duplicate.
GetSession_TakesAny(r, c) ==
    /\ req[r].pc = "idle"
    /\ upload # None
    /\ req' = [req EXCEPT ![r] = [pc |-> "write", chunk |-> c,
                                  session |-> [upload EXCEPT !.status = "in_progress"]]]
    /\ UNCHANGED <<upload, disk, assembled, sent, docs, faults>>

\* get_upload_session and the checks on it.  An unknown or complete upload
\* and a duplicate chunk are answered without changing anything.
GetSession(r, c) ==
    /\ req[r].pc = "idle"
    /\ upload # None
    /\ upload.status # "complete"
    /\ c \notin upload.received
    /\ req' = [req EXCEPT ![r] = [pc |-> "write", chunk |-> c, session |-> upload]]
    /\ UNCHANGED <<upload, disk, assembled, sent, docs, faults>>

\* Mutant: the chunk is noted as received and not written.
WriteChunk_NotWritten(r) ==
    /\ req[r].pc = "write"
    /\ req' = [req EXCEPT ![r].pc = "set",
                          ![r].session.received = @ \cup {req[r].chunk}]
    /\ UNCHANGED <<upload, disk, assembled, sent, docs, faults>>

\* The chunk's file is written, and the chunk noted in the request's copy.
WriteChunk(r) ==
    /\ req[r].pc = "write"
    /\ disk' = disk \cup {req[r].chunk}
    /\ req' = [req EXCEPT ![r].pc = "set",
                          ![r].session.received = @ \cup {req[r].chunk}]
    /\ UNCHANGED <<upload, assembled, sent, docs, faults>>

\* update_upload_session: the copy replaces what is in Redis, and an expired
\* key comes back.
SetReceived(r) ==
    /\ req[r].pc = "set"
    /\ upload' = req[r].session
    /\ \/ req[r].chunk \in LastChunks /\ Move(r, "assemble")
       \/ req[r].chunk \notin LastChunks /\ Answer(r)
    /\ UNCHANGED <<disk, assembled, sent, docs, faults>>

-----------------------------------------------------------------------------
(***************************************************************************)
(* _assemble.                                                              *)
(***************************************************************************)
\* Mutant: one chunk short.
Expected_OffByOne == 0..(TotalChunks - 2)

\* range(total_chunks).
Expected == 0..(TotalChunks - 1)

Missing(r) == Expected \ req[r].session.received

\* ChunksMissingError.
AssembleMissing(r) ==
    /\ req[r].pc = "assemble"
    /\ Missing(r) # {}
    /\ Answer(r)
    /\ UNCHANGED <<upload, disk, assembled, sent, docs, faults>>

\* The chunks a copy in order reaches before a file is missing.
Readable == {c \in Expected : 0..c \subseteq disk}

\* assembled.mp4 is opened for writing and filled chunk by chunk; a file that
\* is missing raises.
Assemble(r) ==
    /\ req[r].pc = "assemble"
    /\ Missing(r) = {}
    /\ assembled' = Readable
    /\ IF Expected \subseteq disk THEN Move(r, "delete") ELSE Answer(r)
    /\ UNCHANGED <<upload, disk, sent, docs, faults>>

\* The chunks turn out to be more than MAX_VIDEO_BYTES: 413, the chunk files
\* stay.
AssembleTooLarge(r) ==
    /\ MayBeTooLarge
    /\ req[r].pc = "assemble"
    /\ Missing(r) = {}
    /\ Expected \subseteq disk
    /\ assembled' = None
    /\ Answer(r)
    /\ UNCHANGED <<upload, disk, sent, docs, faults>>

\* The chunk files are deleted.
DeleteChunks(r) ==
    /\ req[r].pc = "delete"
    /\ disk' = disk \ Expected
    /\ req' = [req EXCEPT ![r].pc = "complete", ![r].session.status = "complete"]
    /\ UNCHANGED <<upload, assembled, sent, docs, faults>>

SetComplete(r) ==
    /\ req[r].pc = "complete"
    /\ upload' = req[r].session
    /\ Move(r, "session")
    /\ UNCHANGED <<disk, assembled, sent, docs, faults>>

-----------------------------------------------------------------------------
(***************************************************************************)
(* upload_workexp_chunk, once assembled.                                   *)
(***************************************************************************)
\* Mutant: a session that is complete is not looked up as one in progress.
GetAgain_NotFound(r) ==
    /\ req[r].pc = "session"
    /\ IF upload = None \/ upload.status = "complete" THEN Answer(r)
       ELSE req' = [req EXCEPT ![r].pc = "send", ![r].session = upload]
    /\ UNCHANGED <<upload, disk, assembled, sent, docs, faults>>

\* get_upload_session, again; nothing is sent for one that has expired.
GetAgain(r) ==
    /\ req[r].pc = "session"
    /\ IF upload = None THEN Answer(r)
       ELSE req' = [req EXCEPT ![r].pc = "send", ![r].session = upload]
    /\ UNCHANGED <<upload, disk, assembled, sent, docs, faults>>

\* send_video_to_kafka: the file is read now; one that is gone is skipped.
SendVideo(r) ==
    /\ req[r].pc = "send"
    /\ sent' = IF assembled = None THEN sent ELSE sent \cup {assembled}
    /\ Move(r, "record")
    /\ UNCHANGED <<upload, disk, assembled, docs, faults>>

\* The exception of a failed send is logged, the document recorded anyway.
SendVideoFails(r) ==
    /\ req[r].pc = "send"
    /\ Fault
    /\ Move(r, "record")
    /\ UNCHANGED <<upload, disk, assembled, sent, docs>>

\* create_document and the commit, for a session that names an application.
RecordDocument(r) ==
    /\ req[r].pc = "record"
    /\ docs' = IF docs = 2 \/ req[r].session.application_id = "" THEN docs ELSE docs + 1
    /\ Answer(r)
    /\ UNCHANGED <<upload, disk, assembled, sent, faults>>

-----------------------------------------------------------------------------
\* A Redis or database call fails, or the worker dies under the handler.
Fail(r) ==
    /\ req[r].pc # "idle"
    /\ Fault
    /\ Answer(r)
    /\ UNCHANGED <<upload, disk, assembled, sent, docs>>

\* The 24 hours of the session are over.
Expire ==
    /\ upload # None
    /\ upload' = None
    /\ UNCHANGED <<disk, assembled, sent, docs, req, faults>>

Handle(r) ==
    \/ WriteChunk(r) \/ SetReceived(r)
    \/ AssembleMissing(r) \/ Assemble(r) \/ AssembleTooLarge(r)
    \/ DeleteChunks(r) \/ SetComplete(r)
    \/ GetAgain(r) \/ SendVideo(r) \/ RecordDocument(r)

Next ==
    \/ \E r \in Requests :
          \/ \E c \in Chunks : GetSession(r, c)
          \/ Handle(r) \/ SendVideoFails(r) \/ Fail(r)
    \/ Expire

Spec == Init /\ [][Next]_vars

\* Handlers keep running; the client owes nothing.
FairSpec == Spec /\ \A r \in Requests : WF_vars(Handle(r))

-----------------------------------------------------------------------------
(***************************************************************************)
(* Properties.                                                             *)
(***************************************************************************)
\* "Backend reassembles to full file, then re-chunks to 256KB for Kafka":
\* a video that is sent holds every chunk.
FullVideoSent == \A v \in sent : v = Chunks

\* What resuming relies on: a chunk that the session reports as received is
\* in its file, or in an assembled video that holds them all.
ReceivedIsKept ==
    upload # None => upload.received \subseteq disk \/ assembled = Chunks

\* One upload, one document: repeated chunks, failures between the steps and
\* expiry never make a second row.
OneDocument == docs <= 1

\* Why, for a client that waits for its answers: a session that lacks a chunk
\* has all the others on disk and nothing assembled; from the assembly on, the
\* session lacks none, so that no request starts again; and the request that
\* records the document is the last.
OneAtATime == \A r, q \in Requests : r = q

Unassembled ==
    upload # None /\ upload.received # Chunks => assembled = None /\ upload.received \subseteq disk

Full(u) == u = None \/ u.received = Chunks

RequestInv(r) ==
    LET q == req[r]
    IN  /\ q.pc # "idle" => docs = 0
        /\ q.pc \in {"write", "set", "assemble"} =>
              q.session.received \subseteq disk /\ q.session.status = "in_progress" /\ assembled = None
        /\ q.pc = "assemble" => upload \in {None, q.session}
        /\ q.pc \in {"delete", "complete"} => q.session.received = Chunks
        /\ q.pc \in {"delete", "complete", "session", "send", "record"} => Full(upload) /\ assembled = Chunks
        /\ q.pc = "complete" => q.session.status = "complete"
        /\ q.pc \in {"session", "send", "record"} => upload = None \/ upload.status = "complete"

DocumentInv ==
    /\ upload # None /\ upload.status = "complete" => upload.received = Chunks
    /\ docs > 0 => upload = None \/ upload.status = "complete"

IInv ==
    /\ TypeOK
    /\ ReceivedIsKept /\ Unassembled /\ DocumentInv
    /\ FullVideoSent /\ OneDocument
    /\ \A r \in Requests : RequestInv(r)

\* An upload for an application, seen to be complete, gets its document, unless
\* it expires first or the request that completed it fails on the way.
CompleteIsRecorded ==
    upload # None /\ upload.status = "complete" /\ upload.application_id # ""
        ~> docs > 0 \/ upload = None \/ faults > 0

\* "frontend re-sends missing chunks": once all of them are received, the
\* upload leaves in_progress.
ResumeCompletes ==
    upload # None /\ upload.received = Chunks /\ upload.status = "in_progress"
        ~> upload = None \/ upload.status = "complete"

\* "Idempotent - skip duplicate chunks": a chunk on record as received is not
\* written again.
DuplicatesAreSkipped ==
    [][\A r \in Requests :
         WriteChunk(r) /\ upload # None => req[r].chunk \notin upload.received]_vars
=============================================================================
