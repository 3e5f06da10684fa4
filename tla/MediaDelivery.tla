---------------------------- MODULE MediaDelivery ----------------------------
(***************************************************************************)
(* From one candidate's material to the Kafka topics and the meta message: *)
(* the degree and work-experience documents (documents/routes.py), the     *)
(* sends of the end request (interview/routes.py) and the producer that    *)
(* cuts media into chunks (pipeline/kafka_producer.py, kafka/adapter.py),  *)
(* with the consumer of the topics as planning/REDIS_DESIGN.txt describes  *)
(* it: one list per candidate and kind of media, closed by is_last.        *)
(*                                                                         *)
(* Every chunk is one send_and_wait: other handlers of the same candidate  *)
(* run in between.  Messages carry the candidate's id, not the id of the   *)
(* session or upload they belong to.                                       *)
(*                                                                         *)
(* Each worker process has buffers of its own (interview/media_buffer.py): *)
(* the sockets of an interview fill those of the worker that started it,   *)
(* and its end request may reach any worker, whose buffers are then empty. *)
(***************************************************************************)
EXTENDS Naturals, SequencesExt

CONSTANTS
    Requests,       \* slots for requests in flight
    Apps,
    Sessions, AppOf,            \* interviews, [Sessions -> Apps]
    Workers, StartedAt,         \* processes, [Sessions -> Workers]
    Uploads, UploadApp,         \* assembled videos, [Uploads -> Apps]
    AudioBytes, VideoBytes, WorkexpBytes,   \* their sizes
    KAFKA_CHUNK_BYTES,
    Overlap,        \* whether a candidate's ends, and uploads, may overlap
    MaxFaults,      \* bound on failed sends, statements, calls and restarts
    None

ASSUME SizesAssumption ==
    /\ AudioBytes \in Nat /\ VideoBytes \in Nat /\ WorkexpBytes \in Nat
    /\ KAFKA_CHUNK_BYTES \in Nat \ {0}
ASSUME OwnersAssumption == AppOf \in [Sessions -> Apps] /\ UploadApp \in [Uploads -> Apps]
ASSUME WorkersAssumption == StartedAt \in [Sessions -> Workers]
ASSUME BoundsAssumption == MaxFaults \in Nat /\ Overlap \in BOOLEAN

VARIABLES
    log,        \* per media topic, the messages in the candidate's partition
    meta,       \* candidate.meta, the candidate's partition
    documents,  \* documents rows: application and doc_type
    done,       \* sessions COMPLETED by the worker that started them
    astray,     \* sessions COMPLETED by another worker
    held,       \* sessions whose buffers are in memory where they started
    pending,    \* uploads not yet assembled
    told,       \* history: documents the client was answered for
    cut,        \* history: media whose send stopped before the end
    req, faults

kafka == <<log, meta>>
history == <<told, cut>>
vars == <<kafka, documents, done, astray, held, pending, history, req, faults>>

-----------------------------------------------------------------------------
Topics == {"audio", "video", "workexp"}

SizeOf(t) == CASE t = "audio" -> AudioBytes [] t = "video" -> VideoBytes
               [] t = "workexp" -> WorkexpBytes

\* The bytes of a session's or an upload's media: its id and the position.
Data(x, t) == [i \in 1..SizeOf(t) |-> <<x, i>>]

\* Mutant: the bytes after the last full chunk are dropped.
_chunk_bytes_Truncated(data, size) ==
    [k \in 1..(Len(data) \div size) |-> SubSeq(data, (k - 1) * size + 1, k * size)]

_chunk_bytes(data, size) ==
    LET count == (Len(data) + size - 1) \div size
        end(k) == IF k * size < Len(data) THEN k * size ELSE Len(data)
    IN  [k \in 1..count |-> SubSeq(data, (k - 1) * size + 1, end(k))]

\* Every medium in chunks: a function, which TLC evaluates once.
CutMedia == [x \in Sessions \cup Uploads |->
                [t \in Topics |-> _chunk_bytes(Data(x, t), KAFKA_CHUNK_BYTES)]]
Pieces(x, t) == CutMedia[x][t]

Idle == [pc |-> "idle", kind |-> None, id |-> None, app |-> None,
         worker |-> None,   \* end: the process that answers it
         seq |-> 0,         \* the chunk to send next
         flags |-> {},      \* end: the documents the meta message claims
         knew |-> {}]       \* end: the documents told of when it arrived

DocTypes == {"DEGREE", "WORKEXP_VIDEO"}
Documents == [app : Apps, doc_type : DocTypes]

\* Interviews are under way, every one's media in the buffers of the worker
\* that started it, and the uploads wait for their last chunk.
Init ==
    /\ log = [t \in Topics |-> <<>>]
    /\ meta = <<>>
    /\ documents = {}
    /\ done = {}
    /\ astray = {}
    /\ held = Sessions
    /\ pending = Uploads
    /\ told = {}
    /\ cut = {}
    /\ req = [r \in Requests |-> Idle]
    /\ faults = 0

Move(r, pc) == req' = [req EXCEPT ![r].pc = pc, ![r].seq = 0]
Answer(r) == req' = [req EXCEPT ![r] = Idle]
Fault == faults < MaxFaults /\ faults' = faults + 1
InFlight(kind) == {r \in Requests : req[r].kind = kind}

-----------------------------------------------------------------------------
(***************************************************************************)
(* _produce_chunks, for the end request and for an upload.                 *)
(***************************************************************************)
After(t) == CASE t = "audio" -> "video" [] t = "video" -> "meta" [] t = "workexp" -> "insert"

\* Whether an end request runs where the sockets filled the buffers.
AtHome(r) == req[r].worker = StartedAt[req[r].id]

\* get_or_create_buffer: an end request finds empty buffers in another worker,
\* and where an earlier one released them.
Chunks(r) ==
    LET t == req[r].pc
    IN  IF t # "workexp" /\ ~(AtHome(r) /\ req[r].id \in held) THEN <<>>
        ELSE Pieces(req[r].id, t)

Message(r) == [chunk_seq |-> req[r].seq, is_last |-> req[r].seq = Len(Chunks(r)) - 1,
               data |-> Chunks(r)[req[r].seq + 1]]

Publish(r) == log' = [log EXCEPT ![req[r].pc] = Append(@, Message(r))]

\* send_json, acknowledged by the broker.
ProduceChunk(r) ==
    /\ req[r].pc \in Topics
    /\ req[r].seq < Len(Chunks(r))
    /\ Publish(r)
    /\ req' = [req EXCEPT ![r].seq = @ + 1]
    /\ UNCHANGED <<meta, documents, done, astray, held, pending, history, faults>>

\* All chunks are out, or there were none.
ProduceEnd(r) ==
    /\ req[r].pc \in Topics
    /\ req[r].seq = Len(Chunks(r))
    /\ Move(r, After(req[r].pc))
    /\ UNCHANGED <<kafka, documents, done, astray, held, pending, history, faults>>

\* send_json raises, with the message delivered or not: the rest of this
\* medium is not sent, the exception is logged and the handler goes on.
ProduceFails(r) ==
    /\ req[r].pc \in Topics
    /\ req[r].seq < Len(Chunks(r))
    /\ Fault
    /\ Publish(r) \/ UNCHANGED log
    /\ cut' = cut \cup {<<req[r].pc, req[r].id>>}
    /\ Move(r, After(req[r].pc))
    /\ UNCHANGED <<meta, documents, done, astray, held, pending, told>>

-----------------------------------------------------------------------------
(***************************************************************************)
(* POST /interview/end/{session_id}.                                       *)
(***************************************************************************)
TypesOf(docs, a) == {d.doc_type : d \in {e \in docs : e.app = a}}

\* The request reaches worker w: nothing ties it to the one with the sockets.
EndLoad(r, s, w) ==
    /\ req[r].pc = "idle"
    /\ Overlap \/ InFlight("end") = {}
    /\ s \notin done \cup astray
    /\ req' = [req EXCEPT ![r] = [Idle EXCEPT !.pc = "complete", !.kind = "end", !.id = s,
                                              !.app = AppOf[s], !.worker = w,
                                              !.knew = TypesOf(told, AppOf[s])]]
    /\ UNCHANGED <<kafka, documents, done, astray, held, pending, history, faults>>

\* The session and the application are updated, which waits for an end that
\* holds their rows; then the documents are read.
EndDocuments(r) ==
    /\ req[r].pc = "complete"
    /\ \A q \in InFlight("end") \ {r} : req[q].app = req[r].app => req[q].pc = "complete"
    /\ req' = [req EXCEPT ![r].flags = TypesOf(documents, req[r].app), ![r].pc = "audio"]
    /\ UNCHANGED <<kafka, documents, done, astray, held, pending, history, faults>>

\* With the worker that sends it, which the message does not carry.
Meta(r) == [session |-> req[r].id, app |-> req[r].app, flags |-> req[r].flags,
            knew |-> req[r].knew, worker |-> req[r].worker]

SendMeta(r) ==
    /\ req[r].pc = "meta"
    /\ meta' = Append(meta, Meta(r))
    /\ Move(r, "cleanup")
    /\ UNCHANGED <<log, documents, done, astray, held, pending, history, faults>>

\* Raised, delivered or not, and swallowed by the handler.
SendMetaFails(r) ==
    /\ req[r].pc = "meta"
    /\ Fault
    /\ meta' = Append(meta, Meta(r)) \/ UNCHANGED meta
    /\ Move(r, "cleanup")
    /\ UNCHANGED <<log, documents, done, astray, held, pending, history>>

\* remove_chatbot_session: of this process.
EndCleanup(r) ==
    /\ req[r].pc = "cleanup"
    /\ held' = IF AtHome(r) THEN held \ {req[r].id} ELSE held
    /\ Move(r, "commit")
    /\ UNCHANGED <<kafka, documents, done, astray, pending, history, faults>>

EndCommit(r) ==
    /\ req[r].pc = "commit"
    /\ req[r].kind = "end"
    /\ IF AtHome(r) THEN done' = done \cup {req[r].id} /\ UNCHANGED astray
                   ELSE astray' = astray \cup {req[r].id} /\ UNCHANGED done
    /\ Answer(r)
    /\ UNCHANGED <<kafka, documents, held, pending, history, faults>>

-----------------------------------------------------------------------------
(***************************************************************************)
(* POST /documents/degree, and the last chunk of /documents/workexp/chunk. *)
(***************************************************************************)
\* The ML service is asked; 503 when it cannot be reached.
DegreeCheck(r, a) ==
    /\ req[r].pc = "idle"
    /\ req' = [req EXCEPT ![r] = [Idle EXCEPT !.pc = "check", !.kind = "DEGREE", !.app = a]]
    /\ UNCHANGED <<kafka, documents, done, astray, held, pending, history, faults>>

DegreeSave(r) ==
    /\ req[r].pc = "check"
    /\ Move(r, "insert")
    /\ UNCHANGED <<kafka, documents, done, astray, held, pending, history, faults>>

\* Mutant: the document is recorded before the video is sent.
UploadAssembled_RecordsFirst(r, u) ==
    /\ req[r].pc = "idle"
    /\ Overlap \/ InFlight("WORKEXP_VIDEO") = {}
    /\ u \in pending
    /\ pending' = pending \ {u}
    /\ documents' = documents \cup {[app |-> UploadApp[u], doc_type |-> "WORKEXP_VIDEO"]}
    /\ req' = [req EXCEPT ![r] = [Idle EXCEPT !.pc = "workexp", !.kind = "WORKEXP_VIDEO",
                                              !.id = u, !.app = UploadApp[u]]]
    /\ UNCHANGED <<kafka, done, astray, held, history, faults>>

\* receive_chunk has answered "uploaded", which it does once (ChunkedUpload).
UploadAssembled(r, u) ==
    /\ req[r].pc = "idle"
    /\ Overlap \/ InFlight("WORKEXP_VIDEO") = {}
    /\ u \in pending
    /\ pending' = pending \ {u}
    /\ req' = [req EXCEPT ![r] = [Idle EXCEPT !.pc = "workexp", !.kind = "WORKEXP_VIDEO",
                                              !.id = u, !.app = UploadApp[u]]]
    /\ UNCHANGED <<kafka, documents, done, astray, held, history, faults>>

\* create_document, which nobody else sees yet.
InsertDocument(r) ==
    /\ req[r].pc = "insert"
    /\ Move(r, "commit")
    /\ UNCHANGED <<kafka, documents, done, astray, held, pending, history, faults>>

\* The document of an upload that fails to insert is swallowed: the answer
\* has no document_id.
InsertDocumentFails(r) ==
    /\ req[r].pc = "insert"
    /\ req[r].kind = "WORKEXP_VIDEO"
    /\ Fault
    /\ Answer(r)
    /\ UNCHANGED <<kafka, documents, done, astray, held, pending, history>>

Document(r) == [app |-> req[r].app, doc_type |-> req[r].kind]

\* Mutant: the answer leaves before the commit.
DocumentCommit_AnswersFirst(r) ==
    /\ req[r].pc = "commit"
    /\ req[r].kind \in DocTypes
    /\ told' = told \cup {Document(r)}
    /\ Move(r, "answer")
    /\ UNCHANGED <<kafka, documents, done, astray, held, pending, cut, faults>>

\* get_db commits before the answer goes out.
DocumentCommit(r) ==
    /\ req[r].pc = "commit"
    /\ req[r].kind \in DocTypes
    /\ documents' = documents \cup {Document(r)}
    /\ Move(r, "answer")
    /\ UNCHANGED <<kafka, done, astray, held, pending, history, faults>>

DocumentAnswer(r) ==
    /\ req[r].pc = "answer"
    /\ told' = told \cup {Document(r)}
    /\ Answer(r)
    /\ UNCHANGED <<kafka, documents, done, astray, held, pending, cut, faults>>

-----------------------------------------------------------------------------
Unfinished(r) == IF req[r].pc \in Topics /\ req[r].seq < Len(Chunks(r))
                 THEN {<<req[r].pc, req[r].id>>} ELSE {}

\* A statement, the commit or the degree check fails: rolled back.
Fail(r) ==
    /\ req[r].pc \in {"complete", "check", "insert", "commit"}
    /\ Fault
    /\ Answer(r)
    /\ UNCHANGED <<kafka, documents, done, astray, held, pending, history>>

\* The server restarts: handlers and buffers are gone.
Restart ==
    /\ Fault
    /\ cut' = cut \cup (UNION {Unfinished(r) : r \in Requests})
                  \cup {<<t, s>> : t \in {"audio", "video"}, s \in held}
    /\ held' = {}
    /\ req' = [r \in Requests |-> Idle]
    /\ UNCHANGED <<kafka, documents, done, astray, pending, told>>

-----------------------------------------------------------------------------
(***************************************************************************)
(* The consumer of the ML service: RPUSH; on is_last read all, sort by     *)
(* chunk_seq, look for gaps, join, delete the list.  It reads a topic in   *)
(* order, so what it has put together is a function of the log.  A list of *)
(* n messages has no gaps when it holds the numbers 0 to n - 1.            *)
(***************************************************************************)
Closed(t) == {k \in 1..Len(log[t]) : log[t][k].is_last}

\* The list that the is_last message k closes: what came after the one before.
List(t, k) == SubSeq(log[t], Max({0} \cup {j \in Closed(t) : j < k}) + 1, k)
NoGaps(list) == {m.chunk_seq : m \in ToSet(list)} = 0..(Len(list) - 1)
Sorted(list) == [i \in 1..Len(list) |-> CHOOSE m \in ToSet(list) : m.chunk_seq = i - 1]
Joined(list) == FlattenSeq([i \in 1..Len(list) |-> list[i].data])

Consume(list) == IF NoGaps(list) THEN Joined(Sorted(list)) ELSE None
Media(t) == {Consume(List(t, k)) : k \in Closed(t)}

-----------------------------------------------------------------------------
Handle(r) ==
    \/ ProduceChunk(r) \/ ProduceEnd(r)
    \/ EndDocuments(r) \/ SendMeta(r) \/ EndCleanup(r) \/ EndCommit(r)
    \/ DegreeSave(r) \/ InsertDocument(r) \/ DocumentCommit(r) \/ DocumentAnswer(r)

Next ==
    \/ \E r \in Requests :
          \/ \E s \in Sessions, w \in Workers : EndLoad(r, s, w)
          \/ \E a \in Apps : DegreeCheck(r, a)
          \/ \E u \in Uploads : UploadAssembled(r, u)
          \/ Handle(r)
          \/ ProduceFails(r) \/ SendMetaFails(r) \/ InsertDocumentFails(r) \/ Fail(r)
    \/ Restart

Spec == Init /\ [][Next]_vars

-----------------------------------------------------------------------------
(***************************************************************************)
(* Properties.                                                             *)
(***************************************************************************)
Messages == [chunk_seq : Nat, is_last : BOOLEAN, data : Seq((Sessions \cup Uploads) \X Nat)]
Claims == [session : Sessions, app : Apps, flags : SUBSET DocTypes, knew : SUBSET DocTypes,
           worker : Workers]
States == [pc : {"idle", "complete", "audio", "video", "meta", "cleanup", "commit",
                 "check", "workexp", "insert", "answer"},
           kind : {None, "end"} \cup DocTypes, id : Sessions \cup Uploads \cup {None},
           app : Apps \cup {None}, worker : Workers \cup {None}, seq : Nat,
           flags : SUBSET DocTypes, knew : SUBSET DocTypes]

TypeOK ==
    /\ log \in [Topics -> Seq(Messages)] /\ meta \in Seq(Claims)
    /\ documents \subseteq Documents /\ told \subseteq Documents
    /\ done \subseteq Sessions /\ astray \subseteq Sessions
    /\ held \subseteq Sessions /\ pending \subseteq Uploads
    /\ req \in [Requests -> States]
    /\ faults \in 0..MaxFaults

\* "Check documents to set has_degree / has_workexp accurately": a document
\* the client was told of before it ended the interview is claimed by the
\* meta message, and what is claimed is on record for that application.
ClaimsAreAccurate ==
    \A i \in 1..Len(meta) :
        meta[i].knew \subseteq meta[i].flags
        /\ meta[i].flags \subseteq TypesOf(documents, meta[i].app)

\* Every byte of the medium is in a message of its topic.
Carried(t, b) == \E k \in 1..Len(log[t]) : b \in ToSet(log[t][k].data)
OnTopic(t, x) == \A i \in 1..SizeOf(t) : Carried(t, <<x, i>>)
Delivered(t, x) == OnTopic(t, x) \/ <<t, x>> \in cut

\* "meta LAST (meta triggers ML pipeline, so send it last)": when a session's
\* meta message is on its topic, a claimed video of the application is on its
\* own, and the interview's audio and video are on theirs when the worker that
\* started the interview sends the message: byte for byte, except for media
\* whose send stopped on the way.
MaterialPrecedesMeta ==
    \A i \in 1..Len(meta) :
        /\ meta[i].worker = StartedAt[meta[i].session] =>
              \A t \in {"audio", "video"} : Delivered(t, meta[i].session)
        /\ "WORKEXP_VIDEO" \in meta[i].flags =>
              \E u \in Uploads : UploadApp[u] = meta[i].app /\ Delivered("workexp", u)

\* "Ordering guaranteed by Kafka (same partition)": what the consumer puts
\* together when is_last arrives is one whole medium of this candidate, and an
\* interview that recorded any and was completed by the worker that started it
\* is among it, as long as no send on the topic has stopped half way and
\* handlers of one kind do not overlap.
Unbroken(t) == \A c \in cut : c[1] # t

MediaArriveWhole ==
    \A t \in Topics : Unbroken(t) =>
        /\ Media(t) \subseteq {Data(x, t) : x \in Sessions \cup Uploads}
        /\ t # "workexp" /\ SizeOf(t) > 0 => \A s \in done : Data(s, t) \in Media(t)

\* "On is_last=True: ... validate no gaps" finds none: without conditions.
ListsHaveNoGaps == \A t \in Topics : None \notin Media(t)

\* "When: after all media sent": no meta message without its media, whichever
\* worker ends the interview.
MetaMeansMaterial ==
    \A i \in 1..Len(meta), t \in {"audio", "video"} : OnTopic(t, meta[i].session)

-----------------------------------------------------------------------------
(***************************************************************************)
(* The inductive invariant.                                                *)
(***************************************************************************)
EndInv(r) ==
    /\ req[r].kind = "end" /\ req[r].id \in Sessions /\ req[r].app = AppOf[req[r].id]
    /\ req[r].worker \in Workers
    /\ req[r].pc \in {"complete", "audio", "video", "meta", "cleanup", "commit"}
    /\ req[r].knew \subseteq TypesOf(told, req[r].app)
    /\ req[r].pc # "complete" =>
          /\ req[r].knew \subseteq req[r].flags
          /\ req[r].flags \subseteq TypesOf(documents, req[r].app)

DegreeInv(r) ==
    /\ req[r].kind = "DEGREE" /\ req[r].app \in Apps
    /\ req[r].pc \in {"check", "insert", "commit", "answer"}

UploadInv(r) ==
    /\ req[r].kind = "WORKEXP_VIDEO" /\ req[r].id \in Uploads /\ req[r].app = UploadApp[req[r].id]
    /\ req[r].pc \in {"workexp", "insert", "commit", "answer"}

\* The chunks before seq are on the topic; an answer comes after the commit.
RequestInv(r) ==
    /\ req[r] = Idle \/ EndInv(r) \/ DegreeInv(r) \/ UploadInv(r)
    /\ req[r].pc \notin Topics => req[r].seq = 0
    /\ req[r].pc \in Topics /\ Chunks(r) # <<>> =>
          \A i \in 1..SizeOf(req[r].pc) :
              i <= req[r].seq * KAFKA_CHUNK_BYTES => Carried(req[r].pc, <<req[r].id, i>>)
    /\ req[r].pc = "answer" => Document(r) \in documents

\* The handlers that had something for topic t and are done with it.
Past(t) == {r \in Requests :
    \/ /\ t = "audio" /\ req[r].kind = "end" /\ AtHome(r)
       /\ req[r].pc \in {"video", "meta", "cleanup", "commit"}
    \/ /\ t = "video" /\ req[r].kind = "end" /\ AtHome(r)
       /\ req[r].pc \in {"meta", "cleanup", "commit"}
    \/ t = "workexp" /\ req[r].kind = "WORKEXP_VIDEO" /\ req[r].pc \in {"insert", "commit", "answer"}}

\* What must have been sent: it is done, released, or behind a handler.
Due(t) == {req[r].id : r \in Past(t)}
              \cup (IF t = "workexp" THEN {} ELSE done \cup (Sessions \ held))

VideosOnRecord ==
    \A d \in documents : d.doc_type = "WORKEXP_VIDEO" =>
        \E u \in Uploads : UploadApp[u] = d.app /\ Delivered("workexp", u)

\* The n messages up to the k-th are the first n of x, after a closed list.
Chunk(x, t, j) ==
    [chunk_seq |-> j, is_last |-> j = Len(Pieces(x, t)) - 1, data |-> Pieces(x, t)[j + 1]]

EndsWith(t, k, x, n) ==
    /\ n <= k
    /\ \A j \in 1..n : log[t][k - n + j] = Chunk(x, t, j - 1)
    /\ n < k => log[t][k - n].is_last

Whole(t, k, x) == SizeOf(t) > 0 /\ EndsWith(t, k, x, Len(Pieces(x, t)))

InOrder(t) ==
    /\ \A k \in Closed(t) : \E x \in Sessions \cup Uploads : Whole(t, k, x)
    /\ \A x \in Due(t) : SizeOf(t) > 0 => \E k \in Closed(t) : Whole(t, k, x)
    /\ \A r \in Requests : req[r].pc = t =>
          /\ req[r].seq <= Len(Chunks(r))
          /\ EndsWith(t, Len(log[t]), req[r].id, req[r].seq)
    /\ (\A r \in Requests : req[r].pc # t) => log[t] = <<>> \/ Len(log[t]) \in Closed(t)

OneOfAKind ==
    \A r, q \in Requests :
        /\ req[r].pc # "idle" /\ req[r].kind \in {"end", "WORKEXP_VIDEO"}
        /\ req[q].pc # "idle" /\ req[q].kind = req[r].kind
        => r = q

DeliveryInv ==
    /\ TypeOK
    /\ ClaimsAreAccurate /\ MaterialPrecedesMeta /\ VideosOnRecord
    /\ told \subseteq documents
    /\ \A r \in Requests : RequestInv(r)
    /\ \A t \in Topics : \A x \in Due(t) : Delivered(t, x)

OrderInv == OneOfAKind /\ \A t \in Topics : Unbroken(t) => InOrder(t)

IInv == DeliveryInv /\ (~Overlap => OrderInv)
=============================================================================
