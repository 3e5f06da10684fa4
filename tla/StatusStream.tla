----------------------------- MODULE StatusStream -----------------------------
(***************************************************************************)
(* How a candidate learns the outcome of one application: the ML service   *)
(* publishes it on a Redis channel, the pollers (pipeline/poller.py) store *)
(* and cache it, an officer may decide otherwise (admin/routes.py), GET    *)
(* /application/status answers from the cache or the database, and GET     *)
(* /application/status-stream sends server-sent events (pipeline/routes.py *)
(* with subscribe_ml_result of cache/redis_client.py).                     *)
(* A step is what a handler does from one await to the next.               *)
(***************************************************************************)
EXTENDS Integers

CONSTANTS
    Verdicts,   \* the outcomes told apart
    DEFAULT,    \* the one an answer without a verdict counts as
    Pollers,    \* one per worker
    Officers,   \* override requests, each sent at most once
    Streams,
    MaxFaults,  \* bound on polls that fail, or that ML answers with an error
    None

ASSUME DefaultAssumption == DEFAULT \in Verdicts
ASSUME OutcomesAssumption ==
    /\ Verdicts \cap {None, "PROCESSING", "DONE", "ML_PROCESSING"} = {}
    /\ None \notin {"PROCESSING", "DONE", "ML_PROCESSING"}
ASSUME FaultsAssumption == MaxFaults \in Nat

VARIABLES
    ml,         \* the ML service: "PROCESSING", then its verdict
    other,      \* what it came to for the same candidate's other application
    published,  \* it has published ml
    status,     \* candidate_applications.status
    cache,      \* ml_status: "PROCESSING", "DONE", or DONE with the verdict
    poll,       \* _process_one of each poller
    officer,    \* the override requests
    stream,     \* the connections to status-stream
    decided,    \* history: the verdicts that status ever was
    strayed,    \* history: a verdict was taken that is not ml
    faults

vars == <<ml, other, published, status, cache, poll, officer, stream, decided, strayed, faults>>

-----------------------------------------------------------------------------
NotPolling == [pc |-> "idle", got |-> None]
NoStream == [pc |-> "closed", inbox |-> None, told |-> None]

Polls == [pc : {"idle", "ask", "cache", "fetch", "store", "final"},
          got : Verdicts \cup {None, "PROCESSING", "DONE"}]

NoOverride == [pc |-> "todo", loaded |-> None]

OfficerRequests == [pc : {"todo", "loaded", "done"}, loaded : Verdicts \cup {None, "ML_PROCESSING"}]

Connections == [pc : {"closed", "subscribe", "listen", "ended"},
                inbox : Verdicts \cup {None}, told : Verdicts \cup {None}]

TypeOK ==
    /\ ml \in Verdicts \cup {"PROCESSING"}
    /\ other \in Verdicts \cup {None}
    /\ published \in BOOLEAN /\ (published => ml \in Verdicts)
    /\ status \in Verdicts \cup {"ML_PROCESSING"}
    /\ cache \in Verdicts \cup {None, "PROCESSING", "DONE"}
    /\ poll \in [Pollers -> Polls]
    /\ \A p \in Pollers :
         \/ poll[p].pc \in {"idle", "ask"} /\ poll[p].got = None
         \/ poll[p].pc \in {"cache", "fetch"} /\ poll[p].got \in {"PROCESSING", "DONE"}
         \/ poll[p].pc \in {"store", "final"} /\ poll[p].got \in Verdicts
    /\ officer \in [Officers -> OfficerRequests]
    /\ stream \in [Streams -> Connections]
    /\ \A s \in Streams :
         /\ stream[s].inbox # None => stream[s].pc = "listen"
         /\ stream[s].told # None => stream[s].pc = "ended"
    /\ decided \subseteq Verdicts
    /\ strayed \in BOOLEAN
    /\ faults \in 0..MaxFaults

\* The interview has been sent; the ML service may have judged another
\* application of the candidate.
Init ==
    /\ ml = "PROCESSING" /\ published = FALSE
    /\ other \in Verdicts \cup {None}
    /\ status = "ML_PROCESSING" /\ cache = None
    /\ poll = [p \in Pollers |-> NotPolling]
    /\ officer = [o \in Officers |-> NoOverride]
    /\ stream = [s \in Streams |-> NoStream]
    /\ decided = {} /\ strayed = FALSE
    /\ faults = 0

Fault == faults < MaxFaults /\ faults' = faults + 1

-----------------------------------------------------------------------------
(***************************************************************************)
(* The ML service.                                                         *)
(***************************************************************************)
MLFinish(v) ==
    /\ ml = "PROCESSING"
    /\ ml' = v
    /\ UNCHANGED <<other, published, status, cache, poll, officer, stream, decided, strayed,
                   faults>>

\* Who is subscribed gets the message, nobody else ever will.
MLPublish ==
    /\ ml # "PROCESSING"
    /\ ~published
    /\ published' = TRUE
    /\ stream' = [s \in Streams |->
         IF stream[s].pc = "listen" THEN [stream[s] EXCEPT !.inbox = ml] ELSE stream[s]]
    /\ UNCHANGED <<ml, other, status, cache, poll, officer, decided, strayed, faults>>

-----------------------------------------------------------------------------
(***************************************************************************)
(* poll_once and _process_one.  ML is asked about the candidate, not the   *)
(* application, and may answer for the other one.                          *)
(***************************************************************************)
PollTo(p, pc, got) == poll' = [poll EXCEPT ![p] = [pc |-> pc, got |-> got]]
PollEnds(p) == poll' = [poll EXCEPT ![p] = NotPolling]

Answers == (IF ml # "PROCESSING" THEN {ml} ELSE {}) \cup (IF other # None THEN {other} ELSE {})

\* get_processing_applications.
PollBegin(p) ==
    /\ poll[p].pc = "idle"
    /\ status = "ML_PROCESSING"
    /\ PollTo(p, "ask", None)
    /\ UNCHANGED <<ml, other, published, status, cache, officer, stream, decided, strayed,
                   faults>>

\* get_pipeline_status.
PollAsk(p) ==
    /\ poll[p].pc = "ask"
    /\ \/ ml = "PROCESSING" /\ PollTo(p, "cache", "PROCESSING")
       \/ Answers # {} /\ PollTo(p, "cache", "DONE")
    /\ UNCHANGED <<ml, other, published, status, cache, officer, stream, decided, strayed,
                   faults>>

\* A 404, an answer that is not JSON, or an error body: NOT_FOUND, ERROR or
\* PROCESSING, none of which is DONE.
PollAskError(p) ==
    /\ poll[p].pc = "ask"
    /\ Fault
    /\ PollTo(p, "cache", "PROCESSING")
    /\ UNCHANGED <<ml, other, published, status, cache, officer, stream, decided, strayed>>

\* "Update Redis cache regardless".
PollCache(p) ==
    /\ poll[p].pc = "cache"
    /\ cache' = poll[p].got
    /\ IF poll[p].got = "DONE" THEN PollTo(p, "fetch", "DONE") ELSE PollEnds(p)
    /\ UNCHANGED <<ml, other, published, status, officer, stream, decided, strayed, faults>>

\* Mutant: the verdict is cached before it is committed.
PollFetch_CachesFirst(p, v) ==
    /\ poll[p].pc = "fetch"
    /\ v \in Answers
    /\ cache' = v
    /\ PollTo(p, "store", v)
    /\ strayed' = (strayed \/ v # ml)
    /\ UNCHANGED <<ml, other, published, status, officer, stream, decided, faults>>

\* get_verdict.
PollFetch(p, v) ==
    /\ poll[p].pc = "fetch"
    /\ v \in Answers
    /\ PollTo(p, "store", v)
    /\ strayed' = (strayed \/ v # ml)
    /\ UNCHANGED <<ml, other, published, status, cache, officer, stream, decided, faults>>

\* The body of an error has no "verdict", and counts as DEFAULT.
PollFetchError(p) ==
    /\ poll[p].pc = "fetch"
    /\ Fault
    /\ PollTo(p, "store", DEFAULT)
    /\ strayed' = (strayed \/ DEFAULT # ml)
    /\ UNCHANGED <<ml, other, published, status, cache, officer, stream, decided>>

\* A 404 or an answer that is not JSON: {}.
PollFetchEmpty(p) ==
    /\ poll[p].pc = "fetch"
    /\ Fault
    /\ PollEnds(p)
    /\ UNCHANGED <<ml, other, published, status, cache, officer, stream, decided, strayed>>

\* Mutant: the verdict row is committed, and the status is not.
PollStore_RowOnly(p) ==
    /\ poll[p].pc = "store"
    /\ decided' = decided \cup {poll[p].got}
    /\ PollTo(p, "final", poll[p].got)
    /\ UNCHANGED <<ml, other, published, status, cache, officer, stream, strayed, faults>>

\* The verdict row and the status are committed together, over whatever the
\* application has become since PollBegin.
PollStore(p) ==
    /\ poll[p].pc = "store"
    /\ status' = poll[p].got
    /\ decided' = decided \cup {poll[p].got}
    /\ PollTo(p, "final", poll[p].got)
    /\ UNCHANGED <<ml, other, published, cache, officer, stream, strayed, faults>>

PollFinal(p) ==
    /\ poll[p].pc = "final"
    /\ cache' = poll[p].got
    /\ PollEnds(p)
    /\ UNCHANGED <<ml, other, published, status, officer, stream, decided, strayed, faults>>

\* A call fails, or the worker stops; the next pass starts over.
PollFails(p) ==
    /\ poll[p].pc # "idle"
    /\ Fault
    /\ PollEnds(p)
    /\ UNCHANGED <<ml, other, published, status, cache, officer, stream, decided, strayed>>

\* Mutant: the key is set without a TTL.
CacheExpires_Never ==
    /\ cache # None
    /\ UNCHANGED vars

CacheExpires ==
    /\ cache # None
    /\ cache' = None
    /\ UNCHANGED <<ml, other, published, status, poll, officer, stream, decided, strayed,
                   faults>>

-----------------------------------------------------------------------------
(***************************************************************************)
(* override_verdict.  It leaves the cache as it is.                        *)
(***************************************************************************)
\* get_application_by_id.
OverrideLoad(o) ==
    /\ officer[o].pc = "todo"
    /\ officer' = [officer EXCEPT ![o] = [pc |-> "loaded", loaded |-> status]]
    /\ UNCHANGED <<ml, other, published, status, cache, poll, stream, decided, strayed,
                   faults>>

\* The commit of the verdict row and the status.  SQLAlchemy updates no column
\* whose value is the loaded one, and so leaves what was stored meanwhile.
OverrideStore(o, v) ==
    /\ officer[o].pc = "loaded"
    /\ officer' = [officer EXCEPT ![o] = [pc |-> "done", loaded |-> None]]
    /\ IF v = officer[o].loaded
       THEN UNCHANGED <<status, decided>>
       ELSE status' = v /\ decided' = decided \cup {v}
    /\ strayed' = (strayed \/ v # ml)
    /\ UNCHANGED <<ml, other, published, cache, poll, stream, faults>>

-----------------------------------------------------------------------------
(***************************************************************************)
(* GET /application/status and /application/status-stream.                 *)
(***************************************************************************)
\* What get_application_status answers: "Redis cache first", "DB fallback".
GetStatus == IF cache # None THEN cache ELSE status

Others == <<ml, other, published, status, cache, poll, officer, decided, strayed, faults>>

\* The status as loaded is sent at once; nothing follows a terminal one.
Connect(s) ==
    /\ stream[s].pc = "closed"
    /\ stream' = IF status \in Verdicts
                 THEN [stream EXCEPT ![s] = [NoStream EXCEPT !.pc = "ended", !.told = status]]
                 ELSE [stream EXCEPT ![s] = [NoStream EXCEPT !.pc = "subscribe"]]
    /\ UNCHANGED Others

Subscribe(s) ==
    /\ stream[s].pc = "subscribe"
    /\ stream' = [stream EXCEPT ![s].pc = "listen"]
    /\ UNCHANGED Others

Deliver(s) ==
    /\ stream[s].pc = "listen"
    /\ stream[s].inbox # None
    /\ stream' = [stream EXCEPT ![s] = [NoStream EXCEPT !.pc = "ended", !.told = stream[s].inbox]]
    /\ UNCHANGED Others

\* 20 s without a message: wait_for cancels __anext__, and the cancellation
\* finishes the generator it interrupts.  After the heartbeat the next
\* __anext__ raises StopAsyncIteration: break, and the response ends.
Heartbeat(s) ==
    /\ stream[s].pc = "listen"
    /\ stream[s].inbox = None
    /\ stream' = [stream EXCEPT ![s].pc = "ended"]
    /\ UNCHANGED Others

\* The client closes the connection, before or after it has ended.
Disconnect(s) ==
    /\ stream[s].pc # "closed"
    /\ stream' = [stream EXCEPT ![s] = NoStream]
    /\ UNCHANGED Others

-----------------------------------------------------------------------------
PollStep(p) ==
    \/ PollBegin(p) \/ PollAsk(p) \/ PollCache(p) \/ \E v \in Verdicts : PollFetch(p, v)
    \/ PollStore(p) \/ PollFinal(p)

PollError(p) == PollAskError(p) \/ PollFetchError(p) \/ PollFetchEmpty(p) \/ PollFails(p)

OfficerStep(o) == OverrideLoad(o) \/ \E v \in Verdicts : OverrideStore(o, v)

StreamStep(s) == Subscribe(s) \/ Deliver(s) \/ Heartbeat(s)

Next ==
    \/ \E v \in Verdicts : MLFinish(v)
    \/ MLPublish
    \/ \E p \in Pollers : PollStep(p) \/ PollError(p)
    \/ \E o \in Officers : OfficerStep(o)
    \/ CacheExpires
    \/ \E s \in Streams : Connect(s) \/ StreamStep(s) \/ Disconnect(s)

Spec == Init /\ [][Next]_vars

\* Pollers poll, and keys expire; nobody is assumed to open a
\* stream, nor the ML service to finish, nor an officer to decide.
FairSpec ==
    /\ Spec
    /\ \A p \in Pollers : WF_vars(PollStep(p))
    /\ SF_vars(CacheExpires)

-----------------------------------------------------------------------------
(***************************************************************************)
(* Properties.                                                             *)
(***************************************************************************)
\* A verdict that GET /application/status tells was one the database held,
\* whichever pollers and officers overlap, fail or are late.
ToldVerdictWasStored == GetStatus \in Verdicts => GetStatus \in decided

\* Why: a verdict is cached, loaded, and told by GET, only once it is stored; a
\* stream has it from the database or from the channel; a poller that carries
\* one was given it by the ML service, for this application unless it strayed.
VerdictStored ==
    /\ status \in Verdicts => status \in decided
    /\ status = "ML_PROCESSING" => decided = {}
    /\ ~strayed => decided \subseteq {ml}

CacheFollows == cache \in Verdicts => cache \in decided

PollInv(p) ==
    /\ poll[p].got = "DONE" \/ poll[p].pc = "fetch" => Answers # {}
    /\ poll[p].pc = "final" => poll[p].got \in decided
    /\ ~strayed /\ poll[p].got \in Verdicts => poll[p].got = ml

StreamInv(s) ==
    /\ stream[s].inbox # None => published /\ stream[s].inbox = ml
    /\ stream[s].told # None =>
         stream[s].told \in decided \/ (published /\ stream[s].told = ml)

IInv ==
    /\ TypeOK
    /\ VerdictStored /\ CacheFollows
    /\ \A p \in Pollers : PollInv(p)
    /\ \A s \in Streams : StreamInv(s)

\* Unless an officer decides otherwise, or ML's answer is an error's body or about the
\* other application, what a stream was told, from the channel or the database,
\* and what GET tells agree with what is stored, whichever polls overlap, are
\* late or fail.
StreamsAgree == ~strayed =>
    /\ GetStatus \in Verdicts => status = GetStatus
    /\ \A s \in Streams : stream[s].told # None =>
         status \in {"ML_PROCESSING", stream[s].told}

\* A verdict is never taken back, and replaced only where one strayed.
VerdictStays ==
    [][status # "ML_PROCESSING" =>
           status' # "ML_PROCESSING" /\ (~strayed' => status' = status)]_vars

\* Who "hits GET /application/status/{id} every 10s" (the frontend, says
\* planning/REDIS_DESIGN.txt:160) learns a verdict, and in the end the one that
\* is stored, whichever poll fails or caches late, and whatever an officer
\* decides.
PollingLearns == ml # "PROCESSING" ~> [](GetStatus \in Verdicts /\ GetStatus = status)

\* The promise without its condition: what is told is, from then on, what the
\* application's status is.
ToldIsStored ==
    \A s \in Streams : stream[s].told # None => status \in {"ML_PROCESSING", stream[s].told}

\* "blocks until the ML service publishes a terminal status".
BlocksUntilPublished ==
    \A s \in Streams : stream[s].pc = "ended" /\ stream[s].told = None => published

\* "{"status": "PROCESSING"} or {"status": "DONE", "verdict": "READY"}": DONE
\* comes with its verdict.
DoneHasVerdict == GetStatus # "DONE"
=============================================================================
