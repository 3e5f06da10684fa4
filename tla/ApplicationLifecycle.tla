------------------------- MODULE ApplicationLifecycle -------------------------
(***************************************************************************)
(* The life of an application from its first interview to its verdict:     *)
(* /interview/start and /interview/end (interview/routes.py), the poller   *)
(* of the ML service (pipeline/poller.py, one per uvicorn worker) and the  *)
(* officer's override (admin/routes.py), all of them transactions on the   *)
(* same rows, with the Kafka topic candidate.meta and the ML service       *)
(* between them.                                                           *)
(*                                                                         *)
(* A transaction is an actor with its handler's locals.  Its reads see     *)
(* what is committed when they run.  An UPDATE takes the row's lock (or    *)
(* waits for it) and stays in `w` until the commit.  SQLAlchemy emits only *)
(* the columns whose new value differs from the value the handler's object *)
(* was loaded with: assigning the loaded value writes nothing, whatever    *)
(* the row holds by now.  autoflush is off, so every flush is a            *)
(* DatabaseAdapter.create or update.                                       *)
(*                                                                         *)
(* candidate_id is the user's id for the ML service, which therefore has   *)
(* one status and one verdict per user, not per application.               *)
(***************************************************************************)
EXTENDS Naturals, Sequences, FiniteSets

CONSTANTS
    Users, Apps,
    Owner,          \* [Apps -> Users]
    Sessions,       \* pool of interview session ids
    Requests,       \* slots for client and admin requests in flight
    Pollers,        \* one per uvicorn worker
    MLVerdicts,     \* the verdicts the ML service may reach
    Overrides,      \* the verdicts an officer may set
    MLMayFail,      \* whether a run of the ML service may end in ERROR
    MaxFaults,      \* bound on failed statements, sends, runs and crashes
    MaxInbox,       \* bound on unread messages of candidate.meta
    None

ASSUME OwnerAssumption == Owner \in [Apps -> Users]
ASSUME FaultAssumption == MLMayFail \in BOOLEAN /\ MaxFaults \in Nat /\ MaxInbox \in Nat

Verdicts == {"READY", "SKILL_TRAINING", "MANUAL_VERIFICATION", "UNSKILLED", "FRAUD"}

ASSUME VerdictsAssumption == MLVerdicts \cup Overrides \subseteq Verdicts

Statuses == Verdicts \cup {"DOCUMENTS_PENDING", "INTERVIEW_PENDING",
                           "INTERVIEW_DONE", "ML_PROCESSING"}

VARIABLES
    status, cooled, \* candidate_applications: status, cooldown_until is set
    sess,           \* interview_sessions: state, application, transcript kept
    verdict,        \* ml_verdicts row of an application, or None
    active,         \* users.is_active
    chat,           \* sessions with a chatbot in memory
    inbox,          \* candidate.meta, per candidate: applications to evaluate
    sent,           \* history: applications for which a meta was ever sent
    ml,             \* what GET /status and /verdict of a candidate answer
    ml_cache,       \* ml_status:{application_id} in Redis
    tx,             \* the transactions in progress
    faults

db == <<status, cooled, sess, verdict, active>>
vars == <<db, chat, inbox, sent, ml, ml_cache, tx, faults>>

-----------------------------------------------------------------------------
Tasks == Pollers \X Apps        \* a poller's _process_one, per application
Actors == Requests \cup Tasks

\* A verdict as stored: its value, and whose material it judged, "admin" for an
\* override, "error" for an error's body (full_result holds it).  Such a body
\* has no "verdict": the row's is NULL, and MANUAL_VERIFICATION stands for it
\* in the status and the cache.
VerdictRow == [value : Verdicts \cup {None}, of : Apps \cup {"admin", "error"}]

ErrorBody == [value |-> None, of |-> "error"]

Shown(row) == IF row.value = None THEN "MANUAL_VERIFICATION" ELSE row.value

\* What a transaction has flushed; None where it has not written.
NoWrites == [status |-> None, cooled |-> FALSE, sess |-> None, verdict |-> None,
             deactivate |-> FALSE]

Idle == [pc |-> "idle", kind |-> None, app |-> None, sid |-> None,
         seen |-> None,     \* app.status as the handler's object holds it
         sees |-> None,     \* session.status as loaded
         heard |-> FALSE,   \* the transcript came from a chatbot
         row |-> None,      \* the ml_verdicts row as loaded
         new |-> None,      \* the verdict to store
         w |-> NoWrites]

Kinds == {"start", "end", "override", "poll"}

PCs == {"idle", "create", "start_status", "end_app", "complete", "cooldown", "send",
        "poll_status", "poll_verdict", "read_verdict", "write_verdict", "poll_app",
        "write_status", "deactivate", "commit", "cache"}

Writes == [status : Statuses \cup {None}, cooled : BOOLEAN,
           sess : {None, "ACTIVE", "COMPLETED"}, verdict : VerdictRow \cup {None},
           deactivate : BOOLEAN]

Transactions == [pc : PCs, kind : Kinds \cup {None}, app : Apps \cup {None},
                 sid : Sessions \cup {None}, seen : Statuses \cup {None},
                 sees : {None, "ACTIVE", "COMPLETED"}, heard : BOOLEAN,
                 row : VerdictRow \cup {None}, new : VerdictRow \cup {None}, w : Writes]

ASSUME NoneAssumption ==
    None \notin Apps \cup Sessions \cup Statuses \cup VerdictRow \cup Kinds
                    \cup {"ACTIVE", "COMPLETED"}

Begin(kind, pc) == [Idle EXCEPT !.kind = kind, !.pc = pc]

MLStatuses == {"NOT_FOUND", "PROCESSING", "DONE", "ERROR"}

NoSession == [state |-> "NONE", app |-> None, heard |-> FALSE]

RowsTypeOK ==
    /\ status \in [Apps -> Statuses]
    /\ cooled \in [Apps -> BOOLEAN]
    /\ sess \in [Sessions -> [state : {"NONE", "ACTIVE", "COMPLETED"},
                              app : Apps \cup {None}, heard : BOOLEAN]]
    /\ verdict \in [Apps -> VerdictRow \cup {None}]
    /\ active \in [Users -> BOOLEAN]

ServicesTypeOK ==
    /\ chat \subseteq Sessions
    /\ inbox \in [Users -> Seq(Apps)]
    /\ sent \subseteq Apps
    /\ ml \in [Users -> [status : MLStatuses, row : Apps \cup VerdictRow \cup {None}]]
    /\ \A u \in Users : /\ ml[u].status = "PROCESSING" => ml[u].row \in Apps
                        /\ ml[u].status = "DONE" => ml[u].row \in VerdictRow
    /\ ml_cache \in [Apps -> [status : MLStatuses \cup {None}, verdict : Verdicts \cup {None}]]
    /\ faults \in 0..MaxFaults

TypeOK == RowsTypeOK /\ ServicesTypeOK /\ tx \in [Actors -> Transactions]

Init ==
    /\ status = [a \in Apps |-> "DOCUMENTS_PENDING"]
    /\ cooled = [a \in Apps |-> FALSE]
    /\ sess = [s \in Sessions |-> NoSession]
    /\ verdict = [a \in Apps |-> None]
    /\ active = [u \in Users |-> TRUE]
    /\ chat = {}
    /\ inbox = [u \in Users |-> <<>>]
    /\ sent = {}
    /\ ml = [u \in Users |-> [status |-> "NOT_FOUND", row |-> None]]
    /\ ml_cache = [a \in Apps |-> [status |-> None, verdict |-> None]]
    /\ tx = [x \in Actors |-> Idle]
    /\ faults = 0

-----------------------------------------------------------------------------
(***************************************************************************)
(* Row locks.  A transaction holds the lock of a row it has written.       *)
(***************************************************************************)
HoldsApp(y, a) == tx[y].app = a /\ (tx[y].w.status # None \/ tx[y].w.cooled)
HoldsSession(y, s) == tx[y].sid = s /\ tx[y].w.sess # None
HoldsVerdict(y, a) == tx[y].app = a /\ tx[y].w.verdict # None
HoldsUser(y, a) == tx[y].app # None /\ tx[y].w.deactivate /\ Owner[tx[y].app] = Owner[a]

AppFree(x) == \A y \in Actors \ {x} : ~HoldsApp(y, tx[x].app)
SessionFree(x) == \A y \in Actors \ {x} : ~HoldsSession(y, tx[x].sid)
VerdictFree(x) == \A y \in Actors \ {x} : ~HoldsVerdict(y, tx[x].app)
UserFree(x) == \A y \in Actors \ {x} : ~HoldsUser(y, tx[x].app)

Move(x, pc) == tx' = [tx EXCEPT ![x].pc = pc]
End(x) == tx' = [tx EXCEPT ![x] = Idle]

Fault == faults < MaxFaults /\ faults' = faults + 1

\* update_application_status: the column is in the UPDATE only if the handler
\* loaded another value.
WriteStatus(x, new, pc) ==
    IF tx[x].seen = new
    THEN Move(x, pc)
    ELSE /\ AppFree(x)
         /\ tx' = [tx EXCEPT ![x].w.status = new, ![x].seen = new, ![x].pc = pc]

-----------------------------------------------------------------------------
(***************************************************************************)
(* POST /interview/start.                                                  *)
(***************************************************************************)
Fresh(s) == sess[s] = NoSession /\ s \notin chat

\* Bound: a start begins only while the pool has an id for it.
PoolSuffices ==
    Cardinality({s \in Sessions : Fresh(s)}) > Cardinality({x \in Actors : tx[x].pc = "create"})

StartLoad(r, a) ==
    /\ tx[r].pc = "idle"
    /\ PoolSuffices
    /\ status[a] \in {"DOCUMENTS_PENDING", "INTERVIEW_PENDING"}
    /\ tx' = [tx EXCEPT ![r] = [Begin("start", "create") EXCEPT !.app = a, !.seen = status[a]]]
    /\ UNCHANGED <<db, chat, inbox, sent, ml, ml_cache, faults>>

\* The row is private until the commit; the chatbot is in memory at once.
StartCreate(r, s) ==
    /\ tx[r].pc = "create"
    /\ Fresh(s)
    /\ tx' = [tx EXCEPT ![r].sid = s, ![r].w.sess = "ACTIVE", ![r].pc = "start_status"]
    /\ chat' = chat \cup {s}
    /\ UNCHANGED <<db, inbox, sent, ml, ml_cache, faults>>

StartStatus(r) ==
    /\ tx[r].pc = "start_status"
    /\ WriteStatus(r, "INTERVIEW_PENDING", "commit")
    /\ UNCHANGED <<db, chat, inbox, sent, ml, ml_cache, faults>>

-----------------------------------------------------------------------------
(***************************************************************************)
(* POST /interview/end/{session_id}.                                       *)
(***************************************************************************)
EndLoadSession(r, s) ==
    /\ tx[r].pc = "idle"
    /\ sess[s].state # "NONE"
    /\ tx' = [tx EXCEPT ![r] = [Begin("end", "end_app") EXCEPT !.sid = s, !.app = sess[s].app,
                                                              !.sees = sess[s].state]]
    /\ UNCHANGED <<db, chat, inbox, sent, ml, ml_cache, faults>>

\* Only the session's status is looked at, never the application's.
EndLoadApp(r) ==
    /\ tx[r].pc = "end_app"
    /\ \/ tx[r].sees # "ACTIVE" /\ End(r)
       \/ /\ tx[r].sees = "ACTIVE"
          /\ tx' = [tx EXCEPT ![r].seen = status[tx[r].app],
                              ![r].heard = tx[r].sid \in chat,
                              ![r].pc = "complete"]
    /\ UNCHANGED <<db, chat, inbox, sent, ml, ml_cache, faults>>

\* Mutant: the session is committed on its own, before the cooldown.
EndComplete_Commits(r) ==
    /\ tx[r].pc = "complete"
    /\ SessionFree(r)
    /\ sess' = [sess EXCEPT ![tx[r].sid].state = "COMPLETED"]
    /\ Move(r, "cooldown")
    /\ UNCHANGED <<status, cooled, verdict, active, chat, inbox, sent, ml, ml_cache, faults>>

\* complete_interview_session.
EndComplete(r) ==
    /\ tx[r].pc = "complete"
    /\ SessionFree(r)
    /\ tx' = [tx EXCEPT ![r].w.sess = "COMPLETED", ![r].pc = "cooldown"]
    /\ UNCHANGED <<db, chat, inbox, sent, ml, ml_cache, faults>>

\* set_application_cooldown, and the refresh that shows what the row holds.
EndCooldown(r) ==
    LET new == IF tx[r].seen = "INTERVIEW_DONE" THEN None ELSE "INTERVIEW_DONE"
    IN  /\ tx[r].pc = "cooldown"
        /\ AppFree(r)
        /\ tx' = [tx EXCEPT ![r].w.cooled = TRUE, ![r].w.status = new,
                            ![r].seen = IF new = None THEN status[tx[r].app] ELSE new,
                            ![r].pc = "send"]
        /\ UNCHANGED <<db, chat, inbox, sent, ml, ml_cache, faults>>

\* The meta message reaches the topic.
Deliver(a) ==
    /\ Len(inbox[Owner[a]]) < MaxInbox
    /\ inbox' = [inbox EXCEPT ![Owner[a]] = Append(@, a)]
    /\ sent' = sent \cup {a}

\* Mutant: the meta message is sent without waiting for the broker.
EndSend_Unacknowledged(r) ==
    /\ tx[r].pc = "send"
    /\ Deliver(tx[r].app) \/ UNCHANGED <<inbox, sent>>
    /\ WriteStatus(r, "ML_PROCESSING", "commit")
    /\ chat' = chat \ {tx[r].sid}
    /\ UNCHANGED <<db, ml, ml_cache, faults>>

\* Media and meta sent, then ML_PROCESSING.
EndSend(r) ==
    /\ tx[r].pc = "send"
    /\ Deliver(tx[r].app)
    /\ WriteStatus(r, "ML_PROCESSING", "commit")
    /\ chat' = chat \ {tx[r].sid}
    /\ UNCHANGED <<db, ml, ml_cache, faults>>

\* The send of the meta message raises (delivered or not): logged, and the
\* handler goes on to answer "completed".
EndSendFails(r) ==
    /\ tx[r].pc = "send"
    /\ Fault
    /\ Move(r, "commit")
    /\ chat' = chat \ {tx[r].sid}
    /\ Deliver(tx[r].app) \/ UNCHANGED <<inbox, sent>>
    /\ UNCHANGED <<db, ml, ml_cache>>

\* The status update after the send fails: the adapter rolls the transaction
\* back, the same except clause swallows it, the chatbot is removed.
EndStatusFails(r) ==
    /\ tx[r].pc = "send"
    /\ Fault
    /\ Deliver(tx[r].app)
    /\ End(r)
    /\ chat' = chat \ {tx[r].sid}
    /\ UNCHANGED <<db, ml, ml_cache>>

-----------------------------------------------------------------------------
(***************************************************************************)
(* PUT /admin/verdict/{application_id}/override.                           *)
(***************************************************************************)
\* Mutant: the application is updated before the verdict.
OverrideLoad_StatusFirst(r, a, v) ==
    /\ tx[r].pc = "idle"
    /\ \A y \in Actors : ~HoldsApp(y, a)
    /\ tx' = [tx EXCEPT ![r] = [Begin("override", "read_verdict") EXCEPT
                                  !.app = a, !.seen = v, !.w.status = v,
                                  !.new = [value |-> v, of |-> "admin"]]]
    /\ UNCHANGED <<db, chat, inbox, sent, ml, ml_cache, faults>>

OverrideLoad(r, a, v) ==
    /\ tx[r].pc = "idle"
    /\ tx' = [tx EXCEPT ![r] = [Begin("override", "read_verdict") EXCEPT
                                  !.app = a, !.seen = status[a],
                                  !.new = [value |-> v, of |-> "admin"]]]
    /\ UNCHANGED <<db, chat, inbox, sent, ml, ml_cache, faults>>

-----------------------------------------------------------------------------
(***************************************************************************)
(* poll_once: the applications in ML_PROCESSING, one task for each, all of *)
(* them at once; the next pass begins when the last has ended.             *)
(***************************************************************************)
\* Mutant: applications the cache knows to be DONE are skipped.
PollOnce_SkipsCached(p) ==
    LET processing == {a \in Apps : status[a] = "ML_PROCESSING" /\ ml_cache[a].status # "DONE"}
    IN  /\ \A a \in Apps : tx[<<p, a>>].pc = "idle"
        /\ processing # {}
        /\ tx' = [x \in Actors |->
                    IF x \in {p} \X processing
                    THEN [Begin("poll", "poll_status") EXCEPT !.app = x[2]]
                    ELSE tx[x]]
        /\ UNCHANGED <<db, chat, inbox, sent, ml, ml_cache, faults>>

\* Mutant: every application without a verdict is looked at.
PollOnce_AnyOpen(p) ==
    LET open == {a \in Apps : status[a] \notin Verdicts}
    IN  /\ \A a \in Apps : tx[<<p, a>>].pc = "idle"
        /\ open # {}
        /\ tx' = [x \in Actors |->
                    IF x \in {p} \X open
                    THEN [Begin("poll", "poll_status") EXCEPT !.app = x[2]]
                    ELSE tx[x]]
        /\ UNCHANGED <<db, chat, inbox, sent, ml, ml_cache, faults>>

PollOnce(p) ==
    LET processing == {a \in Apps : status[a] = "ML_PROCESSING"}
    IN  /\ \A a \in Apps : tx[<<p, a>>].pc = "idle"
        /\ processing # {}
        /\ tx' = [x \in Actors |->
                    IF x \in {p} \X processing
                    THEN [Begin("poll", "poll_status") EXCEPT !.app = x[2]]
                    ELSE tx[x]]
        /\ UNCHANGED <<db, chat, inbox, sent, ml, ml_cache, faults>>

\* GET /status/{candidate_id}, then set_ml_status "regardless".
PollStatus(t) ==
    LET answer == ml[Owner[tx[t].app]].status
    IN  /\ tx[t].pc = "poll_status"
        /\ ml_cache' = [ml_cache EXCEPT ![tx[t].app] = [status |-> answer, verdict |-> None]]
        /\ IF answer = "DONE" THEN Move(t, "poll_verdict") ELSE End(t)
        /\ UNCHANGED <<db, chat, inbox, sent, ml, faults>>

\* Mutant: the verdict goes to Redis before the database.
PollVerdict_CachesFirst(t) ==
    LET u == Owner[tx[t].app]
    IN  /\ tx[t].pc = "poll_verdict"
        /\ ml[u].status = "DONE"
        /\ tx' = [tx EXCEPT ![t].new = ml[u].row, ![t].pc = "read_verdict"]
        /\ ml_cache' = [ml_cache EXCEPT ![tx[t].app] = [status |-> "DONE",
                                                        verdict |-> ml[u].row.value]]
        /\ UNCHANGED <<db, chat, inbox, sent, ml, faults>>

\* GET /verdict/{candidate_id}; empty unless the candidate's run is done.
PollVerdict(t) ==
    LET u == Owner[tx[t].app]
    IN  /\ tx[t].pc = "poll_verdict"
        /\ IF ml[u].status = "DONE"
           THEN tx' = [tx EXCEPT ![t].new = ml[u].row, ![t].pc = "read_verdict"]
           ELSE End(t)
        /\ UNCHANGED <<db, chat, inbox, sent, ml, ml_cache, faults>>

\* The body of an error, unless it is a 404: a dict, not empty, no "verdict".
PollVerdictError(t) ==
    /\ tx[t].pc = "poll_verdict"
    /\ Fault
    /\ tx' = [tx EXCEPT ![t].new = ErrorBody, ![t].pc = "read_verdict"]
    /\ UNCHANGED <<db, chat, inbox, sent, ml, ml_cache>>

\* upsert_ml_verdict, the SELECT.
ReadVerdict(x) ==
    /\ tx[x].pc = "read_verdict"
    /\ tx' = [tx EXCEPT ![x].row = verdict[tx[x].app], ![x].pc = "write_verdict"]
    /\ UNCHANGED <<db, chat, inbox, sent, ml, ml_cache, faults>>

\* Its UPDATE of a row that was there (fetched_at always changes), column by
\* column, or its INSERT of one that was not.
Upserted(x) ==
    LET a == tx[x].app
        old == tx[x].row
        new == tx[x].new
    IN  IF old = None THEN new
        ELSE [value |-> IF new.value = old.value THEN verdict[a].value ELSE new.value,
              of    |-> IF new.of = old.of THEN verdict[a].of ELSE new.of]

\* The INSERT meets the row another transaction has committed meanwhile: the
\* unique application_id raises, the transaction is rolled back.
WriteVerdict(x) ==
    LET clash == tx[x].row = None /\ verdict[tx[x].app] # None
        next == IF tx[x].kind = "poll" THEN "poll_app" ELSE "write_status"
    IN  /\ tx[x].pc = "write_verdict"
        /\ VerdictFree(x)
        /\ IF clash THEN End(x)
           ELSE tx' = [tx EXCEPT ![x].w.verdict = Upserted(x), ![x].pc = next]
        /\ UNCHANGED <<db, chat, inbox, sent, ml, ml_cache, faults>>

PollApp(t) ==
    /\ tx[t].pc = "poll_app"
    /\ tx' = [tx EXCEPT ![t].seen = status[tx[t].app], ![t].pc = "write_status"]
    /\ UNCHANGED <<db, chat, inbox, sent, ml, ml_cache, faults>>

\* The poller deactivates a user judged FRAUD; the override does not.
WriteVerdictStatus(x) ==
    /\ tx[x].pc = "write_status"
    /\ WriteStatus(x, Shown(tx[x].new),
                   IF tx[x].kind = "poll" /\ tx[x].new.value = "FRAUD"
                   THEN "deactivate" ELSE "commit")
    /\ UNCHANGED <<db, chat, inbox, sent, ml, ml_cache, faults>>

DeactivateUser(t) ==
    /\ tx[t].pc = "deactivate"
    /\ UserFree(t)
    /\ tx' = [tx EXCEPT ![t].w.deactivate = TRUE, ![t].pc = "commit"]
    /\ UNCHANGED <<db, chat, inbox, sent, ml, ml_cache, faults>>

\* After the commit, the final verdict goes to Redis.
PollCache(t) ==
    /\ tx[t].pc = "cache"
    /\ ml_cache' = [ml_cache EXCEPT ![tx[t].app] = [status |-> "DONE",
                                                    verdict |-> Shown(tx[t].new)]]
    /\ End(t)
    /\ UNCHANGED <<db, chat, inbox, sent, ml, faults>>

-----------------------------------------------------------------------------
(***************************************************************************)
(* Commit and rollback (db/session.py).                                    *)
(***************************************************************************)
Commit(x) ==
    LET a == tx[x].app
        s == tx[x].sid
        w == tx[x].w
    IN  /\ tx[x].pc = "commit"
        /\ status' = IF w.status = None THEN status ELSE [status EXCEPT ![a] = w.status]
        /\ cooled' = IF w.cooled THEN [cooled EXCEPT ![a] = TRUE] ELSE cooled
        /\ sess' = IF w.sess = None THEN sess
                   ELSE [sess EXCEPT ![s] = [state |-> w.sess, app |-> a, heard |-> tx[x].heard]]
        /\ verdict' = IF w.verdict = None THEN verdict ELSE [verdict EXCEPT ![a] = w.verdict]
        /\ active' = IF w.deactivate THEN [active EXCEPT ![Owner[a]] = FALSE] ELSE active
        /\ IF tx[x].kind = "poll"
           THEN tx' = [tx EXCEPT ![x].w = NoWrites, ![x].pc = "cache"]
           ELSE End(x)
        /\ UNCHANGED <<chat, inbox, sent, ml, ml_cache, faults>>

\* A statement, the commit, or a call to the ML service fails.
Rollback(x) ==
    /\ tx[x].pc # "idle"
    /\ Fault
    /\ End(x)
    /\ UNCHANGED <<db, chat, inbox, sent, ml, ml_cache>>

\* The server restarts: what was in progress and in memory is gone.
Restart ==
    /\ Fault
    /\ tx' = [x \in Actors |-> Idle]
    /\ chat' = {}
    /\ UNCHANGED <<db, inbox, sent, ml, ml_cache>>

\* ml_status keys live 60 seconds.
CacheExpires(a) ==
    /\ ml_cache[a].status # None
    /\ ml_cache' = [ml_cache EXCEPT ![a] = [status |-> None, verdict |-> None]]
    /\ UNCHANGED <<db, chat, inbox, sent, ml, tx, faults>>

-----------------------------------------------------------------------------
(***************************************************************************)
(* The ML service, as the poller sees it: one run at a time per candidate, *)
(* started by the next meta message, and one result, the latest.           *)
(***************************************************************************)
MLTake(u) ==
    /\ inbox[u] # <<>>
    /\ ml[u].status # "PROCESSING"
    /\ ml' = [ml EXCEPT ![u] = [status |-> "PROCESSING", row |-> Head(inbox[u])]]
    /\ inbox' = [inbox EXCEPT ![u] = Tail(@)]
    /\ UNCHANGED <<db, chat, sent, ml_cache, tx, faults>>

MLFinish(u) ==
    /\ ml[u].status = "PROCESSING"
    /\ \E v \in MLVerdicts :
          ml' = [ml EXCEPT ![u] = [status |-> "DONE", row |-> [value |-> v, of |-> ml[u].row]]]
    /\ UNCHANGED <<db, chat, inbox, sent, ml_cache, tx, faults>>

MLError(u) ==
    /\ MLMayFail
    /\ ml[u].status = "PROCESSING"
    /\ Fault
    /\ ml' = [ml EXCEPT ![u] = [status |-> "ERROR", row |-> None]]
    /\ UNCHANGED <<db, chat, inbox, sent, ml_cache, tx>>

-----------------------------------------------------------------------------
\* The next step of a transaction in progress.
Step(x) ==
    \/ \E s \in Sessions : StartCreate(x, s)
    \/ StartStatus(x)
    \/ EndLoadApp(x) \/ EndComplete(x) \/ EndCooldown(x) \/ EndSend(x)
    \/ PollStatus(x) \/ PollVerdict(x) \/ PollApp(x) \/ DeactivateUser(x) \/ PollCache(x)
    \/ ReadVerdict(x) \/ WriteVerdict(x) \/ WriteVerdictStatus(x)
    \/ Commit(x)

Next ==
    \/ \E r \in Requests :
          \/ \E a \in Apps : StartLoad(r, a)
          \/ \E s \in Sessions : EndLoadSession(r, s)
          \/ \E a \in Apps, v \in Overrides : OverrideLoad(r, a, v)
          \/ EndSendFails(r) \/ EndStatusFails(r)
    \/ \E p \in Pollers : PollOnce(p)
    \/ \E x \in Actors : Step(x) \/ Rollback(x) \/ PollVerdictError(x)
    \/ Restart
    \/ \E a \in Apps : CacheExpires(a)
    \/ \E u \in Users : MLTake(u) \/ MLFinish(u) \/ MLError(u)

Spec == Init /\ [][Next]_vars

\* Handlers, pollers and the ML service keep running; clients, officers,
\* faults and expiries owe nothing.  A waiting statement is woken when the
\* lock it waits for is released, and queues before newer ones.
FairSpec ==
    /\ Spec
    /\ \A x \in Actors : SF_vars(Step(x))
    /\ \A p \in Pollers : SF_vars(PollOnce(p))
    /\ \A u \in Users : WF_vars(MLTake(u)) /\ WF_vars(MLFinish(u))

-----------------------------------------------------------------------------
(***************************************************************************)
(* Properties.                                                             *)
(***************************************************************************)
\* An application the poller looks at has something to wait for: its meta
\* message was sent (the code sends before it writes the status), one of its
\* interviews is on record as completed, and its cooldown has started.
ProcessingWasSent ==
    \A a \in Apps : status[a] = "ML_PROCESSING" =>
        /\ a \in sent
        /\ cooled[a]
        /\ \E s \in Sessions : sess[s].app = a /\ sess[s].state = "COMPLETED"

\* "Why cooldown set at interview end": a completed interview has put its
\* application in cooldown, whatever failed between the two updates, and the
\* application is past the state in which it had no interview.
CompletedMeansCooldown ==
    \A s \in Sessions : sess[s].state = "COMPLETED" =>
        cooled[sess[s].app] /\ status[sess[s].app] # "DOCUMENTS_PENDING"

\* An application that shows a verdict, in its status or through the verdict
\* the poller puts in Redis, has a committed verdict row to back it: the result
\* page never finds nothing.
VerdictOnRecord ==
    \A a \in Apps :
        status[a] \in Verdicts \/ ml_cache[a].verdict # None => verdict[a] # None

\* Whoever reads INTERVIEW_PENDING has an open interview to go on with, also
\* where a late start has taken the application back from the pipeline: it can
\* reach the end request that sends it there again.
PendingHasOpenSession ==
    \A a \in Apps : status[a] = "INTERVIEW_PENDING" =>
        \E s \in Sessions : sess[s].app = a /\ sess[s].state = "ACTIVE"

\* Where no officer overrides, an application that reads FRAUD belongs to a
\* deactivated user: the poller commits both or neither.
FraudBlocksUser ==
    \A a \in Apps : status[a] = "FRAUD" => ~active[Owner[a]]

\* What a transaction in progress holds, and what is committed that its locals
\* rest on.  A start has made a session nobody else has.
StartInv(x) ==
    tx[x].kind = "start" =>
        /\ tx[x].app \in Apps
        /\ tx[x].pc \in {"create", "start_status", "commit"}
        /\ tx[x].w.status \in {None, "INTERVIEW_PENDING"}
        /\ ~tx[x].w.cooled /\ tx[x].w.verdict = None /\ ~tx[x].w.deactivate
        /\ tx[x].pc # "commit" => tx[x].w.status = None
        /\ IF tx[x].pc = "create" THEN tx[x].w.sess = None
           ELSE /\ tx[x].sid \in chat
                /\ sess[tx[x].sid] = NoSession
                /\ tx[x].w.sess = "ACTIVE"

\* An end works on a session of its application; once it has set the cooldown
\* the application is, or is about to be, past DOCUMENTS_PENDING.
EndInv(x) ==
    tx[x].kind = "end" =>
        /\ tx[x].app \in Apps /\ tx[x].sid \in Sessions
        /\ sess[tx[x].sid].state # "NONE" /\ sess[tx[x].sid].app = tx[x].app
        /\ tx[x].pc \in {"end_app", "complete", "cooldown", "send", "commit"}
        /\ tx[x].w.status \in {None, "INTERVIEW_DONE", "ML_PROCESSING"}
        /\ tx[x].w.verdict = None /\ ~tx[x].w.deactivate
        /\ tx[x].pc \in {"end_app", "complete"} => tx[x].w.sess = None
        /\ tx[x].pc \in {"cooldown", "send", "commit"} => tx[x].w.sess = "COMPLETED"
        /\ IF tx[x].pc \in {"send", "commit"}
           THEN /\ tx[x].w.cooled
                /\ tx[x].w.status = None => status[tx[x].app] # "DOCUMENTS_PENDING"
                /\ tx[x].w.status = "ML_PROCESSING" => tx[x].app \in sent
           ELSE /\ ~tx[x].w.cooled /\ tx[x].w.status = None
                /\ tx[x].seen = "INTERVIEW_DONE" => status[tx[x].app] # "DOCUMENTS_PENDING"

\* A poller's task or an override stores a verdict before the status.
VerdictInv(x) ==
    tx[x].kind \in {"override", "poll"} =>
        /\ tx[x].app \in Apps
        /\ tx[x].pc \in {"read_verdict", "write_verdict", "write_status", "commit"}
                         \cup (IF tx[x].kind = "poll"
                               THEN {"poll_status", "poll_verdict", "poll_app", "deactivate", "cache"}
                               ELSE {})
        /\ tx[x].w.status \in Verdicts \cup {None}
        /\ ~tx[x].w.cooled /\ tx[x].w.sess = None
        /\ tx[x].pc \notin {"poll_status", "poll_verdict"} => tx[x].new # None
        /\ tx[x].pc \in {"poll_app", "write_status", "deactivate", "commit"}
              <=> tx[x].w.verdict # None
        /\ tx[x].pc \notin {"deactivate", "commit"} => tx[x].w.status = None
        /\ tx[x].pc # "commit" => ~tx[x].w.deactivate
        /\ tx[x].row # None \/ tx[x].pc = "cache" => verdict[tx[x].app] # None

IdleInv(x) == tx[x].kind = None => tx[x] = Idle

SessionsDiffer ==
    \A x, y \in Actors :
        /\ x # y
        /\ tx[x].kind = "start" /\ tx[x].pc # "create"
        /\ tx[y].kind = "start" /\ tx[y].pc # "create"
        => tx[x].sid # tx[y].sid

\* An end of session s that would leave the application's status as it is: it
\* loaded INTERVIEW_DONE, so that there was nothing to write.
LeavesStatus(x, s) ==
    /\ tx[x].kind = "end" /\ tx[x].sid = s
    /\ \/ tx[x].pc \in {"complete", "cooldown"} /\ tx[x].seen = "INTERVIEW_DONE"
       \/ tx[x].pc \in {"send", "commit"} /\ tx[x].w.status = None

\* PendingHasOpenSession, strengthened: there is an open session whose end
\* takes the application out of INTERVIEW_PENDING.
PendingCanEnd ==
    \A a \in Apps : status[a] = "INTERVIEW_PENDING" =>
        \E s \in Sessions : /\ sess[s].app = a /\ sess[s].state = "ACTIVE"
                            /\ \A x \in Actors : ~LeavesStatus(x, s)

SessionsHaveApps == \A s \in Sessions : sess[s].state # "NONE" => sess[s].app \in Apps

TxInv == \A x \in Actors : StartInv(x) /\ EndInv(x) /\ VerdictInv(x) /\ IdleInv(x)

\* A verdict v is on material of user u that was sent, or an error's body.
OnMaterial(v, u) == v.of # "error" => v.of \in sent /\ Owner[v.of] = u

\* FRAUD is known only of those already deactivated.
Known(v, u) == OnMaterial(v, u) /\ (v.value = "FRAUD" => ~active[u])

\* What a poller's task holds where nobody else stores verdicts: the verdict it
\* is to store is on sent material of the owner, and FRAUD in it, in the row it
\* has written or in the status means that the owner is, or is being, deactivated.
JudgedInv(x) ==
    LET u == Owner[tx[x].app]
    IN  /\ tx[x].kind # "override"
        /\ tx[x].kind = "poll" =>
              /\ cooled[tx[x].app]
              /\ tx[x].new # None => OnMaterial(tx[x].new, u)
              /\ tx[x].row # None => Known(tx[x].row, u)
              /\ tx[x].w.verdict # None =>
                    /\ OnMaterial(tx[x].w.verdict, u)
                    /\ active[u] =>
                          (tx[x].w.verdict.value = "FRAUD" <=> tx[x].new.value = "FRAUD")
              /\ tx[x].w.status = "FRAUD" \/ tx[x].w.deactivate \/ tx[x].pc = "deactivate"
                    => tx[x].new.value = "FRAUD"
              /\ tx[x].pc = "commit" /\ tx[x].new.value = "FRAUD" => tx[x].w.deactivate

\* What is queued for the ML service, or computed by it, is on sent material.
QueuedInv ==
    \A u \in Users :
        /\ \A i \in 1..Len(inbox[u]) : inbox[u][i] \in sent /\ Owner[inbox[u][i]] = u
        /\ ml[u].status = "PROCESSING" => ml[u].row \in sent /\ Owner[ml[u].row] = u
        /\ ml[u].status = "DONE" => OnMaterial(ml[u].row, u)

RecordedInv == \A a \in Apps : verdict[a] # None => Known(verdict[a], Owner[a])

MaterialInv ==
    /\ QueuedInv /\ RecordedInv /\ FraudBlocksUser
    /\ \A x \in Actors : JudgedInv(x)

LifeInv ==
    /\ TypeOK /\ SessionsHaveApps
    /\ TxInv /\ SessionsDiffer
    /\ ProcessingWasSent /\ CompletedMeansCooldown /\ VerdictOnRecord /\ PendingCanEnd

\* The inductive invariant: every safety property below follows from it.
IInv == LifeInv /\ (Overrides = {} => MaterialInv)

\* Where no officer overrides, the life cycle implements the assessment: no
\* verdict before an interview, none on another candidate's material or on
\* material that was never sent (an error's body is on none), FRAUD and the deactivation in one commit, no
\* cooldown and no deactivation undone.
Abstract == INSTANCE Assessment WITH
                submitted <- sent,
                cooling   <- {a \in Apps : cooled[a]},
                judged    <- verdict,
                barred    <- {u \in Users : ~active[u]}

ImplementsAssessment == Abstract!Spec

\* Transactions never wait for each other in a circle: every handler writes
\* the session or the verdict row, then the application's, then the user's.
WaitsFor(x, y) ==
    \/ tx[x].pc = "complete" /\ HoldsSession(y, tx[x].sid)
    \/ tx[x].pc = "write_verdict" /\ HoldsVerdict(y, tx[x].app)
    \/ /\ tx[x].pc \in {"start_status", "cooldown", "write_status"}
       /\ HoldsApp(y, tx[x].app)
    \/ tx[x].pc = "deactivate" /\ HoldsUser(y, tx[x].app)

NoLockCycle ==
    /\ \A x, y \in Actors : x # y => ~(WaitsFor(x, y) /\ WaitsFor(y, x))
    /\ \A x, y, z \in Actors : Cardinality({x, y, z}) = 3
          => ~(WaitsFor(x, y) /\ WaitsFor(y, z) /\ WaitsFor(z, x))

\* The poller does not wedge: an application in ML_PROCESSING leaves it, even
\* with two pollers storing one verdict and a fault in between, unless the ML
\* service's run ended in ERROR, which the poller takes for one still going on.
ProcessingEnds ==
    \A a \in Apps : status[a] = "ML_PROCESSING"
        ~> status[a] # "ML_PROCESSING" \/ ml[Owner[a]].status = "ERROR"

\* "Kafka failure is retried separately" (interview/routes.py): a completed
\* interview does not stay INTERVIEW_DONE for ever.
KafkaFailureIsRetried ==
    \A a \in Apps : status[a] = "INTERVIEW_DONE" ~> status[a] # "INTERVIEW_DONE"

\* "Different skills are fully independent": the ML verdict stored for an
\* application judged the material of that application.
VerdictIsOwn ==
    \A a \in Apps : verdict[a] # None => verdict[a].of \in {a, "admin"}

\* "Updates candidate_applications.status and ml_verdicts.verdict": the two
\* agree whenever the application shows a verdict.
StatusMatchesVerdict ==
    \A a \in Apps : status[a] \in Verdicts => verdict[a].value = status[a]

\* "Session already COMPLETED": a session is ended once.
SessionEndsOnce ==
    [][\A r \in Requests :
         Commit(r) /\ tx[r].w.sess = "COMPLETED" => sess[tx[r].sid].state = "ACTIVE"]_vars

\* "Cannot start interview from status ML_PROCESSING": a start does not take
\* an application back from the pipeline.
StartNeverInterruptsPipeline ==
    [][\A a \in Apps : status[a] = "ML_PROCESSING" => status'[a] # "INTERVIEW_PENDING"]_vars
=============================================================================
