----------------------------- MODULE SkillChoice -----------------------------
(***************************************************************************)
(* POST /skills/choose: skills/routes.py choose_skill, the eligibility     *)
(* check of skills/cooldown.py, and the candidate_applications table with  *)
(* its two constraints.                                                    *)
(*                                                                         *)
(* Requests of the same user overlap (two taps, two devices, two uvicorn   *)
(* workers).  Every database statement of a request is one step, and sees  *)
(* what is committed when it runs (PostgreSQL's READ COMMITTED): the user  *)
(* row, the count and the latest application are three reads that may see  *)
(* three different tables.  The inserted row stays private to its          *)
(* transaction until the commit that get_db makes after the handler        *)
(* returns; a second insert of the same unique key waits for that.         *)
(*                                                                         *)
(* The environment ends interviews (which starts a cooldown), deactivates  *)
(* users and lets time pass.  The cooldown cache of Redis is never written *)
(* (set_cooldown has no caller), so its lookup always misses and is not    *)
(* part of the state.                                                      *)
(***************************************************************************)
EXTENDS Naturals, FiniteSets

CONSTANTS
    Users,          \* candidates
    Skills,         \* skill ids a client may name
    Seeded,         \* the skills seeded into the skills table
    Requests,       \* slots for requests in flight
    MAX_ATTEMPTS,   \* 3 in the code, and in the table's CHECK constraint
    COOLDOWN_DAYS,  \* 60 in the code
    MaxTime,        \* bound on the clock
    None            \* SQL NULL

ASSUME SeededAssumption == Seeded \subseteq Skills
ASSUME MaxAttemptsAssumption == MAX_ATTEMPTS \in Nat
ASSUME CooldownAssumption == COOLDOWN_DAYS \in Nat /\ MaxTime \in Nat
ASSUME NoneAssumption == None \notin Nat

VARIABLES
    active,         \* users.is_active, committed
    apps,           \* committed rows of candidate_applications
    cooldown_until, \* their cooldown_until column
    now,            \* the clock, in days
    req             \* the requests in flight, with their handler's locals

vars == <<active, apps, cooldown_until, now, req>>

-----------------------------------------------------------------------------
\* The unique key (user_id, skill_id, attempt_number) of a row.
Row(u, s, n) == [user |-> u, skill |-> s, attempt |-> n]

Rows == [user : Users, skill : Skills, attempt : 1..MAX_ATTEMPTS]

\* The attempt numbers committed for a user and a skill.
Attempts(u, s) == {a.attempt : a \in {b \in apps : b.user = u /\ b.skill = s}}

\* SELECT count(*) over the user's rows for the skill.
count_attempts(u, s) == Cardinality(Attempts(u, s))

\* ORDER BY created_at DESC LIMIT 1.  A row of attempt n+1 is inserted by a
\* request that counted attempt n as committed, so creation order is attempt
\* order; 0 stands for "no row".
latest_application(u, s) ==
    IF Attempts(u, s) = {} THEN 0
    ELSE CHOOSE n \in Attempts(u, s) : \A m \in Attempts(u, s) : m <= n

Outcomes == {"none", "granted", "inactive", "not_found", "max_attempts", "in_cooldown", "error"}

InFlight == {"load", "count", "cooldown", "create", "flushed"}

PCs == InFlight \cup {"idle", "answered"}

Request(pc, u, s, at) == [pc |-> pc, user |-> u, skill |-> s, at |-> at,
                          count |-> 0, latest |-> 0, outcome |-> "none"]

Idle == Request("idle", None, None, 0)

\* Mutant: an off-by-one in next_attempt.
NewRow_OffByOne(r) == Row(req[r].user, req[r].skill, req[r].count + 2)

\* A request that has reached `create` inserts this row.
NewRow(r) == Row(req[r].user, req[r].skill, req[r].count + 1)

TypeOK ==
    /\ active \in [Users -> BOOLEAN]
    /\ apps \subseteq Rows
    /\ cooldown_until \in [Rows -> Nat \cup {None}]
    /\ now \in 0..MaxTime
    /\ req \in [Requests -> [pc : PCs, user : Users \cup {None}, skill : Skills \cup {None},
                             at : 0..MaxTime, count : 0..MAX_ATTEMPTS,
                             latest : 0..MAX_ATTEMPTS, outcome : Outcomes]]
    /\ \A r \in Requests : req[r].pc # "idle" =>
          req[r].user \in Users /\ req[r].skill \in Skills

Init ==
    /\ active = [u \in Users |-> TRUE]
    /\ apps = {}
    /\ cooldown_until = [k \in Rows |-> None]
    /\ now = 0
    /\ req = [r \in Requests |-> Idle]

-----------------------------------------------------------------------------
(***************************************************************************)
(* The request.                                                            *)
(***************************************************************************)
Answer(r, outcome) ==
    req' = [req EXCEPT ![r].pc = "answered", ![r].outcome = outcome]

Arrive(r, u, s) ==
    /\ req[r].pc = "idle"
    /\ req' = [req EXCEPT ![r] = Request("load", u, s, now)]
    /\ UNCHANGED <<active, apps, cooldown_until, now>>

\* Mutant: is_active is not looked at.
LoadUser_IgnoresInactive(r) ==
    /\ req[r].pc = "load"
    /\ \/ req[r].skill \notin Seeded /\ Answer(r, "not_found")
       \/ req[r].skill \in Seeded /\ req' = [req EXCEPT ![r].pc = "count"]
    /\ UNCHANGED <<active, apps, cooldown_until, now>>

\* The user row, then check 1 and the skill lookup.
LoadUser(r) ==
    /\ req[r].pc = "load"
    /\ \/ /\ ~active[req[r].user]
          /\ Answer(r, "inactive")
       \/ /\ active[req[r].user]
          /\ req[r].skill \notin Seeded
          /\ Answer(r, "not_found")
       \/ /\ active[req[r].user]
          /\ req[r].skill \in Seeded
          /\ req' = [req EXCEPT ![r].pc = "count"]
    /\ UNCHANGED <<active, apps, cooldown_until, now>>

\* Check 2: the count of committed attempts.
CountAttempts(r) ==
    LET n == count_attempts(req[r].user, req[r].skill)
    IN  /\ req[r].pc = "count"
        /\ \/ /\ n >= MAX_ATTEMPTS
              /\ Answer(r, "max_attempts")
           \/ /\ n < MAX_ATTEMPTS
              /\ req' = [req EXCEPT ![r].pc = "cooldown", ![r].count = n]
        /\ UNCHANGED <<active, apps, cooldown_until, now>>

\* Mutant: the comparison with the clock the wrong way round.
InCooldown_Reversed(u, s, n) ==
    /\ n # 0
    /\ cooldown_until[Row(u, s, n)] # None
    /\ now > cooldown_until[Row(u, s, n)]

\* The cooldown that the application of attempt n puts its user in.
InCooldown(u, s, n) ==
    /\ n # 0
    /\ cooldown_until[Row(u, s, n)] # None
    /\ now < cooldown_until[Row(u, s, n)]

\* Check 3: the cooldown of the latest application, and of no other.
CheckCooldown(r) ==
    LET n == latest_application(req[r].user, req[r].skill)
    IN  /\ req[r].pc = "cooldown"
        /\ \/ /\ InCooldown(req[r].user, req[r].skill, n)
              /\ Answer(r, "in_cooldown")
           \/ /\ ~InCooldown(req[r].user, req[r].skill, n)
              /\ req' = [req EXCEPT ![r].pc = "create", ![r].latest = n]
        /\ UNCHANGED <<active, apps, cooldown_until, now>>

\* The INSERT waits while another transaction holds the same unique key.
KeyHeld(r) == \E q \in Requests \ {r} : req[q].pc = "flushed" /\ NewRow(q) = NewRow(r)

\* Mutant: the table without its unique constraint.
InsertAllowed_NotUnique(r) == NewRow(r).attempt \in 1..MAX_ATTEMPTS

\* UniqueConstraint and CheckConstraint of candidate_applications.
InsertAllowed(r) ==
    /\ NewRow(r) \notin apps
    /\ NewRow(r).attempt \in 1..MAX_ATTEMPTS

\* Mutant: a conflicting insert waits for its key to become free.
CreateApplication_WaitsForever(r) ==
    /\ req[r].pc = "create"
    /\ ~KeyHeld(r) /\ InsertAllowed(r)
    /\ req' = [req EXCEPT ![r].pc = "flushed"]
    /\ UNCHANGED <<active, apps, cooldown_until, now>>

\* create_application: add, flush, refresh.  An IntegrityError rolls the
\* transaction back and leaves the handler as a 500.
CreateApplication(r) ==
    /\ req[r].pc = "create"
    /\ ~KeyHeld(r)
    /\ \/ /\ ~InsertAllowed(r)
          /\ Answer(r, "error")
       \/ /\ InsertAllowed(r)
          /\ req' = [req EXCEPT ![r].pc = "flushed"]
    /\ UNCHANGED <<active, apps, cooldown_until, now>>

\* get_db commits after the handler has returned.
Commit(r) ==
    /\ req[r].pc = "flushed"
    /\ apps' = apps \cup {NewRow(r)}
    /\ Answer(r, "granted")
    /\ UNCHANGED <<active, cooldown_until, now>>

\* Mutant: a failure deletes the attempt instead of rolling back.
Fail_Deletes(r) ==
    /\ req[r].pc \in InFlight
    /\ apps' = apps \ {NewRow(r)}
    /\ Answer(r, "error")
    /\ UNCHANGED <<active, cooldown_until, now>>

\* A statement, the commit or the process fails: rollback, no row.
Fail(r) ==
    /\ req[r].pc \in InFlight
    /\ Answer(r, "error")
    /\ UNCHANGED <<active, apps, cooldown_until, now>>

\* The client has its answer and the slot is free again.
Leave(r) ==
    /\ req[r].pc = "answered"
    /\ req' = [req EXCEPT ![r] = Idle]
    /\ UNCHANGED <<active, apps, cooldown_until, now>>

-----------------------------------------------------------------------------
(***************************************************************************)
(* The rest of the system, as far as selection reads it.                   *)
(***************************************************************************)
\* POST /interview/end on any application that exists: several sessions of
\* one application may be ended, so the column may be set again.
EndInterview(k) ==
    /\ k \in apps
    /\ cooldown_until' = [cooldown_until EXCEPT ![k] = now + COOLDOWN_DAYS]
    /\ UNCHANGED <<active, apps, now, req>>

\* The poller stores a FRAUD verdict.
DeactivateUser(u) ==
    /\ active[u]
    /\ active' = [active EXCEPT ![u] = FALSE]
    /\ UNCHANGED <<apps, cooldown_until, now, req>>

Tick ==
    /\ now < MaxTime
    /\ now' = now + 1
    /\ UNCHANGED <<active, apps, cooldown_until, req>>

Handle(r) ==
    \/ LoadUser(r) \/ CountAttempts(r) \/ CheckCooldown(r)
    \/ CreateApplication(r) \/ Commit(r)

Next ==
    \/ \E r \in Requests, u \in Users, s \in Skills : Arrive(r, u, s)
    \/ \E r \in Requests : Handle(r) \/ Fail(r) \/ Leave(r)
    \/ \E k \in apps : EndInterview(k)
    \/ \E u \in Users : DeactivateUser(u)
    \/ Tick

Spec == Init /\ [][Next]_vars

\* The event loop runs a handler that can take its next step, and PostgreSQL
\* wakes a waiting INSERT when the transaction it waits for ends; clients, the
\* environment and failures are under no obligation.
FairSpec ==
    /\ Spec
    /\ \A r \in Requests : WF_vars(Handle(r)) /\ SF_vars(CreateApplication(r))
-----------------------------------------------------------------------------
(***************************************************************************)
(* Properties.                                                             *)
(***************************************************************************)
\* "Max 3 attempts per user per skill" (skills/cooldown.py): whatever the
\* overlap of requests, the attempts on record are numbered 1, 2, ... without
\* a gap or a repetition, and there are at most MAX_ATTEMPTS of them.
AttemptsContiguous ==
    \A u \in Users, s \in Skills :
        /\ count_attempts(u, s) <= MAX_ATTEMPTS
        /\ Attempts(u, s) = 1..count_attempts(u, s)

\* The requests that hold or were granted a number: no two of them hold the
\* same attempt, and a granted one is on record, so no client is answered 201
\* for an attempt that is somebody else's or was rolled back.
GrantsAreDistinct ==
    /\ \A q, r \in Requests :
          /\ q # r
          /\ req[q].pc = "flushed"
          /\ req[r].pc = "flushed" \/ req[r].outcome = "granted"
          => NewRow(q) # NewRow(r)
    /\ \A q, r \in Requests :
          q # r /\ req[q].outcome = "granted" /\ req[r].outcome = "granted"
          => NewRow(q) # NewRow(r)
    /\ \A r \in Requests : req[r].outcome = "granted" => NewRow(r) \in apps

\* A request about to commit attempt n+1 did look at the cooldown of attempt
\* n, although it read the count and the latest application separately: what
\* a request in between inserted cannot hide the cooldown it must respect.
PredecessorJudged ==
    \A r \in Requests : req[r].pc = "flushed" => req[r].latest = req[r].count

\* So a grant passes over the cooldown of its predecessor only when that
\* cooldown began after the request arrived (the check-then-insert window).
CooldownOfPredecessor ==
    \A r \in Requests :
        LET k == Row(req[r].user, req[r].skill, req[r].count)
        IN  /\ req[r].pc = "flushed"
            /\ req[r].count > 0
            /\ cooldown_until[k] # None
            => cooldown_until[k] <= now \/ cooldown_until[k] >= req[r].at + COOLDOWN_DAYS

\* "FRAUD verdict: user is_active=False, blocked from all skills": once a
\* user is inactive and the requests that had passed check 1 are gone, the
\* user's record of attempts never grows again.
PastCheck(u) == {r \in Requests : req[r].user = u /\ req[r].pc \in InFlight \ {"load"}}

StaysOut(u) ==
    ~active[u] /\ PastCheck(u) = {} =>
        /\ ~active'[u] /\ PastCheck(u)' = {}
        /\ \A s \in Skills : Attempts(u, s)' = Attempts(u, s)

InactiveStaysOut == [][\A u \in Users : StaysOut(u)]_vars

\* Every request that arrives is answered: the wait for a unique key held by
\* another transaction always ends.
EveryRequestAnswered ==
    \A r \in Requests : req[r].pc = "load" ~> req[r].pc = "answered"

\* Selection implements the ledger: every step grants the next attempt of one
\* user and skill, or grants nothing.
taken == [p \in Users \X Skills |-> count_attempts(p[1], p[2])]

Ledger == INSTANCE AttemptLedger WITH taken <- taken

ImplementsLedger == Ledger!Spec

\* "60-day cooldown after each attempt" (skills/cooldown.py): no application
\* is created for a request that arrived on a day when an attempt of the same
\* user and skill, ended on an earlier day, was still in cooldown.
CooldownAfterEachAttempt ==
    [][\A r \in Requests :
         LET u == req[r].user
             s == req[r].skill
         IN  Commit(r) =>
               \A n \in Attempts(u, s) :
                   InCooldown(u, s, n)
                     => cooldown_until[Row(u, s, n)] >= req[r].at + COOLDOWN_DAYS]_vars

-----------------------------------------------------------------------------
\* The strengthening that is inductive.  What a request has counted is a
\* prefix of what is on record, and the latest application it looked at lies
\* between the two; when its row is free to insert, all three meet.
Contiguous ==
    \A u \in Users, s \in Skills :
        \E c \in 0..MAX_ATTEMPTS : Attempts(u, s) = 1..c

CountedPrefix ==
    \A r \in Requests :
        /\ req[r].pc \in {"cooldown", "create", "flushed"} =>
              /\ req[r].count < MAX_ATTEMPTS
              /\ 1..req[r].count \subseteq Attempts(req[r].user, req[r].skill)
        /\ req[r].pc \in {"create", "flushed"} =>
              /\ req[r].latest >= req[r].count
              /\ req[r].latest \in {0} \cup Attempts(req[r].user, req[r].skill)

GrantedOnRecord ==
    \A r \in Requests :
        /\ req[r].outcome = "granted" => req[r].pc = "answered" /\ NewRow(r) \in apps
        /\ req[r].pc = "flushed" => NewRow(r) \notin apps

HeldKeysDistinct ==
    \A q, r \in Requests :
        q # r /\ req[q].pc = "flushed" /\ req[r].pc = "flushed" => NewRow(q) # NewRow(r)

IInv == TypeOK /\ Contiguous /\ CountedPrefix /\ GrantedOnRecord /\ HeldKeysDistinct
=============================================================================
