-------------------------- MODULE SkillChoiceProofs --------------------------
(***************************************************************************)
(* Proofs about SkillChoice, for any sets of users, skills and requests    *)
(* and any limits.  The inductive invariant is IInv of SkillChoice: the    *)
(* count a request has read is a prefix 1..count of the attempts on        *)
(* record, which only grow, so a row it may still insert continues them.   *)
(***************************************************************************)
EXTENDS SkillChoice, FiniteSetTheorems, TLAPS

-----------------------------------------------------------------------------
(***************************************************************************)
(* The table.                                                              *)
(***************************************************************************)
\* A number is among the attempts exactly when its row is in the table.
LEMMA AttemptMember ==
    ASSUME apps \subseteq Rows, NEW u, NEW s, NEW n
    PROVE  n \in Attempts(u, s) <=> Row(u, s, n) \in apps
<1>1. ASSUME n \in Attempts(u, s)
      PROVE  Row(u, s, n) \in apps
  <2>1. PICK a \in apps : a.user = u /\ a.skill = s /\ n = a.attempt
    BY <1>1 DEF Attempts
  <2>2. a = Row(u, s, n)
    BY <2>1 DEF Rows, Row
  <2> QED BY <2>1, <2>2
<1>2. ASSUME Row(u, s, n) \in apps
      PROVE  n \in Attempts(u, s)
  BY <1>2 DEF Attempts, Row
<1> QED BY <1>1, <1>2

\* Attempts depends on the table alone.
LEMMA AttemptsSame ==
    ASSUME apps' = apps, NEW u, NEW s
    PROVE  /\ Attempts(u, s)' = Attempts(u, s)
           /\ count_attempts(u, s)' = count_attempts(u, s)
BY DEF Attempts, count_attempts

\* An inserted row adds its number to its own user and skill, nowhere else.
LEMMA AttemptsAdd ==
    ASSUME apps \subseteq Rows,
           NEW k \in Rows, apps' = apps \cup {k}, NEW u, NEW s
    PROVE  Attempts(u, s)' = IF k.user = u /\ k.skill = s
                             THEN Attempts(u, s) \cup {k.attempt}
                             ELSE Attempts(u, s)
BY DEF Attempts

\* Counting contiguous attempts gives the last of them.
LEMMA CountContiguous ==
    ASSUME NEW u, NEW s, NEW c \in Nat, Attempts(u, s) = 1..c
    PROVE  count_attempts(u, s) = c
<1>1. Cardinality(1..c) = IF 1 > c THEN 0 ELSE c - 1 + 1
  BY FS_Interval
<1> QED BY <1>1 DEF count_attempts

\* The latest application is none of none, or the largest of the attempts.
LEMMA LatestOfContiguous ==
    ASSUME NEW u, NEW s, NEW c \in Nat, Attempts(u, s) = 1..c
    PROVE  latest_application(u, s) = c
<1>1. CASE c = 0
  BY <1>1 DEF latest_application
<1>2. CASE c # 0
  <2>1. c \in Attempts(u, s) /\ \A m \in Attempts(u, s) : m <= c
    BY <1>2
  <2>2. \A n \in Attempts(u, s) : (\A m \in Attempts(u, s) : m <= n) => n = c
    BY <2>1
  <2> QED BY <2>1, <2>2 DEF latest_application
<1> QED BY <1>1, <1>2

-----------------------------------------------------------------------------
(***************************************************************************)
(* The inductive invariant.                                                *)
(***************************************************************************)
LEMMA InitIInv == Init => IInv
<1> SUFFICES ASSUME Init PROVE IInv
  OBVIOUS
<1> USE MaxAttemptsAssumption, CooldownAssumption
<1>1. TypeOK
  BY DEF Init, TypeOK, Idle, Request, PCs, InFlight, Outcomes, Rows
<1>2. Contiguous
  <2>1. \A u \in Users, s \in Skills : Attempts(u, s) = 1..0
    BY DEF Init, Attempts
  <2>2. 0 \in 0..MAX_ATTEMPTS
    OBVIOUS
  <2> QED BY <2>1, <2>2 DEF Contiguous
<1>3. CountedPrefix /\ GrantedOnRecord /\ HeldKeysDistinct
  BY DEF Init, Idle, Request, CountedPrefix, GrantedOnRecord, HeldKeysDistinct
<1> QED BY <1>1, <1>2, <1>3 DEF IInv

\* A step that leaves the table alone keeps it contiguous.
LEMMA ContiguousSame ==
    ASSUME Contiguous, apps' = apps
    PROVE  Contiguous'
BY AttemptsSame DEF Contiguous

\* A step that moves one request, without touching the table or flushing a
\* row, keeps what is known of every other request.
LEMMA OthersSame ==
    ASSUME IInv, apps' = apps, NEW r \in Requests, NEW v,
           req' = [req EXCEPT ![r] = v],
           v.pc \notin {"cooldown", "create", "flushed"}, v.outcome # "granted"
    PROVE  CountedPrefix' /\ GrantedOnRecord' /\ HeldKeysDistinct'
<1>1. req \in [Requests -> [pc : PCs, user : Users \cup {None}, skill : Skills \cup {None},
                            at : 0..MaxTime, count : 0..MAX_ATTEMPTS,
                            latest : 0..MAX_ATTEMPTS, outcome : Outcomes]]
  BY DEF IInv, TypeOK
<1>2. \A q \in Requests : req'[q] = IF q = r THEN v ELSE req[q]
  BY <1>1
<1>3. \A q \in Requests : q # r => NewRow(q)' = NewRow(q)
  BY <1>2 DEF NewRow
<1>4. \A u, s : Attempts(u, s)' = Attempts(u, s)
  BY AttemptsSame
<1>5. CountedPrefix'
  BY <1>2, <1>4 DEF IInv, CountedPrefix
<1>6. GrantedOnRecord'
  BY <1>2, <1>3 DEF IInv, GrantedOnRecord
<1>7. HeldKeysDistinct'
  BY <1>2, <1>3 DEF IInv, HeldKeysDistinct
<1> QED BY <1>5, <1>6, <1>7

\* Answering a request without granting it.
LEMMA AnswerKeeps ==
    ASSUME IInv, NEW r \in Requests, req[r].pc \in InFlight, NEW o \in Outcomes,
           o # "granted", Answer(r, o),
           UNCHANGED <<active, apps, cooldown_until, now>>
    PROVE  IInv'
<1> DEFINE v == [req[r] EXCEPT !.pc = "answered", !.outcome = o]
<1>0. /\ req[r] \in [pc : PCs, user : Users \cup {None}, skill : Skills \cup {None},
                     at : 0..MaxTime, count : 0..MAX_ATTEMPTS,
                     latest : 0..MAX_ATTEMPTS, outcome : Outcomes]
      /\ TypeOK
  BY DEF IInv, TypeOK
<1>1. /\ req' = [req EXCEPT ![r] = v] /\ v.pc = "answered" /\ v.outcome = o
      /\ v \in [pc : PCs, user : Users \cup {None}, skill : Skills \cup {None},
                at : 0..MaxTime, count : 0..MAX_ATTEMPTS,
                latest : 0..MAX_ATTEMPTS, outcome : Outcomes]
  BY <1>0 DEF Answer, PCs
<1>2. TypeOK'
  <2>0. v.user = req[r].user /\ v.skill = req[r].skill /\ req[r].pc # "idle"
    BY <1>0 DEF InFlight
  <2> HIDE DEF v
  <2>1. req \in [Requests -> [pc : PCs, user : Users \cup {None}, skill : Skills \cup {None},
                              at : 0..MaxTime, count : 0..MAX_ATTEMPTS,
                              latest : 0..MAX_ATTEMPTS, outcome : Outcomes]]
    BY <1>0 DEF TypeOK
  <2>2. req' \in [Requests -> [pc : PCs, user : Users \cup {None}, skill : Skills \cup {None},
                               at : 0..MaxTime, count : 0..MAX_ATTEMPTS,
                               latest : 0..MAX_ATTEMPTS, outcome : Outcomes]]
    BY ONLY <1>1, <2>1
  <2>3. active' = active /\ apps' = apps /\ cooldown_until' = cooldown_until /\ now' = now
    OBVIOUS
  <2>4. \A q \in Requests : req'[q].pc # "idle" => req'[q].user \in Users /\ req'[q].skill \in Skills
    BY ONLY r \in Requests, <1>0, <1>1, <2>0, <2>1 DEF TypeOK
  <2> QED BY ONLY <1>0, <2>2, <2>3, <2>4 DEF TypeOK
<1>3. Contiguous'
  BY ContiguousSame DEF IInv
<1>4. CountedPrefix' /\ GrantedOnRecord' /\ HeldKeysDistinct'
  <2> HIDE DEF v
  <2>1. /\ req' = [req EXCEPT ![r] = v] /\ apps' = apps
        /\ v.pc \notin {"cooldown", "create", "flushed"} /\ v.outcome # "granted"
    BY <1>1
  <2> QED BY ONLY IInv, r \in Requests, <2>1, OthersSame
<1> QED BY <1>2, <1>3, <1>4 DEF IInv

\* A step that leaves the table and the requests alone.
LEMMA EnvironmentKeeps ==
    ASSUME IInv, TypeOK', UNCHANGED <<apps, req>>
    PROVE  IInv'
<1>1. \A u, s : Attempts(u, s)' = Attempts(u, s)
  BY AttemptsSame
<1>2. \A r : NewRow(r)' = NewRow(r)
  BY DEF NewRow
<1>3. Contiguous'
  BY ContiguousSame DEF IInv
<1>4. CountedPrefix'
  BY <1>1 DEF IInv, CountedPrefix
<1>5. GrantedOnRecord' /\ HeldKeysDistinct'
  BY <1>2 DEF IInv, GrantedOnRecord, HeldKeysDistinct
<1> QED BY <1>3, <1>4, <1>5 DEF IInv

-----------------------------------------------------------------------------
(***************************************************************************)
(* The steps of a request.                                                 *)
(***************************************************************************)
LEMMA ArriveKeeps ==
    ASSUME IInv, NEW r \in Requests, NEW u \in Users, NEW s \in Skills, Arrive(r, u, s)
    PROVE  IInv'
<1> DEFINE v == Request("load", u, s, now)
<1>1. req' = [req EXCEPT ![r] = v] /\ v.pc = "load" /\ v.outcome = "none"
  BY DEF Arrive, Request
<1>2. TypeOK'
  <2>1. /\ v \in [pc : PCs, user : Users \cup {None}, skill : Skills \cup {None},
                 at : 0..MaxTime, count : 0..MAX_ATTEMPTS,
                 latest : 0..MAX_ATTEMPTS, outcome : Outcomes]
        /\ v.user \in Users /\ v.skill \in Skills
    <3>1. now \in 0..MaxTime /\ 0 \in 0..MAX_ATTEMPTS /\ "load" \in PCs /\ "none" \in Outcomes
      BY MaxAttemptsAssumption DEF IInv, TypeOK, PCs, InFlight, Outcomes
    <3> QED BY <3>1 DEF Request
  <2> HIDE DEF v
  <2> QED BY <1>1, <2>1 DEF Arrive, IInv, TypeOK
<1>3. Contiguous'
  BY ContiguousSame DEF Arrive, IInv
<1>4. CountedPrefix' /\ GrantedOnRecord' /\ HeldKeysDistinct'
  <2> HIDE DEF v
  <2> QED BY <1>1, OthersSame DEF Arrive
<1> QED BY <1>2, <1>3, <1>4 DEF IInv

LEMMA LeaveKeeps ==
    ASSUME IInv, NEW r \in Requests, Leave(r)
    PROVE  IInv'
<1>1. TypeOK'
  BY MaxAttemptsAssumption, CooldownAssumption
  DEF Leave, Idle, Request, IInv, TypeOK, PCs, InFlight, Outcomes
<1>2. Contiguous'
  BY ContiguousSame DEF Leave, IInv
<1>3. CountedPrefix' /\ GrantedOnRecord' /\ HeldKeysDistinct'
  <2>1. Idle.pc = "idle" /\ Idle.outcome = "none"
    BY DEF Idle, Request
  <2> QED BY <2>1, OthersSame DEF Leave
<1> QED BY <1>1, <1>2, <1>3 DEF IInv

LEMMA LoadUserKeeps ==
    ASSUME IInv, NEW r \in Requests, LoadUser(r)
    PROVE  IInv'
<1>1. CASE Answer(r, "inactive") \/ Answer(r, "not_found")
  BY <1>1, AnswerKeeps DEF LoadUser, InFlight, Outcomes
<1>2. CASE req' = [req EXCEPT ![r].pc = "count"]
  <2> DEFINE v == [req[r] EXCEPT !.pc = "count"]
  <2>1. req' = [req EXCEPT ![r] = v] /\ v.pc = "count" /\ v.outcome # "granted"
    BY <1>2 DEF LoadUser, IInv, TypeOK, GrantedOnRecord
  <2>2. TypeOK'
    BY <1>2 DEF LoadUser, IInv, TypeOK, PCs, InFlight
  <2>3. Contiguous'
    BY ContiguousSame DEF LoadUser, IInv
  <2>4. CountedPrefix' /\ GrantedOnRecord' /\ HeldKeysDistinct'
    <3> HIDE DEF v
    <3> QED BY <2>1, OthersSame DEF LoadUser
  <2> QED BY <2>2, <2>3, <2>4 DEF IInv
<1> QED BY <1>1, <1>2 DEF LoadUser

LEMMA FailKeeps ==
    ASSUME IInv, NEW r \in Requests, Fail(r)
    PROVE  IInv'
BY AnswerKeeps DEF Fail, Outcomes

\* The count read is exactly what is on record, which is 1..count.
LEMMA CountAttemptsKeeps ==
    ASSUME IInv, NEW r \in Requests, CountAttempts(r)
    PROVE  IInv'
<1> DEFINE u == req[r].user
           s == req[r].skill
           n == count_attempts(u, s)
<1>1. CASE Answer(r, "max_attempts")
  BY <1>1, AnswerKeeps DEF CountAttempts, InFlight, Outcomes
<1>2. CASE n < MAX_ATTEMPTS /\ req' = [req EXCEPT ![r].pc = "cooldown", ![r].count = n]
  <2>1. u \in Users /\ s \in Skills
    BY DEF CountAttempts, IInv, TypeOK
  <2>2. PICK c \in 0..MAX_ATTEMPTS : Attempts(u, s) = 1..c
    BY <2>1 DEF IInv, Contiguous
  <2>3. n = c
    BY <2>2, CountContiguous, MaxAttemptsAssumption
  <2>4. TypeOK'
    <3> HIDE DEF n
    <3> QED BY <1>2, <2>3 DEF CountAttempts, IInv, TypeOK, PCs, InFlight
  <2>5. Contiguous'
    BY ContiguousSame DEF CountAttempts, IInv
  <2>6. /\ req'[r].pc = "cooldown" /\ req'[r].count = n
        /\ req'[r].user = u /\ req'[r].skill = s /\ req'[r].outcome = req[r].outcome
        /\ \A q \in Requests : q # r => req'[q] = req[q]
    <3> HIDE DEF n
    <3> QED BY <1>2 DEF IInv, TypeOK
  <2>7. \A a, b : Attempts(a, b)' = Attempts(a, b)
    BY AttemptsSame DEF CountAttempts
  <2>8. \A q \in Requests : q # r => NewRow(q)' = NewRow(q)
    BY <2>6 DEF NewRow
  <2>9. CountedPrefix'
    <3>1. 1..n \subseteq Attempts(u, s)
      BY <2>2, <2>3
    <3> HIDE DEF n
    <3> QED BY <1>2, <2>6, <2>7, <3>1 DEF IInv, CountedPrefix
  <2>10. GrantedOnRecord' /\ HeldKeysDistinct'
    <3> HIDE DEF n
    <3> QED BY <2>6, <2>8 DEF CountAttempts, IInv, GrantedOnRecord, HeldKeysDistinct
  <2> QED BY <2>4, <2>5, <2>9, <2>10 DEF IInv
<1> QED BY <1>1, <1>2 DEF CountAttempts

\* The latest application is the last on record, at or past the count.
LEMMA CheckCooldownKeeps ==
    ASSUME IInv, NEW r \in Requests, CheckCooldown(r)
    PROVE  IInv'
<1> DEFINE u == req[r].user
           s == req[r].skill
           n == latest_application(u, s)
<1>1. CASE Answer(r, "in_cooldown")
  BY <1>1, AnswerKeeps DEF CheckCooldown, InFlight, Outcomes
<1>2. CASE req' = [req EXCEPT ![r].pc = "create", ![r].latest = n]
  <2>1. u \in Users /\ s \in Skills
    BY DEF CheckCooldown, IInv, TypeOK
  <2>2. PICK c \in 0..MAX_ATTEMPTS : Attempts(u, s) = 1..c
    BY <2>1 DEF IInv, Contiguous
  <2>3. n = c
    BY <2>2, LatestOfContiguous, MaxAttemptsAssumption
  <2>4. n >= req[r].count /\ n \in {0} \cup Attempts(u, s)
    <3>1. 1..req[r].count \subseteq 1..c /\ req[r].count \in Nat
      BY <2>2, MaxAttemptsAssumption DEF CheckCooldown, IInv, TypeOK, CountedPrefix
    <3>2. req[r].count # 0 => req[r].count \in 1..c
      BY <3>1
    <3> HIDE DEF n
    <3> QED BY <2>2, <2>3, <3>1, <3>2, MaxAttemptsAssumption
  <2>5. TypeOK'
    <3> HIDE DEF n
    <3> QED BY <1>2, <2>3 DEF CheckCooldown, IInv, TypeOK, PCs, InFlight
  <2>6. Contiguous'
    BY ContiguousSame DEF CheckCooldown, IInv
  <2>7. /\ req'[r].pc = "create" /\ req'[r].latest = n /\ req'[r].count = req[r].count
        /\ req'[r].user = u /\ req'[r].skill = s /\ req'[r].outcome = req[r].outcome
        /\ \A q \in Requests : q # r => req'[q] = req[q]
    <3> HIDE DEF n
    <3> QED BY <1>2 DEF IInv, TypeOK
  <2>8. \A a, b : Attempts(a, b)' = Attempts(a, b)
    BY AttemptsSame DEF CheckCooldown
  <2>9. \A q \in Requests : q # r => NewRow(q)' = NewRow(q)
    BY <2>7 DEF NewRow
  <2>10. CountedPrefix'
    <3> HIDE DEF n
    <3> QED BY <2>4, <2>7, <2>8 DEF CheckCooldown, IInv, CountedPrefix
  <2>11. GrantedOnRecord' /\ HeldKeysDistinct'
    <3> HIDE DEF n
    <3> QED BY <2>7, <2>9 DEF CheckCooldown, IInv, GrantedOnRecord, HeldKeysDistinct
  <2> QED BY <2>5, <2>6, <2>10, <2>11 DEF IInv
<1> QED BY <1>1, <1>2 DEF CheckCooldown

\* A row that may be inserted is new and held by nobody else.
LEMMA CreateApplicationKeeps ==
    ASSUME IInv, NEW r \in Requests, CreateApplication(r)
    PROVE  IInv'
<1>1. CASE Answer(r, "error")
  BY <1>1, AnswerKeeps DEF CreateApplication, InFlight, Outcomes
<1>2. CASE InsertAllowed(r) /\ req' = [req EXCEPT ![r].pc = "flushed"]
  <2>1. TypeOK'
    BY <1>2 DEF CreateApplication, IInv, TypeOK, PCs, InFlight
  <2>2. Contiguous'
    BY ContiguousSame DEF CreateApplication, IInv
  <2>3. /\ req'[r] = [req[r] EXCEPT !.pc = "flushed"]
        /\ \A q \in Requests : q # r => req'[q] = req[q]
    BY <1>2 DEF IInv, TypeOK
  <2>4. /\ req'[r].pc = "flushed" /\ req'[r].outcome = req[r].outcome
        /\ req'[r].user = req[r].user /\ req'[r].skill = req[r].skill
        /\ req'[r].count = req[r].count /\ req'[r].latest = req[r].latest
    BY <2>3 DEF IInv, TypeOK
  <2>5. \A a, b : Attempts(a, b)' = Attempts(a, b)
    BY AttemptsSame DEF CreateApplication
  <2>6. \A q \in Requests : NewRow(q)' = NewRow(q)
    BY <2>3, <2>4 DEF NewRow
  <2>7. CountedPrefix'
    BY <2>3, <2>4, <2>5 DEF CreateApplication, IInv, CountedPrefix
  <2>8. GrantedOnRecord'
    BY <1>2, <2>3, <2>4, <2>6 DEF CreateApplication, InsertAllowed, IInv, GrantedOnRecord
  <2>9. HeldKeysDistinct'
    BY <2>3, <2>6 DEF CreateApplication, KeyHeld, IInv, HeldKeysDistinct
  <2> QED BY <2>1, <2>2, <2>7, <2>8, <2>9 DEF IInv
<1> QED BY <1>1, <1>2 DEF CreateApplication

\* The committed row continues the attempts on record: the request's count is
\* a prefix of them, and its own number is not there yet.
LEMMA CommitContinues ==
    ASSUME IInv, NEW r \in Requests, req[r].pc = "flushed"
    PROVE  /\ req[r].user \in Users /\ req[r].skill \in Skills
           /\ req[r].count \in Nat /\ req[r].count < MAX_ATTEMPTS
           /\ NewRow(r) \in Rows
           /\ Attempts(req[r].user, req[r].skill) = 1..req[r].count
<1> DEFINE u == req[r].user
           s == req[r].skill
           n == req[r].count
<1>1. u \in Users /\ s \in Skills /\ n \in Nat /\ n < MAX_ATTEMPTS
  BY MaxAttemptsAssumption DEF IInv, TypeOK, CountedPrefix
<1>2. PICK c \in 0..MAX_ATTEMPTS : Attempts(u, s) = 1..c
  BY <1>1 DEF IInv, Contiguous
<1>3. 1..n \subseteq 1..c
  BY <1>2 DEF IInv, CountedPrefix
<1>4. n + 1 \notin 1..c
  BY <1>2, AttemptMember DEF IInv, TypeOK, GrantedOnRecord, NewRow
<1>5. n # 0 => n \in 1..c
  BY <1>1, <1>3
<1>6. n = c
  <2> HIDE DEF n
  <2> QED BY <1>1, <1>4, <1>5, MaxAttemptsAssumption
<1>7. NewRow(r) \in Rows
  BY <1>1, MaxAttemptsAssumption DEF NewRow, Row, Rows
<1> QED BY <1>1, <1>2, <1>6, <1>7

LEMMA CommitKeeps ==
    ASSUME IInv, NEW r \in Requests, Commit(r)
    PROVE  IInv'
<1> DEFINE u == req[r].user
           s == req[r].skill
           n == req[r].count
<1>1. /\ u \in Users /\ s \in Skills /\ n \in Nat /\ n < MAX_ATTEMPTS
      /\ NewRow(r) \in Rows /\ Attempts(u, s) = 1..n
  BY CommitContinues DEF Commit
<1> DEFINE v == [req[r] EXCEPT !.pc = "answered", !.outcome = "granted"]
<1>0. req' = [req EXCEPT ![r] = v]
  BY DEF Commit, Answer, IInv, TypeOK
<1>a. /\ v.pc = "answered" /\ v.outcome = "granted"
      /\ v.user = u /\ v.skill = s /\ v.count = n
      /\ v \in [pc : PCs, user : Users \cup {None}, skill : Skills \cup {None},
                at : 0..MaxTime, count : 0..MAX_ATTEMPTS,
                latest : 0..MAX_ATTEMPTS, outcome : Outcomes]
  BY DEF IInv, TypeOK, PCs, InFlight, Outcomes
<1>2. /\ req'[r] = v
      /\ \A q \in Requests : q # r => req'[q] = req[q]
  BY <1>0 DEF IInv, TypeOK
<1> HIDE DEF v
<1>3. \A q \in Requests : NewRow(q)' = NewRow(q)
  BY <1>2, <1>a DEF NewRow
<1>4. TypeOK'
  <2>1. apps' \subseteq Rows /\ UNCHANGED <<active, cooldown_until, now>>
    BY <1>1 DEF Commit, IInv, TypeOK
  <2> QED BY <1>0, <1>a, <1>1, <2>1 DEF IInv, TypeOK
<1>5. NewRow(r).user = u /\ NewRow(r).skill = s /\ NewRow(r).attempt = n + 1
  BY DEF NewRow, Row
<1>6. \A a, b : Attempts(a, b)' = IF u = a /\ s = b THEN Attempts(a, b) \cup {n + 1}
                                  ELSE Attempts(a, b)
  BY <1>1, <1>5, AttemptsAdd DEF Commit, IInv, TypeOK
<1>7. Contiguous'
  <2>1. Attempts(u, s) \cup {n + 1} = 1..(n + 1) /\ n + 1 \in 0..MAX_ATTEMPTS
    BY <1>1, MaxAttemptsAssumption
  <2> HIDE DEF u, s, n
  <2> QED BY <1>6, <2>1 DEF IInv, Contiguous
<1>8. CountedPrefix'
  BY <1>2, <1>a, <1>6 DEF IInv, CountedPrefix
<1>9. GrantedOnRecord'
  <2>1. \A q \in Requests : q # r /\ req[q].pc = "flushed" => NewRow(q) # NewRow(r)
    BY DEF Commit, IInv, HeldKeysDistinct
  <2>2. apps' = apps \cup {NewRow(r)}
    BY DEF Commit
  <2> QED BY <1>2, <1>a, <1>3, <2>1, <2>2 DEF IInv, GrantedOnRecord
<1>10. HeldKeysDistinct'
  BY <1>2, <1>a, <1>3 DEF IInv, HeldKeysDistinct
<1> QED BY <1>4, <1>7, <1>8, <1>9, <1>10 DEF IInv

-----------------------------------------------------------------------------
LEMMA NextIInv == IInv /\ [Next]_vars => IInv'
<1> SUFFICES ASSUME IInv, [Next]_vars PROVE IInv'
  OBVIOUS
<1>1. ASSUME NEW r \in Requests, NEW u \in Users, NEW s \in Skills, Arrive(r, u, s)
      PROVE  IInv'
  BY <1>1, ArriveKeeps
<1>2. ASSUME NEW r \in Requests, LoadUser(r) PROVE IInv'
  BY <1>2, LoadUserKeeps
<1>3. ASSUME NEW r \in Requests, CountAttempts(r) PROVE IInv'
  BY <1>3, CountAttemptsKeeps
<1>4. ASSUME NEW r \in Requests, CheckCooldown(r) PROVE IInv'
  BY <1>4, CheckCooldownKeeps
<1>5. ASSUME NEW r \in Requests, CreateApplication(r) PROVE IInv'
  BY <1>5, CreateApplicationKeeps
<1>6. ASSUME NEW r \in Requests, Commit(r) PROVE IInv'
  BY <1>6, CommitKeeps
<1>7. ASSUME NEW r \in Requests, Fail(r) PROVE IInv'
  BY <1>7, FailKeeps
<1>8. ASSUME NEW r \in Requests, Leave(r) PROVE IInv'
  BY <1>8, LeaveKeeps
<1>9. ASSUME NEW k \in apps, EndInterview(k) PROVE IInv'
  <2>1. TypeOK'
    BY <1>9, CooldownAssumption DEF EndInterview, IInv, TypeOK
  <2> QED BY <1>9, <2>1, EnvironmentKeeps DEF EndInterview
<1>10. ASSUME NEW u \in Users, DeactivateUser(u) PROVE IInv'
  <2>1. TypeOK'
    BY <1>10 DEF DeactivateUser, IInv, TypeOK
  <2> QED BY <1>10, <2>1, EnvironmentKeeps DEF DeactivateUser
<1>11. CASE Tick
  <2>1. TypeOK'
    BY <1>11, CooldownAssumption DEF Tick, IInv, TypeOK
  <2> QED BY <1>11, <2>1, EnvironmentKeeps DEF Tick
<1>12. CASE UNCHANGED vars
  <2>1. TypeOK'
    BY <1>12 DEF vars, IInv, TypeOK
  <2> QED BY <1>12, <2>1, EnvironmentKeeps DEF vars
<1> QED
  BY <1>1, <1>2, <1>3, <1>4, <1>5, <1>6, <1>7, <1>8, <1>9, <1>10, <1>11, <1>12
  DEF Next, Handle

\* The strengthening holds of every reachable state; in particular TypeOK.
THEOREM InductiveInvariant == Spec => []IInv
BY InitIInv, NextIInv, PTL DEF Spec

\* Type correctness.
THEOREM TypeCorrect == Spec => []TypeOK
<1>1. IInv => TypeOK
  BY DEF IInv
<1> QED BY <1>1, InductiveInvariant, PTL

\* At most MAX_ATTEMPTS attempts per user and skill, numbered from 1 without
\* gap or repetition, however many requests of the user overlap.
THEOREM AttemptsAreContiguous == Spec => []AttemptsContiguous
<1>1. IInv => AttemptsContiguous
  <2> SUFFICES ASSUME IInv, NEW u \in Users, NEW s \in Skills
               PROVE  /\ count_attempts(u, s) <= MAX_ATTEMPTS
                      /\ Attempts(u, s) = 1..count_attempts(u, s)
    BY DEF AttemptsContiguous
  <2>1. PICK c \in 0..MAX_ATTEMPTS : Attempts(u, s) = 1..c
    BY DEF IInv, Contiguous
  <2>2. count_attempts(u, s) = c
    BY <2>1, CountContiguous, MaxAttemptsAssumption
  <2> QED BY <2>1, <2>2, MaxAttemptsAssumption
<1> QED BY <1>1, InductiveInvariant, PTL

\* A request about to commit attempt n+1 judged the cooldown of attempt n.
THEOREM PredecessorIsJudged == Spec => []PredecessorJudged
<1>1. IInv => PredecessorJudged
  <2> SUFFICES ASSUME IInv, NEW r \in Requests, req[r].pc = "flushed"
               PROVE  req[r].latest = req[r].count
    BY DEF PredecessorJudged
  <2>1. /\ req[r].count \in Nat
        /\ Attempts(req[r].user, req[r].skill) = 1..req[r].count
    BY CommitContinues
  <2>2. /\ req[r].latest >= req[r].count
        /\ req[r].latest \in {0} \cup 1..req[r].count
    BY <2>1 DEF IInv, CountedPrefix
  <2> QED BY <2>1, <2>2
<1> QED BY <1>1, InductiveInvariant, PTL

\* No two requests hold or were granted one attempt, and a grant is on record:
\* the request that commits takes a number no earlier grant has.
THEOREM GrantsDistinct == Spec => []GrantsAreDistinct
<1> DEFINE GG == \A q, r \in Requests :
                   q # r /\ req[q].outcome = "granted" /\ req[r].outcome = "granted"
                   => NewRow(q) # NewRow(r)
<1>1. Init => GG
  BY DEF Init, Idle, Request
<1>2. IInv /\ GG /\ [Next]_vars => GG'
  <2> SUFFICES ASSUME IInv, GG, [Next]_vars PROVE GG'
    OBVIOUS
  <2>1. CASE \E r \in Requests : Commit(r)
    <3>1. PICK r \in Requests : Commit(r)
      BY <2>1
    <3>2. /\ \A q \in Requests : q # r => req'[q] = req[q]
          /\ req'[r].user = req[r].user /\ req'[r].skill = req[r].skill
          /\ req'[r].count = req[r].count
      BY <3>1 DEF Commit, Answer, IInv, TypeOK
    <3>3. \A q \in Requests : NewRow(q)' = NewRow(q)
      BY <3>2 DEF NewRow
    <3>4. \A q \in Requests : q # r /\ req[q].outcome = "granted" => NewRow(q) # NewRow(r)
      BY <3>1 DEF Commit, IInv, GrantedOnRecord
    <3> QED BY <3>2, <3>3, <3>4
  <2>2. CASE ~\E r \in Requests : Commit(r)
    <3>1. \A q \in Requests : req'[q].outcome = "granted" =>
             req[q].outcome = "granted" /\ NewRow(q)' = NewRow(q)
      <4> SUFFICES ASSUME NEW q \in Requests, req'[q].outcome = "granted"
                   PROVE  req[q].outcome = "granted" /\ NewRow(q)' = NewRow(q)
        OBVIOUS
      <4>1. CASE UNCHANGED req
        BY <4>1 DEF NewRow
      <4>2. ASSUME NEW r \in Requests, NEW u \in Users, NEW s \in Skills, Arrive(r, u, s)
            PROVE  req[q].outcome = "granted" /\ NewRow(q)' = NewRow(q)
        BY <4>2 DEF Arrive, Request, NewRow, IInv, TypeOK
      <4>3. ASSUME NEW r \in Requests, LoadUser(r) \/ Fail(r) \/ CreateApplication(r) \/ Leave(r)
            PROVE  req[q].outcome = "granted" /\ NewRow(q)' = NewRow(q)
        BY <4>3 DEF LoadUser, Fail, CreateApplication, Leave, Answer, Idle, Request, NewRow, IInv, TypeOK
      <4>4. ASSUME NEW r \in Requests, CountAttempts(r)
            PROVE  req[q].outcome = "granted" /\ NewRow(q)' = NewRow(q)
        BY <4>4 DEF CountAttempts, Answer, NewRow, IInv, TypeOK, GrantedOnRecord
      <4>5. ASSUME NEW r \in Requests, CheckCooldown(r)
            PROVE  req[q].outcome = "granted" /\ NewRow(q)' = NewRow(q)
        BY <4>5 DEF CheckCooldown, Answer, NewRow, IInv, TypeOK
      <4> QED
        BY <2>2, <4>1, <4>2, <4>3, <4>4, <4>5
        DEF Next, Handle, EndInterview, DeactivateUser, Tick, vars
    <3> QED BY <3>1
  <2> QED BY <2>1, <2>2
<1>3. IInv /\ GG => GrantsAreDistinct
  BY DEF IInv, GrantedOnRecord, HeldKeysDistinct, GrantsAreDistinct
<1> QED BY <1>1, <1>2, <1>3, InductiveInvariant, PTL DEF Spec
-----------------------------------------------------------------------------
(***************************************************************************)
(* The cooldown of the predecessor.                                        *)
(***************************************************************************)
\* The application a request looked at.
Judged(r) == Row(req[r].user, req[r].skill, req[r].latest)

\* A request arrived in the past, and when it has passed check 3, the cooldown
\* of the application it looked at is over or began after it arrived.
CooldownJudged ==
    \A r \in Requests :
        /\ req[r].pc # "idle" => req[r].at <= now
        /\ /\ req[r].pc \in {"create", "flushed"}
           /\ req[r].latest > 0
           /\ cooldown_until[Judged(r)] # None
           => \/ cooldown_until[Judged(r)] <= now
              \/ cooldown_until[Judged(r)] >= req[r].at + COOLDOWN_DAYS

\* That application exists.
LEMMA JudgedExists ==
    ASSUME IInv, NEW r \in Requests, req[r].pc \in {"create", "flushed"}, req[r].latest > 0
    PROVE  Judged(r) \in Rows
<1>1. req[r].latest \in Attempts(req[r].user, req[r].skill)
  BY MaxAttemptsAssumption DEF IInv, TypeOK, CountedPrefix
<1> QED BY <1>1, AttemptMember DEF IInv, TypeOK, Judged

\* A request that moves without passing check 3 disturbs no other.
LEMMA JudgedOthers ==
    ASSUME IInv, CooldownJudged, NEW r \in Requests, NEW v,
           req' = [req EXCEPT ![r] = v], UNCHANGED <<cooldown_until, now>>,
           v.pc \notin {"create", "flushed"}, v.pc # "idle" => v.at <= now
    PROVE  CooldownJudged'
<1>1. \A q \in Requests : req'[q] = IF q = r THEN v ELSE req[q]
  BY DEF IInv, TypeOK
<1>2. \A q \in Requests : q # r => Judged(q)' = Judged(q)
  BY <1>1 DEF Judged
<1> QED BY <1>1, <1>2 DEF CooldownJudged

\* Every step keeps it: the clock only moves forward, and a cooldown that
\* begins ends COOLDOWN_DAYS from now.
LEMMA NextCooldownJudged == IInv /\ CooldownJudged /\ [Next]_vars => CooldownJudged'
<1> SUFFICES ASSUME IInv, CooldownJudged, [Next]_vars PROVE CooldownJudged'
  OBVIOUS
<1>0. /\ now \in Nat /\ COOLDOWN_DAYS \in Nat
      /\ cooldown_until \in [Rows -> Nat \cup {None}]
      /\ \A r \in Requests : req[r].at \in Nat /\ req[r].latest \in Nat
  BY CooldownAssumption, MaxAttemptsAssumption DEF IInv, TypeOK
<1>1. ASSUME UNCHANGED <<req, cooldown_until>>, now' \in Nat, now' >= now
      PROVE  CooldownJudged'
  <2>1. \A r \in Requests : Judged(r)' = Judged(r)
    BY <1>1 DEF Judged
  <2>2. \A r \in Requests : req[r].pc \in {"create", "flushed"} /\ req[r].latest > 0
           => cooldown_until[Judged(r)] \in Nat \cup {None}
    BY <1>0, JudgedExists
  <2> QED BY <1>0, <1>1, <2>1, <2>2, NoneAssumption DEF CooldownJudged
<1>2. ASSUME NEW k \in apps, EndInterview(k)
      PROVE  CooldownJudged'
  <2>1. \A r \in Requests : Judged(r)' = Judged(r)
    BY <1>2 DEF EndInterview, Judged
  <2>2. \A j \in Rows : cooldown_until'[j] = IF j = k THEN now + COOLDOWN_DAYS ELSE cooldown_until[j]
    BY <1>0, <1>2 DEF EndInterview
  <2> SUFFICES ASSUME NEW r \in Requests
               PROVE  /\ req'[r].pc # "idle" => req'[r].at <= now'
                      /\ /\ req'[r].pc \in {"create", "flushed"}
                         /\ req'[r].latest > 0
                         /\ cooldown_until'[Judged(r)'] # None
                         => \/ cooldown_until'[Judged(r)'] <= now'
                            \/ cooldown_until'[Judged(r)'] >= req'[r].at + COOLDOWN_DAYS
    BY DEF CooldownJudged
  <2>3. req' = req /\ now' = now
    BY <1>2 DEF EndInterview
  <2>4. req[r].pc # "idle" => req[r].at <= now
    BY DEF CooldownJudged
  <2>5. CASE req[r].pc \in {"create", "flushed"} /\ req[r].latest > 0
    <3>1. Judged(r) \in Rows
      BY <2>5, JudgedExists
    <3>2. CASE Judged(r) = k
      BY <1>0, <2>1, <2>2, <2>3, <2>4, <2>5, <3>1, <3>2
    <3>3. CASE Judged(r) # k
      BY <2>1, <2>2, <2>3, <2>4, <2>5, <3>1, <3>3 DEF CooldownJudged
    <3> QED BY <3>2, <3>3
  <2> QED BY <2>3, <2>4, <2>5
<1>3. ASSUME NEW r \in Requests, NEW u \in Users, NEW s \in Skills, Arrive(r, u, s)
      PROVE  CooldownJudged'
  <2> DEFINE v == Request("load", u, s, now)
  <2>1. req' = [req EXCEPT ![r] = v] /\ v.pc = "load" /\ v.at = now
    BY <1>3 DEF Arrive, Request
  <2>2. v.at <= now
    BY <1>0, <2>1
  <2> HIDE DEF v
  <2> QED BY <1>3, <2>1, <2>2, JudgedOthers DEF Arrive
<1>4. ASSUME NEW r \in Requests, Leave(r)
      PROVE  CooldownJudged'
  <2>1. Idle.pc = "idle"
    BY DEF Idle, Request
  <2> QED BY <1>4, <2>1, JudgedOthers DEF Leave
<1>5. ASSUME NEW r \in Requests, NEW o, req[r].pc # "idle", Answer(r, o),
             UNCHANGED <<cooldown_until, now>>
      PROVE  CooldownJudged'
  <2> DEFINE v == [req[r] EXCEPT !.pc = "answered", !.outcome = o]
  <2>1. req' = [req EXCEPT ![r] = v] /\ v.pc = "answered" /\ v.at = req[r].at
    BY <1>5 DEF Answer, IInv, TypeOK
  <2>2. v.at <= now
    BY <1>5, <2>1 DEF CooldownJudged
  <2> HIDE DEF v
  <2> QED BY <1>5, <2>1, <2>2, JudgedOthers
<1>6. ASSUME NEW r \in Requests, LoadUser(r)
      PROVE  CooldownJudged'
  <2>1. CASE req' = [req EXCEPT ![r].pc = "count"]
    <3> DEFINE v == [req[r] EXCEPT !.pc = "count"]
    <3>1. req' = [req EXCEPT ![r] = v] /\ v.pc = "count" /\ v.at = req[r].at
      BY <2>1 DEF IInv, TypeOK
    <3>2. v.at <= now
      BY <1>6, <3>1 DEF LoadUser, CooldownJudged
    <3> HIDE DEF v
    <3> QED BY <1>6, <3>1, <3>2, JudgedOthers DEF LoadUser
  <2> QED BY <1>5, <1>6, <2>1 DEF LoadUser
<1>7. ASSUME NEW r \in Requests, CountAttempts(r)
      PROVE  CooldownJudged'
  <2> DEFINE n == count_attempts(req[r].user, req[r].skill)
  <2>1. CASE req' = [req EXCEPT ![r].pc = "cooldown", ![r].count = n]
    <3> DEFINE v == [req[r] EXCEPT !.pc = "cooldown", !.count = n]
    <3> HIDE DEF n
    <3>1. req' = [req EXCEPT ![r] = v] /\ v.pc = "cooldown" /\ v.at = req[r].at
      BY <2>1 DEF IInv, TypeOK
    <3>2. v.at <= now
      BY <1>7, <3>1 DEF CountAttempts, CooldownJudged
    <3> HIDE DEF v
    <3> QED BY <1>7, <3>1, <3>2, JudgedOthers DEF CountAttempts
  <2> QED BY <1>5, <1>7, <2>1 DEF CountAttempts
<1>8. ASSUME NEW r \in Requests, CheckCooldown(r)
      PROVE  CooldownJudged'
  <2> DEFINE u == req[r].user
             s == req[r].skill
             n == latest_application(u, s)
  <2>1. CASE ~InCooldown(u, s, n) /\ req' = [req EXCEPT ![r].pc = "create", ![r].latest = n]
    <3> HIDE DEF n
    <3>1. /\ req'[r].pc = "create" /\ req'[r].latest = n /\ req'[r].at = req[r].at
          /\ req'[r].user = u /\ req'[r].skill = s
          /\ \A q \in Requests : q # r => req'[q] = req[q]
      BY <2>1 DEF IInv, TypeOK
    <3>2. /\ \A q \in Requests : q # r => Judged(q)' = Judged(q)
          /\ Judged(r)' = Row(u, s, n)
      BY <3>1 DEF Judged
    <3>3. UNCHANGED <<cooldown_until, now>>
      BY <1>8 DEF CheckCooldown
    <3>4. n \in Nat /\ n \in {0} \cup Attempts(u, s)
      <4>1. u \in Users /\ s \in Skills
        BY <1>8 DEF CheckCooldown, IInv, TypeOK
      <4>2. PICK c \in 0..MAX_ATTEMPTS : Attempts(u, s) = 1..c
        BY <4>1 DEF IInv, Contiguous
      <4>3. n = c
        BY <4>2, LatestOfContiguous, MaxAttemptsAssumption DEF n
      <4> QED BY <4>2, <4>3, MaxAttemptsAssumption
    <3>5. n > 0 /\ cooldown_until[Row(u, s, n)] # None => cooldown_until[Row(u, s, n)] <= now
      <4> SUFFICES ASSUME n > 0, cooldown_until[Row(u, s, n)] # None
                   PROVE  cooldown_until[Row(u, s, n)] <= now
        OBVIOUS
      <4>1. Row(u, s, n) \in Rows
        <5>1. apps \subseteq Rows
          BY DEF IInv, TypeOK
        <5> QED BY <3>4, <5>1, AttemptMember
      <4> QED BY <1>0, <2>1, <3>4, <4>1 DEF InCooldown
    <3>6. req[r].at <= now
      BY <1>8 DEF CheckCooldown, CooldownJudged
    <3> QED BY <3>1, <3>2, <3>3, <3>5, <3>6 DEF CooldownJudged
  <2> QED BY <1>5, <1>8, <2>1 DEF CheckCooldown
<1>9. ASSUME NEW r \in Requests, CreateApplication(r)
      PROVE  CooldownJudged'
  <2>1. CASE req' = [req EXCEPT ![r].pc = "flushed"]
    <3>1. /\ req'[r].pc = "flushed" /\ req'[r].latest = req[r].latest /\ req'[r].at = req[r].at
          /\ req'[r].user = req[r].user /\ req'[r].skill = req[r].skill
          /\ \A q \in Requests : q # r => req'[q] = req[q]
      BY <2>1 DEF IInv, TypeOK
    <3>2. \A q \in Requests : Judged(q)' = Judged(q)
      BY <3>1 DEF Judged
    <3> QED BY <1>9, <3>1, <3>2 DEF CreateApplication, CooldownJudged
  <2> QED BY <1>5, <1>9, <2>1 DEF CreateApplication
<1>10. ASSUME NEW r \in Requests, Commit(r) \/ Fail(r)
       PROVE  CooldownJudged'
  BY <1>5, <1>10 DEF Commit, Fail, InFlight
<1>11. CASE (\E u \in Users : DeactivateUser(u)) \/ Tick \/ UNCHANGED vars
  BY <1>0, <1>1, <1>11 DEF DeactivateUser, Tick, vars
<1> QED
  BY <1>2, <1>3, <1>4, <1>6, <1>7, <1>8, <1>9, <1>10, <1>11 DEF Next, Handle

\* A grant passes over the cooldown of the attempt before it only when that
\* cooldown began after the request arrived.
THEOREM CooldownIsRespected == Spec => []CooldownOfPredecessor
<1>1. Init => CooldownJudged
  BY DEF Init, Idle, Request, CooldownJudged
<1>2. IInv /\ CooldownJudged /\ PredecessorJudged => CooldownOfPredecessor
  BY DEF CooldownJudged, PredecessorJudged, CooldownOfPredecessor, Judged
<1> QED BY <1>1, <1>2, NextCooldownJudged, InductiveInvariant, PredecessorIsJudged, PTL DEF Spec

-----------------------------------------------------------------------------
(***************************************************************************)
(* Deactivated users.                                                      *)
(***************************************************************************)
\* Once a user is inactive and nothing of theirs is past check 1, no step
\* brings anything past it, or changes the attempts on record.
THEOREM InactiveStayOut == Spec => InactiveStaysOut
<1>1. IInv /\ [Next]_vars => [\A u \in Users : StaysOut(u)]_vars
  <2> SUFFICES ASSUME IInv, Next, NEW u \in Users, ~active[u], PastCheck(u) = {}
               PROVE  /\ ~active'[u] /\ PastCheck(u)' = {}
                      /\ \A s \in Skills : Attempts(u, s)' = Attempts(u, s)
    BY DEF StaysOut
  <2>1. \A r \in Requests : req[r].user = u => req[r].pc \notin InFlight \ {"load"}
    BY DEF PastCheck
  <2>2. ASSUME NEW r \in Requests, NEW v, req' = [req EXCEPT ![r] = v],
               v.user = u => v.pc \notin InFlight \ {"load"}
        PROVE  PastCheck(u)' = {}
    <3>1. \A q \in Requests : req'[q] = IF q = r THEN v ELSE req[q]
      BY <2>2 DEF IInv, TypeOK
    <3> QED BY <2>1, <2>2, <3>1 DEF PastCheck
  <2>3. ASSUME NEW r \in Requests, NEW o, Answer(r, o)
        PROVE  PastCheck(u)' = {}
    <3> DEFINE v == [req[r] EXCEPT !.pc = "answered", !.outcome = o]
    <3>1. req' = [req EXCEPT ![r] = v] /\ v.pc = "answered"
      BY <2>3 DEF Answer, IInv, TypeOK
    <3> HIDE DEF v
    <3>2. v.pc \notin InFlight \ {"load"}
      BY <3>1 DEF InFlight
    <3> QED BY <2>2, <3>1, <3>2
  <2>4. ASSUME NEW r \in Requests, req[r].user # u, \A q \in Requests : q # r => req'[q] = req[q],
               req'[r].user = req[r].user
        PROVE  PastCheck(u)' = {}
    BY <2>1, <2>4 DEF PastCheck
  <2>5. ASSUME apps' = apps
        PROVE  \A s \in Skills : Attempts(u, s)' = Attempts(u, s)
    BY <2>5, AttemptsSame
  <2>6. ASSUME NEW r \in Requests, NEW a \in Users, NEW s \in Skills, Arrive(r, a, s)
        PROVE  PastCheck(u)' = {}
    <3>1. Request("load", a, s, now).pc = "load"
      BY DEF Request
    <3> QED BY <2>2, <2>6, <3>1 DEF Arrive
  <2>7. ASSUME NEW r \in Requests, Leave(r)
        PROVE  PastCheck(u)' = {}
    <3>1. Idle.pc = "idle"
      BY DEF Idle, Request
    <3> QED BY <2>2, <2>7, <3>1 DEF Leave, InFlight
  <2>8. ASSUME NEW r \in Requests, LoadUser(r)
        PROVE  PastCheck(u)' = {}
    <3>1. CASE active[req[r].user] /\ req' = [req EXCEPT ![r].pc = "count"]
      BY <2>4, <3>1 DEF IInv, TypeOK
    <3> QED BY <2>3, <2>8, <3>1 DEF LoadUser
  <2>9. ASSUME NEW r \in Requests, CountAttempts(r) \/ CheckCooldown(r) \/ CreateApplication(r)
         PROVE  PastCheck(u)' = {}
    <3>1. req[r].user # u
      BY <2>1, <2>9 DEF CountAttempts, CheckCooldown, CreateApplication, InFlight
    <3>2. /\ \A q \in Requests : q # r => req'[q] = req[q]
          /\ req'[r].user = req[r].user
      BY <2>9 DEF CountAttempts, CheckCooldown, CreateApplication, Answer, IInv, TypeOK
    <3> QED BY <2>4, <3>1, <3>2
  <2>10. ASSUME NEW r \in Requests, Commit(r)
         PROVE  \A s \in Skills : Attempts(u, s)' = Attempts(u, s)
    <3>1. req[r].user # u /\ NewRow(r).user = req[r].user /\ NewRow(r) \in Rows
      BY <2>1, <2>10, CommitContinues DEF Commit, InFlight, NewRow, Row
    <3> QED BY <2>10, <3>1, AttemptsAdd DEF Commit, IInv, TypeOK
  <2>11. ASSUME UNCHANGED req
         PROVE  PastCheck(u)' = {}
    BY <2>11 DEF PastCheck
  <2>12. ~active'[u]
    BY DEF Next, Handle, Arrive, LoadUser, CountAttempts, CheckCooldown, CreateApplication,
           Commit, Fail, Leave, EndInterview, DeactivateUser, Tick, IInv, TypeOK
  <2>13. PastCheck(u)' = {}
    BY <2>3, <2>6, <2>7, <2>8, <2>9, <2>11
    DEF Next, Handle, Commit, Fail, EndInterview, DeactivateUser, Tick
  <2>14. \A s \in Skills : Attempts(u, s)' = Attempts(u, s)
    BY <2>5, <2>10
    DEF Next, Handle, Arrive, LoadUser, CountAttempts, CheckCooldown, CreateApplication,
        Fail, Leave, EndInterview, DeactivateUser, Tick
  <2> QED BY <2>12, <2>13, <2>14
<1> QED BY <1>1, InductiveInvariant, PTL DEF Spec, InactiveStaysOut

-----------------------------------------------------------------------------
(***************************************************************************)
(* The refinement.                                                         *)
(***************************************************************************)
\* A commit is a grant of the ledger; nothing else changes what is taken.
LEMMA StepIsGrantOrStutter == IInv /\ [Next]_vars => [Ledger!Next]_taken
<1> SUFFICES ASSUME IInv, [Next]_vars PROVE [Ledger!Next]_taken
  OBVIOUS
<1>1. CASE \E r \in Requests : Commit(r)
  <2>1. PICK r \in Requests : Commit(r)
    BY <1>1
  <2>2. PICK u \in Users, s \in Skills, n \in Nat :
               /\ u = req[r].user /\ s = req[r].skill /\ n = req[r].count
               /\ n < MAX_ATTEMPTS /\ NewRow(r) \in Rows /\ Attempts(u, s) = 1..n
    BY <2>1, CommitContinues DEF Commit
  <2>3. NewRow(r).user = u /\ NewRow(r).skill = s /\ NewRow(r).attempt = n + 1
    BY <2>2 DEF NewRow, Row
  <2>4. \A a, b : Attempts(a, b)' = IF u = a /\ s = b THEN Attempts(a, b) \cup {n + 1}
                                    ELSE Attempts(a, b)
    BY <2>1, <2>2, <2>3, AttemptsAdd DEF Commit, IInv, TypeOK
  <2>5. count_attempts(u, s) = n
    BY <2>2, CountContiguous
  <2>6. count_attempts(u, s)' = n + 1
    <3>1. Attempts(u, s)' = 1..(n + 1)
      <4>1. Attempts(u, s)' = (1..n) \cup {n + 1}
        BY <2>2, <2>4
      <4> QED BY <4>1
    <3>2. Cardinality(1..(n + 1)) = n + 1
      BY <2>2, FS_Interval
    <3> QED BY <3>1, <3>2 DEF count_attempts
  <2>7. \A a, b : ~(u = a /\ s = b) => count_attempts(a, b)' = count_attempts(a, b)
    BY <2>4 DEF count_attempts
  <2>8. taken[<<u, s>>] = n
    BY <2>2, <2>5 DEF taken
  <2>9. taken' = [taken EXCEPT ![<<u, s>>] = @ + 1]
    <3>1. \A p \in Users \X Skills : taken'[p] = IF p = <<u, s>> THEN n + 1 ELSE taken[p]
      BY <2>6, <2>7 DEF taken
    <3>2. taken' = [p \in Users \X Skills |-> taken'[p]]
      BY DEF taken
    <3>3. [taken EXCEPT ![<<u, s>>] = @ + 1]
             = [p \in Users \X Skills |-> IF p = <<u, s>> THEN n + 1 ELSE taken[p]]
      BY <2>8 DEF taken
    <3> QED BY <3>1, <3>2, <3>3
  <2>10. Ledger!Grant(u, s)
    BY <2>2, <2>8, <2>9 DEF Ledger!Grant
  <2> QED BY <2>2, <2>10 DEF Ledger!Next
<1>2. CASE ~\E r \in Requests : Commit(r)
  <2>1. apps' = apps
    BY <1>2 DEF Next, Handle, Arrive, LoadUser, CountAttempts, CheckCooldown,
                CreateApplication, Fail, Leave, EndInterview, DeactivateUser, Tick, vars
  <2>2. \A a, b : count_attempts(a, b)' = count_attempts(a, b)
    BY <2>1, AttemptsSame
  <2>3. taken' = taken
    BY <2>2 DEF taken
  <2> QED BY <2>3
<1> QED BY <1>1, <1>2

\* Overlapping requests, failures and rollbacks amount to a ledger from which
\* one attempt at a time is granted.
THEOREM SelectionImplementsLedger == Spec => ImplementsLedger
<1>1. Init => Ledger!Init
  <2> SUFFICES ASSUME Init PROVE Ledger!Init
    OBVIOUS
  <2>1. \A u, s : Attempts(u, s) = 1..0
    BY DEF Init, Attempts
  <2>2. \A u, s : count_attempts(u, s) = 0
    BY <2>1, CountContiguous
  <2> QED BY <2>2 DEF taken, Ledger!Init
<1> QED BY <1>1, StepIsGrantOrStutter, InductiveInvariant, PTL
        DEF Spec, ImplementsLedger, Ledger!Spec
=============================================================================
