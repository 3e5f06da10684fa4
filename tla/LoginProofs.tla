------------------------------ MODULE LoginProofs ------------------------------
(***************************************************************************)
(* Proofs about Login, for any number of overlapping requests, any limits  *)
(* and codes, and any number of failures: what the rate key counts is what *)
(* was let through, the unique phone admits one insert, and a phone that   *)
(* is no officer's leaves nothing in Redis.                                *)
(***************************************************************************)
EXTENDS Login, TLAPS

\* The records of the module, and what tells them apart.
LEMMA IdleIsRequest ==
    /\ Idle \in [pc : PCs, data : Otps \cup {None}, new : BOOLEAN]
    /\ Idle.pc = "idle" /\ Idle.data = None /\ Idle.new = FALSE
BY DEF Idle, PCs

LEMMA NoKeyIsKey ==
    /\ NoKey \in [count : Nat, ttl : BOOLEAN] /\ NoKey.count = 0 /\ NoKey.ttl = FALSE
BY DEF NoKey

LEMMA InitIInv == Init => IInv
<1> SUFFICES ASSUME Init PROVE IInv
  OBVIOUS
<1>1. TypeOK
  BY LimitsAssumption, IdleIsRequest, NoKeyIsKey DEF Init, TypeOK
<1>2. SendsCounted
  BY LimitsAssumption, NoKeyIsKey DEF Init, SendsCounted
<1>3. \A r \in Requests : req[r] = Idle
  BY DEF Init
<1>4. OneInsert /\ \A r \in Requests : RequestInv(r)
  BY <1>3, IdleIsRequest DEF OneInsert, RequestInv
<1>5. OfficersOnly
  BY DEF Init, OfficersOnly
<1> QED BY <1>1, <1>2, <1>4, <1>5 DEF IInv

-----------------------------------------------------------------------------
(***************************************************************************)
(* What a request in flight may become.                                    *)
(***************************************************************************)
\* Request r becomes v; the login stays, and the row is there for good once
\* it is.
LEMMA RequestMoves ==
    ASSUME IInv, NEW r \in Requests,
           NEW v \in [pc : PCs, data : Otps \cup {None}, new : BOOLEAN],
           req' = [req EXCEPT ![r] = v], login' = login, user # "none" => user' # "none",
           RequestInv(r)',
           v.new /\ ~req[r].new => ~\E q \in Requests : req[q].new,
           (\E q \in Requests : req'[q].new) => user' = "none"
    PROVE  /\ req' \in [Requests -> [pc : PCs, data : Otps \cup {None}, new : BOOLEAN]]
           /\ OneInsert' /\ \A q \in Requests : RequestInv(q)'
<1>1. req \in [Requests -> [pc : PCs, data : Otps \cup {None}, new : BOOLEAN]]
  BY DEF IInv, TypeOK
<1>2. req'[r] = v /\ \A q \in Requests \ {r} : req'[q] = req[q]
  BY <1>1
<1>3. ASSUME NEW q \in Requests
      PROVE  RequestInv(q)'
  <2>1. CASE q = r
    BY <2>1
  <2>2. CASE q # r
    <3>1. RequestInv(q)
      BY DEF IInv
    <3> QED BY <1>2, <2>2, <3>1 DEF RequestInv
  <2> QED BY <2>1, <2>2
<1>4. OneInsert'
  <2>1. ASSUME NEW p \in Requests, NEW q \in Requests, req'[p].new, req'[q].new
        PROVE  p = q
    <3>1. \A s, t \in Requests : req[s].new /\ req[t].new => s = t
      BY DEF IInv, OneInsert
    <3> QED BY <1>2, <2>1, <3>1
  <2> QED BY <2>1 DEF OneInsert
<1> QED BY <1>1, <1>3, <1>4

\* A request that is answered, or goes on to a step before the insert.
LEMMA RequestEnds ==
    ASSUME IInv, NEW r \in Requests, Answer(r), login' = login,
           user # "none" => user' # "none",
           (\E q \in Requests \ {r} : req[q].new) => user' = "none"
    PROVE  /\ req' \in [Requests -> [pc : PCs, data : Otps \cup {None}, new : BOOLEAN]]
           /\ OneInsert' /\ \A q \in Requests : RequestInv(q)'
<1>1. req \in [Requests -> [pc : PCs, data : Otps \cup {None}, new : BOOLEAN]]
  BY DEF IInv, TypeOK
<1>2. req' = [req EXCEPT ![r] = Idle] /\ req'[r] = Idle
      /\ \A q \in Requests \ {r} : req'[q] = req[q]
  BY <1>1 DEF Answer
<1>3. RequestInv(r)'
  BY <1>2, IdleIsRequest DEF RequestInv
<1>4. (\E q \in Requests : req'[q].new) => user' = "none"
  BY <1>2, IdleIsRequest
<1> QED BY <1>2, <1>3, <1>4, IdleIsRequest, RequestMoves

\* A request that goes on to pc without inserting.
LEMMA RequestGoesOn ==
    ASSUME IInv, NEW r \in Requests, NEW pc \in PCs, Move(r, pc), UNCHANGED <<login, user>>,
           req[r].new => pc \in {"token", "commit"},
           pc \in {"user", "insert"} => login = "user",
           pc \in {"send", "verify"} => login = "admin",
           login = "admin" => user # "none",
           pc = "incr_set" => req[r].data # None
    PROVE  /\ req' \in [Requests -> [pc : PCs, data : Otps \cup {None}, new : BOOLEAN]]
           /\ OneInsert' /\ \A q \in Requests : RequestInv(q)'
<1> DEFINE v == [req[r] EXCEPT !.pc = pc]
<1>1. req \in [Requests -> [pc : PCs, data : Otps \cup {None}, new : BOOLEAN]]
  BY DEF IInv, TypeOK
<1>2. req' = [req EXCEPT ![r] = v]
  BY DEF Move
<1>3. /\ v \in [pc : PCs, data : Otps \cup {None}, new : BOOLEAN]
      /\ v.pc = pc /\ v.data = req[r].data /\ v.new = req[r].new
  BY <1>1
<1> HIDE DEF v
<1>4. req'[r] = v /\ \A q \in Requests \ {r} : req'[q] = req[q]
  BY <1>1, <1>2
<1>5. RequestInv(r)'
  BY <1>3, <1>4 DEF IInv, RequestInv
<1>6. (\E q \in Requests : req'[q].new) => user' = "none"
  BY <1>3, <1>4 DEF IInv, OneInsert
<1> QED BY <1>2, <1>3, <1>5, <1>6, RequestMoves

\* An officer's request in flight has found the officer's row.
LEMMA OfficerIsKnown ==
    ASSUME IInv, NEW r \in Requests, req[r].pc # "idle" \/ login = "user"
    PROVE  login = "admin" => user # "none"
BY DEF IInv, RequestInv

-----------------------------------------------------------------------------
(***************************************************************************)
(* The steps.                                                              *)
(***************************************************************************)
LEMMA SendKeeps ==
    ASSUME IInv, NEW r \in Requests,
           AdminSend(r) \/ SendIncr(r) \/ SendExpire(r) \/ SendStore(r)
    PROVE  IInv'
<1>0. TypeOK /\ SendsCounted /\ OneInsert /\ OfficersOnly /\ RequestInv(r)
  BY DEF IInv
<1>1. CASE AdminSend(r)
  <2>1. /\ Move(r, "send") /\ UNCHANGED <<login, keys, user, sends, wrong, faults>>
        /\ login = "admin" /\ req[r].pc = "idle" /\ user = "active"
    BY <1>1 DEF AdminSend
  <2>2. "send" \in PCs /\ ~req[r].new
    BY <1>0, <2>1 DEF PCs, RequestInv
  <2>3. /\ req' \in [Requests -> [pc : PCs, data : Otps \cup {None}, new : BOOLEAN]]
        /\ OneInsert' /\ \A q \in Requests : RequestInv(q)'
    BY <2>1, <2>2, RequestGoesOn
  <2> QED BY <1>0, <2>1, <2>3 DEF IInv, TypeOK, SendsCounted, OfficersOnly, keys
<1>2. CASE SendIncr(r)
  <2> DEFINE n == rate.count + 1
             m == IF n > MAX_SENDS THEN MAX_SENDS + 1 ELSE n
  <2>1. /\ rate' = [rate EXCEPT !.count = m]
        /\ sends' = IF n <= MAX_SENDS THEN sends + 1 ELSE sends
        /\ \/ Move(r, "expire") \/ Move(r, "store") \/ Answer(r)
        /\ UNCHANGED <<login, wrong, otp, user, session, faults>>
        /\ req[r].pc \in {"idle", "send"} /\ (login = "user" \/ req[r].pc # "idle")
    BY <1>2 DEF SendIncr, Begins
  <2>2. login = "admin" => user # "none"
    BY <2>1, OfficerIsKnown
  <2>3. ~req[r].new /\ "expire" \in PCs /\ "store" \in PCs
    BY <1>0, <2>1 DEF RequestInv, PCs
  <2>4. /\ req' \in [Requests -> [pc : PCs, data : Otps \cup {None}, new : BOOLEAN]]
        /\ OneInsert' /\ \A q \in Requests : RequestInv(q)'
    <3>1. CASE Answer(r)
      BY <1>0, <2>1, <3>1, RequestEnds DEF OneInsert
    <3>2. CASE Move(r, "expire") \/ Move(r, "store")
      BY <2>1, <2>2, <2>3, <3>2, RequestGoesOn
    <3> QED BY <2>1, <3>1, <3>2
  <2>5. rate \in [count : Nat, ttl : BOOLEAN] /\ sends \in Nat /\ MAX_SENDS \in Nat
    BY <1>0, LimitsAssumption DEF TypeOK
  <2>6. m \in Nat
    BY <2>5
  <2>7. rate' \in [count : Nat, ttl : BOOLEAN] /\ rate'.count = m /\ sends' \in Nat
    BY <2>1, <2>5, <2>6
  <2>8. SendsCounted'
    BY <1>0, <2>1, <2>5, <2>7 DEF SendsCounted
  <2>9. TypeOK' /\ OfficersOnly'
    BY <1>0, <2>1, <2>2, <2>4, <2>7 DEF TypeOK, OfficersOnly
  <2> QED BY <2>4, <2>8, <2>9 DEF IInv
<1>3. CASE SendExpire(r)
  <2>1. /\ rate' = IF rate.count > 0 THEN [rate EXCEPT !.ttl = TRUE] ELSE rate
        /\ Move(r, "store")
        /\ UNCHANGED <<login, wrong, otp, user, session, sends, faults>> /\ req[r].pc = "expire"
    BY <1>3 DEF SendExpire
  <2>2. (login = "admin" => user # "none") /\ "store" \in PCs /\ ~req[r].new
    BY <1>0, <2>1, OfficerIsKnown DEF PCs, RequestInv
  <2>3. /\ req' \in [Requests -> [pc : PCs, data : Otps \cup {None}, new : BOOLEAN]]
        /\ OneInsert' /\ \A q \in Requests : RequestInv(q)'
    BY <2>1, <2>2, RequestGoesOn
  <2>4. rate' \in [count : Nat, ttl : BOOLEAN] /\ rate'.count = rate.count
    BY <1>0, <2>1 DEF TypeOK
  <2> QED BY <1>0, <2>1, <2>2, <2>3, <2>4 DEF IInv, TypeOK, SendsCounted, OfficersOnly
<1>4. CASE SendStore(r)
  <2>1. PICK c \in Codes :
           /\ otp' = [otp |-> c, attempts |-> 0] /\ wrong' = [wrong EXCEPT ![c] = 0]
           /\ Answer(r) /\ UNCHANGED <<login, rate, user, session, sends, faults>>
           /\ req[r].pc = "store"
    BY <1>4 DEF SendStore
  <2>2. login = "admin" => user # "none"
    BY <2>1, OfficerIsKnown
  <2>3. /\ req' \in [Requests -> [pc : PCs, data : Otps \cup {None}, new : BOOLEAN]]
        /\ OneInsert' /\ \A q \in Requests : RequestInv(q)'
    BY <1>0, <2>1, RequestEnds DEF OneInsert
  <2>4. otp' \in Otps /\ wrong' \in [Codes -> Nat]
    BY <1>0, <2>1, LimitsAssumption DEF Otps, TypeOK
  <2> QED BY <1>0, <2>1, <2>2, <2>3, <2>4 DEF IInv, TypeOK, SendsCounted, OfficersOnly
<1> QED BY <1>1, <1>2, <1>3, <1>4

LEMMA GuessKeeps ==
    ASSUME IInv, NEW r \in Requests,
           \/ AdminVerify(r) \/ \E g \in Guesses : VerifyGet(r, g)
           \/ VerifyDiscard(r) \/ IncrementGet(r) \/ IncrementSet(r)
    PROVE  IInv'
<1>0. TypeOK /\ SendsCounted /\ OneInsert /\ OfficersOnly /\ RequestInv(r)
  BY DEF IInv
<1>1. CASE AdminVerify(r)
  <2>1. /\ Move(r, "verify") /\ UNCHANGED <<login, keys, user, sends, wrong, faults>>
        /\ login = "admin" /\ req[r].pc = "idle" /\ user = "active"
    BY <1>1 DEF AdminVerify
  <2>2. "verify" \in PCs /\ ~req[r].new
    BY <1>0, <2>1 DEF PCs, RequestInv
  <2>3. /\ req' \in [Requests -> [pc : PCs, data : Otps \cup {None}, new : BOOLEAN]]
        /\ OneInsert' /\ \A q \in Requests : RequestInv(q)'
    BY <2>1, <2>2, RequestGoesOn
  <2> QED BY <1>0, <2>1, <2>3 DEF IInv, TypeOK, SendsCounted, OfficersOnly, keys
<1>2. CASE \E g \in Guesses : VerifyGet(r, g)
  <2>1. /\ Answer(r) \/ \E pc \in {"discard", "incr_get", "delete"} : Move(r, pc)
        /\ \/ UNCHANGED wrong
           \/ otp # None /\ wrong' = [wrong EXCEPT ![otp.otp] = wrong[otp.otp] + 1]
        /\ UNCHANGED <<login, keys, user, sends, faults>>
        /\ req[r].pc \in {"idle", "verify"} /\ (login = "user" \/ req[r].pc # "idle")
    BY <1>2 DEF VerifyGet, Begins
  <2>2. (login = "admin" => user # "none") /\ ~req[r].new
    BY <1>0, <2>1, OfficerIsKnown DEF RequestInv
  <2>3. /\ req' \in [Requests -> [pc : PCs, data : Otps \cup {None}, new : BOOLEAN]]
        /\ OneInsert' /\ \A q \in Requests : RequestInv(q)'
    <3>1. CASE Answer(r)
      BY <1>0, <2>1, <3>1, RequestEnds DEF OneInsert
    <3>2. ASSUME NEW pc \in {"discard", "incr_get", "delete"}, Move(r, pc)
          PROVE  /\ req' \in [Requests -> [pc : PCs, data : Otps \cup {None}, new : BOOLEAN]]
                 /\ OneInsert' /\ \A q \in Requests : RequestInv(q)'
      <4>1. pc \in PCs
        BY DEF PCs
      <4> QED BY <2>1, <2>2, <3>2, <4>1, RequestGoesOn
    <3> QED BY <2>1, <3>1, <3>2
  <2>4. wrong' \in [Codes -> Nat]
    <3>1. wrong \in [Codes -> Nat] /\ (otp # None => otp.otp \in Codes)
      BY <1>0 DEF TypeOK, Otps
    <3> QED BY <2>1, <3>1
  <2> QED BY <1>0, <2>1, <2>3, <2>4 DEF IInv, TypeOK, SendsCounted, OfficersOnly, keys
<1>3. CASE VerifyDiscard(r)
  <2>1. /\ Answer(r) /\ otp' = None /\ UNCHANGED <<login, wrong, rate, user, session, sends, faults>>
    BY <1>3 DEF VerifyDiscard
  <2>2. /\ req' \in [Requests -> [pc : PCs, data : Otps \cup {None}, new : BOOLEAN]]
        /\ OneInsert' /\ \A q \in Requests : RequestInv(q)'
    BY <1>0, <2>1, RequestEnds DEF OneInsert
  <2> QED BY <1>0, <2>1, <2>2 DEF IInv, TypeOK, SendsCounted, OfficersOnly
<1>4. CASE IncrementGet(r)
  <2>1. UNCHANGED <<login, keys, user, sends, wrong, faults>> /\ req[r].pc = "incr_get"
    BY <1>4 DEF IncrementGet
  <2>2. /\ req' \in [Requests -> [pc : PCs, data : Otps \cup {None}, new : BOOLEAN]]
        /\ OneInsert' /\ \A q \in Requests : RequestInv(q)'
    <3>1. CASE otp = None
      BY <1>0, <1>4, <2>1, <3>1, RequestEnds DEF IncrementGet, OneInsert
    <3>2. CASE otp # None
      <4> DEFINE v == [req[r] EXCEPT !.data = otp, !.pc = "incr_set"]
      <4>1. req \in [Requests -> [pc : PCs, data : Otps \cup {None}, new : BOOLEAN]] /\ otp \in Otps
        BY <1>0, <3>2 DEF TypeOK
      <4>2. req' = [req EXCEPT ![r] = v]
        BY <1>4, <3>2 DEF IncrementGet
      <4>3. /\ v \in [pc : PCs, data : Otps \cup {None}, new : BOOLEAN]
            /\ v.pc = "incr_set" /\ v.data = otp /\ v.new = req[r].new
        BY <4>1 DEF PCs
      <4> HIDE DEF v
      <4>4. req'[r] = v /\ \A q \in Requests \ {r} : req'[q] = req[q]
        BY <4>1, <4>2
      <4>5. ~req[r].new
        BY <1>0, <2>1 DEF RequestInv
      <4>6. RequestInv(r)'
        BY <1>0, <2>1, <3>2, <4>3, <4>4, <4>5 DEF RequestInv
      <4>7. (\E q \in Requests : req'[q].new) => user' = "none"
        BY <1>0, <2>1, <4>3, <4>4 DEF OneInsert
      <4> QED BY <2>1, <4>2, <4>3, <4>5, <4>6, <4>7, RequestMoves
    <3> QED BY <3>1, <3>2
  <2> QED BY <1>0, <2>1, <2>2 DEF IInv, TypeOK, SendsCounted, OfficersOnly, keys
<1>5. CASE IncrementSet(r)
  <2>1. /\ otp' = [req[r].data EXCEPT !.attempts = Incremented(req[r].data.attempts)]
        /\ Answer(r) /\ UNCHANGED <<login, wrong, rate, user, session, sends, faults>>
        /\ req[r].pc = "incr_set"
    BY <1>5 DEF IncrementSet
  <2>2. (login = "admin" => user # "none") /\ req[r].data \in Otps
    BY <1>0, <2>1, OfficerIsKnown DEF RequestInv, TypeOK
  <2>3. otp' \in Otps
    <3>1. Incremented(req[r].data.attempts) \in 0..(OTP_MAX_WRONG + 1)
      BY <2>2, LimitsAssumption DEF Otps, Incremented
    <3> QED BY <2>1, <2>2, <3>1 DEF Otps
  <2>4. /\ req' \in [Requests -> [pc : PCs, data : Otps \cup {None}, new : BOOLEAN]]
        /\ OneInsert' /\ \A q \in Requests : RequestInv(q)'
    BY <1>0, <2>1, RequestEnds DEF OneInsert
  <2> QED BY <1>0, <2>1, <2>2, <2>3, <2>4 DEF IInv, TypeOK, SendsCounted, OfficersOnly
<1> QED BY <1>1, <1>2, <1>3, <1>4, <1>5

LEMMA VerifiedKeeps ==
    ASSUME IInv, NEW r \in Requests,
           VerifyDelete(r) \/ VerifyUser(r) \/ VerifyInsert(r) \/ VerifyToken(r) \/ VerifyCommit(r)
    PROVE  IInv'
<1>0. TypeOK /\ SendsCounted /\ OneInsert /\ OfficersOnly /\ RequestInv(r)
  BY DEF IInv
<1>00. {"user", "insert", "token", "commit"} \subseteq PCs
  BY DEF PCs
<1>1. CASE VerifyDelete(r)
  <2>1. /\ otp' = None /\ UNCHANGED <<login, wrong, rate, user, session, sends, faults>>
        /\ req[r].pc = "delete"
        /\ \/ login = "user" /\ Move(r, "user")
           \/ login = "admin" /\ Move(r, "token")
    BY <1>0, <1>1 DEF VerifyDelete, TypeOK
  <2>2. (login = "admin" => user # "none") /\ ~req[r].new
    BY <1>0, <2>1, OfficerIsKnown DEF RequestInv
  <2>3. /\ req' \in [Requests -> [pc : PCs, data : Otps \cup {None}, new : BOOLEAN]]
        /\ OneInsert' /\ \A q \in Requests : RequestInv(q)'
    BY <1>00, <2>1, <2>2, RequestGoesOn
  <2> QED BY <1>0, <2>1, <2>3 DEF IInv, TypeOK, SendsCounted, OfficersOnly
<1>2. CASE VerifyUser(r)
  <2>1. /\ UNCHANGED <<login, keys, user, sends, wrong, faults>> /\ req[r].pc = "user"
        /\ Answer(r) \/ Move(r, "token") \/ Move(r, "insert")
    BY <1>2 DEF VerifyUser
  <2>2. login = "user" /\ ~req[r].new
    BY <1>0, <2>1 DEF RequestInv
  <2>3. /\ req' \in [Requests -> [pc : PCs, data : Otps \cup {None}, new : BOOLEAN]]
        /\ OneInsert' /\ \A q \in Requests : RequestInv(q)'
    <3>1. CASE Answer(r)
      BY <1>0, <2>1, <3>1, RequestEnds DEF OneInsert
    <3>2. CASE Move(r, "token") \/ Move(r, "insert")
      BY <1>00, <2>1, <2>2, <3>2, RequestGoesOn
    <3> QED BY <2>1, <3>1, <3>2
  <2> QED BY <1>0, <2>1, <2>3 DEF IInv, TypeOK, SendsCounted, OfficersOnly, keys
<1>3. CASE VerifyInsert(r)
  <2>1. /\ UNCHANGED <<login, keys, user, sends, wrong, faults>> /\ req[r].pc = "insert"
        /\ ~\E q \in Requests : req[q].new
    BY <1>3 DEF VerifyInsert
  <2>2. /\ req' \in [Requests -> [pc : PCs, data : Otps \cup {None}, new : BOOLEAN]]
        /\ OneInsert' /\ \A q \in Requests : RequestInv(q)'
    <3>1. CASE user # "none"
      BY <1>0, <1>3, <2>1, <3>1, RequestEnds DEF VerifyInsert
    <3>2. CASE user = "none"
      <4> DEFINE v == [req[r] EXCEPT !.new = TRUE, !.pc = "token"]
      <4>1. req \in [Requests -> [pc : PCs, data : Otps \cup {None}, new : BOOLEAN]]
        BY <1>0 DEF TypeOK
      <4>2. req' = [req EXCEPT ![r] = v]
        BY <1>3, <3>2 DEF VerifyInsert
      <4>3. /\ v \in [pc : PCs, data : Otps \cup {None}, new : BOOLEAN]
            /\ v.pc = "token" /\ v.data = req[r].data /\ v.new = TRUE
        BY <1>00, <4>1
      <4> HIDE DEF v
      <4>4. req'[r] = v
        BY <4>1, <4>2
      <4>5. login = "user"
        BY <1>0, <2>1 DEF RequestInv
      <4>6. RequestInv(r)'
        BY <1>0, <2>1, <4>3, <4>4, <4>5 DEF RequestInv, TypeOK
      <4> QED BY <2>1, <3>2, <4>2, <4>3, <4>6, RequestMoves
    <3> QED BY <3>1, <3>2
  <2> QED BY <1>0, <2>1, <2>2 DEF IInv, TypeOK, SendsCounted, OfficersOnly, keys
<1>4. CASE VerifyToken(r)
  <2>1. /\ session' = "active" /\ Move(r, "commit") /\ req[r].pc = "token"
        /\ UNCHANGED <<login, wrong, otp, rate, user, sends, faults>>
    BY <1>4 DEF VerifyToken
  <2>2. login = "admin" => user # "none"
    BY <2>1, OfficerIsKnown
  <2>3. /\ req' \in [Requests -> [pc : PCs, data : Otps \cup {None}, new : BOOLEAN]]
        /\ OneInsert' /\ \A q \in Requests : RequestInv(q)'
    BY <1>00, <2>1, <2>2, RequestGoesOn
  <2> QED BY <1>0, <2>1, <2>2, <2>3 DEF IInv, TypeOK, SendsCounted, OfficersOnly
<1>5. CASE VerifyCommit(r)
  <2>1. /\ user' = IF req[r].new THEN "active" ELSE user
        /\ Answer(r) /\ UNCHANGED <<login, wrong, otp, rate, session, sends, faults>>
    BY <1>5 DEF VerifyCommit
  <2>2. (\E q \in Requests \ {r} : req[q].new) => user' = "none"
    BY <1>0, <2>1 DEF OneInsert
  <2>3. /\ req' \in [Requests -> [pc : PCs, data : Otps \cup {None}, new : BOOLEAN]]
        /\ OneInsert' /\ \A q \in Requests : RequestInv(q)'
    BY <2>1, <2>2, RequestEnds
  <2> QED BY <1>0, <2>1, <2>3 DEF IInv, TypeOK, SendsCounted, OfficersOnly
<1> QED BY <1>1, <1>2, <1>3, <1>4, <1>5

LEMMA FailKeeps ==
    ASSUME IInv, NEW r \in Requests, Fail(r)
    PROVE  IInv'
<1>0. TypeOK /\ SendsCounted /\ OneInsert /\ OfficersOnly
  BY DEF IInv
<1>1. /\ Answer(r) /\ UNCHANGED <<login, keys, user, sends, wrong>>
      /\ faults < MaxFaults /\ faults' = faults + 1
  BY DEF Fail, Fault
<1>2. faults' \in 0..MaxFaults
  BY <1>0, <1>1, LimitsAssumption DEF TypeOK
<1>3. /\ req' \in [Requests -> [pc : PCs, data : Otps \cup {None}, new : BOOLEAN]]
      /\ OneInsert' /\ \A q \in Requests : RequestInv(q)'
  BY <1>0, <1>1, RequestEnds DEF OneInsert
<1> QED BY <1>0, <1>1, <1>2, <1>3 DEF IInv, TypeOK, SendsCounted, OfficersOnly, keys

\* What happens beside the requests: keys that expire, a deactivation, a new
\* officer.
LEMMA BesideKeeps ==
    ASSUME IInv, OtpExpires \/ RateExpires \/ SessionExpires \/ Deactivate \/ CreateOfficer
    PROVE  IInv'
<1>0. /\ TypeOK /\ SendsCounted /\ OneInsert /\ OfficersOnly
      /\ \A r \in Requests : RequestInv(r)
  BY DEF IInv
<1>1. CASE OtpExpires \/ SessionExpires
  BY <1>0, <1>1 DEF OtpExpires, SessionExpires, IInv, TypeOK, SendsCounted, OneInsert,
                    OfficersOnly, RequestInv
<1>2. CASE RateExpires
  <2>1. /\ rate' = NoKey /\ sends' = 0
        /\ UNCHANGED <<login, wrong, otp, user, session, req, faults>>
    BY <1>2 DEF RateExpires
  <2>2. SendsCounted'
    BY <2>1, NoKeyIsKey, LimitsAssumption DEF SendsCounted
  <2> QED BY <1>0, <2>1, <2>2, NoKeyIsKey
             DEF IInv, TypeOK, OneInsert, OfficersOnly, RequestInv
<1>3. CASE Deactivate \/ CreateOfficer
  <2>1. /\ user' # "none" /\ user' \in {"active", "inactive"}
        /\ UNCHANGED <<login, wrong, otp, rate, session, sends, req, faults>>
        /\ user = "none" => login = "admin"
    BY <1>3 DEF Deactivate, CreateOfficer
  <2>2. \A r \in Requests : ~req[r].new
    BY <1>0, <2>1 DEF OneInsert, RequestInv
  <2> QED BY <1>0, <2>1, <2>2
             DEF IInv, TypeOK, SendsCounted, OneInsert, OfficersOnly, RequestInv
<1> QED BY <1>1, <1>2, <1>3

LEMMA NextIInv == IInv /\ [Next]_vars => IInv'
<1> SUFFICES ASSUME IInv, [Next]_vars PROVE IInv'
  OBVIOUS
<1>1. ASSUME NEW r \in Requests,
             \/ AdminSend(r) \/ AdminVerify(r)
             \/ SendIncr(r)
             \/ \E g \in Guesses : VerifyGet(r, g)
             \/ Handle(r)
             \/ Fail(r)
      PROVE  IInv'
  BY <1>1, SendKeeps, GuessKeeps, VerifiedKeeps, FailKeeps DEF Handle
<1>2. CASE UNCHANGED vars
  BY <1>2 DEF vars, keys, IInv, TypeOK, SendsCounted, OneInsert, OfficersOnly, RequestInv
<1> QED BY <1>1, <1>2, BesideKeeps DEF Next

\* The inductive invariant holds in every reachable state.
THEOREM LoginIInv == Spec => []IInv
BY InitIInv, NextIInv, PTL DEF Spec

\* Type correctness.
THEOREM LoginTypeOK == Spec => []TypeOK
<1>1. IInv => TypeOK
  BY DEF IInv
<1> QED BY <1>1, LoginIInv, PTL

\* At most MAX_SENDS sends are let through while one rate key lives.
THEOREM LoginSendsBounded == Spec => []SendsBounded
<1>1. IInv => SendsBounded
  BY LimitsAssumption DEF IInv, TypeOK, SendsCounted, SendsBounded
<1> QED BY <1>1, LoginIInv, PTL

\* At most one insert of the phone is open, and only where there is no row.
THEOREM LoginOneInsert == Spec => []OneInsert
<1>1. IInv => OneInsert
  BY DEF IInv
<1> QED BY <1>1, LoginIInv, PTL

\* A phone that is no officer's leaves no key and has no session.
THEOREM LoginOfficersOnly == Spec => []OfficersOnly
<1>1. IInv => OfficersOnly
  BY DEF IInv
<1> QED BY <1>1, LoginIInv, PTL
=============================================================================
