-------------------------------- MODULE Login --------------------------------
(***************************************************************************)
(* Login by one-time password for one phone number, over the Redis         *)
(* operations of cache/redis_client.py: the citizens' login                *)
(* (auth/routes.py, users table) or the officers' (admin/auth_routes.py,   *)
(* admin_users table).  The officers' keys are those of "admin:" and the   *)
(* phone, which send-otp accepts as no phone; verify-otp checks no form,   *)
(* and is taken to be asked for a phone.  So the two share no key and no   *)
(* row, and a behaviour is of one of them; login says which.               *)
(*                                                                         *)
(* Every Redis command is atomic; a handler is a sequence of them, and     *)
(* handlers for the same phone overlap.  increment_otp_attempts is GET,    *)
(* TTL, SET: what it writes back is what it read, whatever the key holds   *)
(* by then.                                                                *)
(***************************************************************************)
EXTENDS Naturals, FiniteSets

CONSTANTS
    Requests,       \* slots for requests in flight
    OTP_MAX_WRONG,  \* 3 in the code
    MAX_SENDS,      \* 3 in the code
    Codes,          \* the codes that may be generated
    MaxFaults,      \* bound on failed calls and crashed handlers
    None

ASSUME LimitsAssumption ==
    OTP_MAX_WRONG \in Nat /\ MAX_SENDS \in Nat \ {0} /\ MaxFaults \in Nat

VARIABLES
    login,      \* "user" or "admin"
    otp,        \* otp:{phone}: a code with its wrong attempts, or None
    rate,       \* ratelimit:otp:{phone}: count, and whether a TTL is set
    user,       \* the row of the phone in users or admin_users
    session,    \* session:{user_id}: None, or its is_active
    sends,      \* history: sends let through since the rate key last expired
    wrong,      \* history: wrong guesses compared with a code, since it was sent
    req, faults

keys == <<otp, rate, session>>
vars == <<login, keys, user, sends, wrong, req, faults>>

-----------------------------------------------------------------------------
Guesses == Codes \cup {None}     \* None: six digits that were never sent

NoKey == [count |-> 0, ttl |-> FALSE]

Idle == [pc |-> "idle", data |-> None, new |-> FALSE]

\* Attempts past the limit are capped at one more: the code treats them alike.
Otps == [otp : Codes, attempts : 0..(OTP_MAX_WRONG + 1)]

PCs == {"idle", "send", "expire", "store", "verify", "discard", "incr_get", "incr_set",
        "delete", "user", "insert", "token", "commit"}

ASSUME NoneAssumption == None \notin Otps \cup Codes \cup {"active", "inactive"}

TypeOK ==
    /\ login \in {"user", "admin"}
    /\ otp \in Otps \cup {None}
    /\ rate \in [count : Nat, ttl : BOOLEAN]
    /\ user \in {"none", "active", "inactive"}
    /\ session \in {None, "active", "inactive"}
    /\ sends \in Nat
    /\ wrong \in [Codes -> Nat]
    /\ req \in [Requests -> [pc : PCs, data : Otps \cup {None}, new : BOOLEAN]]
    /\ faults \in 0..MaxFaults

\* A phone nobody has asked for: no key in Redis, no row in the database.
Init ==
    /\ login \in {"user", "admin"}
    /\ otp = None
    /\ rate = NoKey
    /\ user = "none"
    /\ session = None
    /\ sends = 0
    /\ wrong = [c \in Codes |-> 0]
    /\ req = [r \in Requests |-> Idle]
    /\ faults = 0

\* Where a handler begins: the officers' ones look the row up first.
Begins(r, pc) == req[r].pc = IF login = "user" THEN "idle" ELSE pc

Move(r, pc) == req' = [req EXCEPT ![r].pc = pc]
Answer(r) == req' = [req EXCEPT ![r] = Idle]
Fault == faults < MaxFaults /\ faults' = faults + 1

-----------------------------------------------------------------------------
(***************************************************************************)
(* POST /auth/send-otp, POST /admin/auth/send-otp.                         *)
(***************************************************************************)
\* admin_send_otp: a phone that is no officer's is told "OTP sent", and that
\* is all.
AdminSend(r) ==
    /\ login = "admin"
    /\ req[r].pc = "idle"
    /\ user = "active"
    /\ Move(r, "send")
    /\ UNCHANGED <<login, keys, user, sends, wrong, faults>>

\* Mutant: the limit compared with the count before the INCR.
SendIncr_OffByOne(r) ==
    LET n == rate.count + 1
    IN  /\ Begins(r, "send")
        /\ rate' = [rate EXCEPT !.count = IF n > MAX_SENDS THEN MAX_SENDS + 1 ELSE n]
        /\ sends' = IF rate.count <= MAX_SENDS THEN sends + 1 ELSE sends
        /\ \/ n = 1 /\ Move(r, "expire")
           \/ n > 1 /\ rate.count <= MAX_SENDS /\ Move(r, "store")
           \/ n > 1 /\ rate.count > MAX_SENDS /\ Answer(r)
        /\ UNCHANGED <<login, wrong, otp, user, session, faults>>

\* Mutant: the INCR is not followed by EXPIRE.
SendIncr_NoExpire(r) ==
    LET n == rate.count + 1
    IN  /\ Begins(r, "send")
        /\ rate' = [rate EXCEPT !.count = IF n > MAX_SENDS THEN MAX_SENDS + 1 ELSE n]
        /\ sends' = IF n <= MAX_SENDS THEN sends + 1 ELSE sends
        /\ \/ n <= MAX_SENDS /\ Move(r, "store")
           \/ n > MAX_SENDS /\ Answer(r)
        /\ UNCHANGED <<login, wrong, otp, user, session, faults>>

\* check_otp_rate_limit: INCR, which creates the key at 1.  Refused counts
\* are capped at one past the limit.
SendIncr(r) ==
    LET n == rate.count + 1
    IN  /\ Begins(r, "send")
        /\ rate' = [rate EXCEPT !.count = IF n > MAX_SENDS THEN MAX_SENDS + 1 ELSE n]
        /\ sends' = IF n <= MAX_SENDS THEN sends + 1 ELSE sends
        /\ \/ n = 1 /\ Move(r, "expire")
           \/ n > 1 /\ n <= MAX_SENDS /\ Move(r, "store")
           \/ n > 1 /\ n > MAX_SENDS /\ Answer(r)
        /\ UNCHANGED <<login, wrong, otp, user, session, faults>>

\* EXPIRE, by the request that found the key new; a key that is gone again
\* stays gone.
SendExpire(r) ==
    /\ req[r].pc = "expire"
    /\ rate' = IF rate.count > 0 THEN [rate EXCEPT !.ttl = TRUE] ELSE rate
    /\ Move(r, "store")
    /\ UNCHANGED <<login, wrong, otp, user, session, sends, faults>>

\* generate_otp and store_otp: the new code replaces the old one.  Whether
\* Twilio then delivers it changes nothing here.
SendStore(r) ==
    /\ req[r].pc = "store"
    /\ \E c \in Codes :
          /\ otp' = [otp |-> c, attempts |-> 0]
          /\ wrong' = [wrong EXCEPT ![c] = 0]
    /\ Answer(r)
    /\ UNCHANGED <<login, rate, user, session, sends, faults>>

-----------------------------------------------------------------------------
(***************************************************************************)
(* POST /auth/verify-otp, POST /admin/auth/verify-otp.                     *)
(***************************************************************************)
\* admin_verify_otp: a phone that is no officer's is refused.
AdminVerify(r) ==
    /\ login = "admin"
    /\ req[r].pc = "idle"
    /\ user = "active"
    /\ Move(r, "verify")
    /\ UNCHANGED <<login, keys, user, sends, wrong, faults>>

\* get_otp_data, and the three checks on what it returned.
VerifyGet(r, g) ==
    /\ Begins(r, "verify")
    /\ \/ otp = None /\ Answer(r) /\ UNCHANGED wrong
       \/ /\ otp # None
          /\ otp.attempts >= OTP_MAX_WRONG
          /\ Move(r, "discard")
          /\ UNCHANGED wrong
       \/ /\ otp # None
          /\ otp.attempts < OTP_MAX_WRONG
          /\ otp.otp # g
          /\ Move(r, "incr_get")
          /\ wrong' = [wrong EXCEPT ![otp.otp] = @ + 1]
       \/ /\ otp # None
          /\ otp.attempts < OTP_MAX_WRONG
          /\ otp.otp = g
          /\ Move(r, "delete")
          /\ UNCHANGED wrong
    /\ UNCHANGED <<login, keys, user, sends, faults>>

\* delete_otp of a code with too many wrong attempts.
VerifyDiscard(r) ==
    /\ req[r].pc = "discard"
    /\ otp' = None
    /\ Answer(r)
    /\ UNCHANGED <<login, wrong, rate, user, session, sends, faults>>

\* increment_otp_attempts, the GET; nothing to do when the key is gone.
IncrementGet(r) ==
    /\ req[r].pc = "incr_get"
    /\ IF otp = None THEN Answer(r)
       ELSE req' = [req EXCEPT ![r].data = otp, ![r].pc = "incr_set"]
    /\ UNCHANGED <<login, keys, user, sends, wrong, faults>>

\* Mutant: the count is written back as it was read.
Incremented_Not(n) == n

Incremented(n) == IF n > OTP_MAX_WRONG THEN n ELSE n + 1

\* ... and the SET, with the TTL read in between (at least one second, so a
\* key that went away comes back).
IncrementSet(r) ==
    /\ req[r].pc = "incr_set"
    /\ otp' = [req[r].data EXCEPT !.attempts = Incremented(@)]
    /\ Answer(r)
    /\ UNCHANGED <<login, wrong, rate, user, session, sends, faults>>

\* delete_otp of the code that matched; an officer's row is known by then.
VerifyDelete(r) ==
    /\ req[r].pc = "delete"
    /\ otp' = None
    /\ Move(r, IF login = "user" THEN "user" ELSE "token")
    /\ UNCHANGED <<login, wrong, rate, user, session, sends, faults>>

\* get_user_by_phone: a new user is inserted, an inactive one is refused.
VerifyUser(r) ==
    /\ req[r].pc = "user"
    /\ \/ user = "inactive" /\ Answer(r)
       \/ user = "active" /\ Move(r, "token")
       \/ user = "none" /\ Move(r, "insert")
    /\ UNCHANGED <<login, keys, user, sends, wrong, faults>>

\* Mutant: a conflicting insert is tried until it succeeds.
VerifyInsert_WaitsForever(r) ==
    /\ req[r].pc = "insert"
    /\ ~\E q \in Requests : req[q].new
    /\ user = "none"
    /\ req' = [req EXCEPT ![r].new = TRUE, ![r].pc = "token"]
    /\ UNCHANGED <<login, keys, user, sends, wrong, faults>>

\* create_user: the unique phone makes a second insert wait for the first and
\* then fail, which leaves the handler as an error.
VerifyInsert(r) ==
    /\ req[r].pc = "insert"
    /\ ~\E q \in Requests : req[q].new
    /\ \/ user # "none" /\ Answer(r)
       \/ user = "none" /\ req' = [req EXCEPT ![r].new = TRUE, ![r].pc = "token"]
    /\ UNCHANGED <<login, keys, user, sends, wrong, faults>>

\* create_and_cache_token writes the session before the transaction commits.
VerifyToken(r) ==
    /\ req[r].pc = "token"
    /\ session' = "active"
    /\ Move(r, "commit")
    /\ UNCHANGED <<login, wrong, otp, rate, user, sends, faults>>

VerifyCommit(r) ==
    /\ req[r].pc = "commit"
    /\ user' = IF req[r].new THEN "active" ELSE user
    /\ Answer(r)
    /\ UNCHANGED <<login, wrong, otp, rate, session, sends, faults>>

-----------------------------------------------------------------------------
\* A Redis or database call fails, or the process dies under the handler.
Fail(r) ==
    /\ req[r].pc # "idle"
    /\ Fault
    /\ Answer(r)
    /\ UNCHANGED <<login, keys, user, sends, wrong>>

\* Ten minutes, one hour and one day have passed.
OtpExpires ==
    /\ otp # None
    /\ otp' = None
    /\ UNCHANGED <<login, wrong, rate, user, session, sends, req, faults>>

RateExpires ==
    /\ rate.ttl
    /\ rate' = NoKey
    /\ sends' = 0
    /\ UNCHANGED <<login, wrong, otp, user, session, req, faults>>

SessionExpires ==
    /\ session # None
    /\ session' = None
    /\ UNCHANGED <<login, wrong, otp, rate, user, sends, req, faults>>

\* The poller stores a FRAUD verdict (deactivate_user): the users row only.
Deactivate ==
    /\ login = "user"
    /\ user = "active"
    /\ user' = "inactive"
    /\ UNCHANGED <<login, wrong, otp, rate, session, sends, req, faults>>

\* A super-admin creates the officer (create_officer): the phone is unique.
CreateOfficer ==
    /\ login = "admin"
    /\ user = "none"
    /\ user' = "active"
    /\ UNCHANGED <<login, wrong, otp, rate, session, sends, req, faults>>

Handle(r) ==
    \/ req[r].pc = "send" /\ SendIncr(r)
    \/ req[r].pc = "verify" /\ \E g \in Guesses : VerifyGet(r, g)
    \/ SendExpire(r) \/ SendStore(r)
    \/ VerifyDiscard(r) \/ IncrementGet(r) \/ IncrementSet(r)
    \/ VerifyDelete(r) \/ VerifyUser(r) \/ VerifyInsert(r) \/ VerifyToken(r) \/ VerifyCommit(r)

Next ==
    \/ \E r \in Requests :
          \/ AdminSend(r) \/ AdminVerify(r)
          \/ SendIncr(r)
          \/ \E g \in Guesses : VerifyGet(r, g)
          \/ Handle(r)
          \/ Fail(r)
    \/ OtpExpires \/ RateExpires \/ SessionExpires \/ Deactivate \/ CreateOfficer

Spec == Init /\ [][Next]_vars

\* Handlers keep running and a TTL that was set runs out.
FairSpec == Spec /\ WF_vars(RateExpires) /\ \A r \in Requests : WF_vars(Handle(r))

-----------------------------------------------------------------------------
(***************************************************************************)
(* Properties.                                                             *)
(***************************************************************************)
\* "max 3 OTP sends per hour per phone": the requests let through while one
\* rate key lives are at most MAX_SENDS, however they overlap.
SendsBounded == sends <= MAX_SENDS

\* Two verifications of one code that both read it before either deletes it
\* do not create the user twice: at most one insert is open, and only while
\* there is no user.
OneInsert ==
    /\ \A q, r \in Requests : req[q].new /\ req[r].new => q = r
    /\ (\E r \in Requests : req[r].new) => user = "none"

\* "OTP only actually stored for valid admins": a phone without a row leaves
\* no key behind, and never has a session.
OfficersOnly ==
    login = "admin" /\ user = "none" => otp = None /\ rate = NoKey /\ session = None

\* The sends let through are the count of the rate key, up to the limit.
SendsCounted ==
    /\ rate.count <= MAX_SENDS + 1
    /\ sends = IF rate.count <= MAX_SENDS THEN rate.count ELSE MAX_SENDS

\* What a request in flight knows: only users are inserted, only between the
\* insert and the commit, only officers' rows are looked up first, and a count
\* is written back only after it was read.
RequestInv(r) ==
    /\ req[r].new => login = "user" /\ req[r].pc \in {"token", "commit"}
    /\ req[r].pc \in {"user", "insert"} => login = "user"
    /\ req[r].pc \in {"send", "verify"} => login = "admin"
    /\ login = "admin" /\ req[r].pc # "idle" => user # "none"
    /\ req[r].pc = "incr_set" => req[r].data # None

\* The inductive invariant.
IInv ==
    /\ TypeOK /\ SendsCounted /\ OneInsert /\ OfficersOnly
    /\ \A r \in Requests : RequestInv(r)

\* The most wrong guesses at a code that is left so many more, by n requests
\* at a time: the one of the slowest, those of the others until it counts,
\* which it undoes, and those from the next count on.
MostGuesses[n \in 0..Cardinality(Requests), left \in 0..OTP_MAX_WRONG] ==
    IF n = 0 \/ left = 0 THEN 0
    ELSE 1 + MostGuesses[n - 1, left] + MostGuesses[n, left - 1]

\* The GET and SET of the count lose updates: a code survives more wrong
\* guesses than OTP_MAX_WRONG, the more the more requests guess at a time,
\* but not without end; a handler that fails counts none.
GuessesBounded ==
    \A c \in Codes :
        wrong[c] <= MostGuesses[Cardinality(Requests), OTP_MAX_WRONG] + faults

\* "Too many wrong attempts. Request a new OTP.", at OTP_MAX_WRONG of them.
GuessesWithinLimit == \A c \in Codes : wrong[c] <= OTP_MAX_WRONG

\* "attempts (int 0-3)": they stay within the limit.
AttemptsInRange == otp # None => otp.attempts <= OTP_MAX_WRONG

\* "Increment wrong OTP attempt counter" (HINCRBY in the design): counting a
\* wrong attempt leaves the stored code as it is.
IncrementKeepsCode ==
    [][\A r \in Requests : IncrementSet(r) /\ otp # None => otp'.otp = otp.otp]_vars

\* "Check Redis for is_active (catches FRAUD deactivation without re-login)":
\* the cached session of a deactivated user comes to say so.
DeactivationReachesSession ==
    user = "inactive" /\ session = "active" ~> session = "inactive"

\* "Try again in an hour": a phone that used up its sends may send again,
\* whichever requests overlapped when the key was made.
RateLimitLifts == rate.count >= MAX_SENDS ~> rate.count = 0 \/ faults > 0

\* The same, after a handler that died between INCR and EXPIRE.
RateLimitAlwaysLifts == rate.count >= MAX_SENDS ~> rate.count = 0

\* Every request is answered; waiting for another insert of the same phone
\* ends.
EveryRequestAnswered == \A r \in Requests : req[r].pc # "idle" ~> req[r].pc = "idle"
=============================================================================
