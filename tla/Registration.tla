---------------------------- MODULE Registration ----------------------------
(***************************************************************************)
(* POST /register/face and POST /register/aadhaar (registration/routes.py, *)
(* registration/face.py), statement by statement against PostgreSQL: a     *)
(* request is one transaction, it reads what others have committed, its    *)
(* writes are seen when it commits, and it holds the row and the unique    *)
(* keys it writes until it ends.  A statement that fails leaves the        *)
(* transaction aborted: later statements fail, and COMMIT rolls back.      *)
(***************************************************************************)
EXTENDS Integers, FiniteSets

CONSTANTS
    Users,
    Faces,      \* the embeddings the videos give
    Similar,    \* the pairs of embeddings at or above the threshold
    Numbers,    \* well-formed Aadhaar numbers
    Requests,   \* the handlers that can run at once
    MaxFaults,  \* bound on failed statements, commits and cache writes
    None

ASSUME SimilarAssumption ==
    /\ Similar \subseteq Faces \X Faces
    /\ \A f \in Faces : <<f, f>> \in Similar
    /\ \A f, g \in Faces : <<f, g>> \in Similar => <<g, f>> \in Similar

ASSUME FaultsAssumption == MaxFaults \in Nat
ASSUME NoneAssumption == None \notin Users \cup Faces \cup Numbers \cup {"face", "aadhaar", "token"}

VARIABLES
    users,    \* the committed rows: face_hash, face_embedding, aadhaar_number
    session,  \* is_registered in the cached session
    req,
    faults

vars == <<users, session, req, faults>>

-----------------------------------------------------------------------------
NoRow == [hash |-> None, embedding |-> None, aadhaar |-> None]
Columns == {"hash", "embedding", "aadhaar"}

FaceRegistered(u) == users[u].hash # None
IsRegistered(u) == users[u].aadhaar # None

\* The hash is of the float32 bytes, in every strategy: equal embeddings and
\* no others have equal hashes.  A row keeps the embedding its hash is of.
SameHash(f, g) == f = g

Idle == [pc |-> "idle", kind |-> None, user |-> None, item |-> None,
         wrote |-> {}, aborted |-> FALSE, skipped |-> FALSE, answer |-> None]

FaceSteps == {"hash", "similar", "update", "embed"}
AadhaarSteps == {"number", "verify", "store", "token"}

Handlers ==
    [pc : FaceSteps \cup AadhaarSteps \cup {"idle", "commit"},
     kind : {None, "face", "aadhaar"}, user : Users \cup {None},
     item : Faces \cup Numbers \cup {None}, wrote : SUBSET Columns,
     aborted : BOOLEAN, skipped : BOOLEAN,
     answer : {None, "already", "error", "duplicate", "registered", "token"}]

Rows == [hash : Faces \cup {None}, embedding : Faces \cup {None}, aadhaar : Numbers \cup {None}]

TypeOK ==
    /\ users \in [Users -> Rows]
    /\ session \in [Users -> BOOLEAN]
    /\ req \in [Requests -> Handlers]
    /\ faults \in 0..MaxFaults

Init ==
    /\ users = [u \in Users |-> NoRow]
    /\ session = [u \in Users |-> FALSE]
    /\ req = [r \in Requests |-> Idle]
    /\ faults = 0

-----------------------------------------------------------------------------
At(r, pc) == req[r].pc = pc
Move(r, pc) == req' = [req EXCEPT ![r].pc = pc]

\* The transaction ends, and with it its locks.
Answer(r, answer) ==
    req' = [req EXCEPT ![r].pc = "idle", ![r].wrote = {}, ![r].aborted = FALSE,
                       ![r].answer = answer]

Fault == faults < MaxFaults /\ faults' = faults + 1
Data == <<users, session>>

\* No other transaction holds the row of r's user or the key r would write.
Free(r) ==
    \A q \in Requests \ {r} : req[q].wrote # {} =>
        /\ req[q].user # req[r].user
        /\ req[q].item # req[r].item

Begin(r, kind, u, item) ==
    [Idle EXCEPT !.kind = kind, !.user = u, !.item = item]

-----------------------------------------------------------------------------
(***************************************************************************)
(* POST /register/face.                                                    *)
(***************************************************************************)
\* The video is read and its best frame embedded, without a pause.
BeginFace(r, u, f) ==
    /\ At(r, "idle")
    /\ req' = [req EXCEPT ![r] =
                 IF FaceRegistered(u)
                 THEN [Begin(r, "face", u, f) EXCEPT !.answer = "already"]
                 ELSE [Begin(r, "face", u, f) EXCEPT !.pc = "hash"]]
    /\ UNCHANGED <<Data, faults>>

\* The format, the size, the frames or the embedding are no good.
BeginFaceRejected(r, u, f) ==
    /\ At(r, "idle")
    /\ ~FaceRegistered(u)
    /\ req' = [req EXCEPT ![r] = [Begin(r, "face", u, f) EXCEPT !.answer = "error"]]
    /\ UNCHANGED <<Data, faults>>

CheckHash(r) ==
    /\ At(r, "hash")
    /\ IF \E v \in Users \ {req[r].user} :
            FaceRegistered(v) /\ SameHash(users[v].hash, req[r].item)
       THEN Answer(r, "duplicate")
       ELSE Move(r, "similar")
    /\ UNCHANGED <<Data, faults>>

\* The nearest embedding stored, of whichever user, reaches the threshold.
Nearest(f) ==
    \E v \in Users :
        /\ users[v].embedding # None
        /\ <<users[v].embedding, f>> \in Similar

CheckSimilar(r) ==
    /\ At(r, "similar")
    /\ IF Nearest(req[r].item) THEN Answer(r, "duplicate") ELSE Move(r, "update")
    /\ UNCHANGED <<Data, faults>>

\* The exception is caught: "skipping vector check".
CheckSimilarFails(r) ==
    /\ At(r, "similar")
    /\ Fault
    /\ req' = [req EXCEPT ![r].pc = "update", ![r].aborted = TRUE, ![r].skipped = TRUE]
    /\ UNCHANGED Data

\* update_user_face: fails in an aborted transaction, waits for whoever holds
\* the row or the hash, and meets the unique constraint.
UpdateFace(r) ==
    /\ At(r, "update")
    /\ \/ req[r].aborted /\ Answer(r, "error")
       \/ /\ ~req[r].aborted
          /\ Free(r)
          /\ IF \E v \in Users \ {req[r].user} : users[v].hash = req[r].item
             THEN Answer(r, "error")
             ELSE req' = [req EXCEPT ![r].pc = "embed", ![r].wrote = {"hash"}]
    /\ UNCHANGED <<Data, faults>>

StoreEmbedding(r) ==
    /\ At(r, "embed")
    /\ req' = [req EXCEPT ![r].pc = "commit", ![r].wrote = @ \cup {"embedding"}]
    /\ UNCHANGED <<Data, faults>>

\* Mutant: the failed statement is undone alone, as with a savepoint.
StoreEmbeddingFails_Savepoint(r) ==
    /\ At(r, "embed")
    /\ Fault
    /\ Move(r, "commit")
    /\ UNCHANGED Data

\* The exception is caught: "embedding not stored".
StoreEmbeddingFails(r) ==
    /\ At(r, "embed")
    /\ Fault
    /\ req' = [req EXCEPT ![r].pc = "commit", ![r].aborted = TRUE]
    /\ UNCHANGED Data

-----------------------------------------------------------------------------
(***************************************************************************)
(* POST /register/aadhaar.                                                 *)
(***************************************************************************)
BeginAadhaar(r, u, n) ==
    /\ At(r, "idle")
    /\ req' = [req EXCEPT ![r] =
                 IF ~FaceRegistered(u)
                 THEN [Begin(r, "aadhaar", u, n) EXCEPT !.answer = "error"]
                 ELSE IF IsRegistered(u)
                 THEN [Begin(r, "aadhaar", u, n) EXCEPT !.answer = "token"]
                 ELSE [Begin(r, "aadhaar", u, n) EXCEPT !.pc = "number"]]
    /\ session' = [session EXCEPT ![u] = @ \/ IsRegistered(u)]
    /\ UNCHANGED <<users, faults>>

CheckNumber(r) ==
    /\ At(r, "number")
    /\ IF \E v \in Users \ {req[r].user} : users[v].aadhaar = req[r].item
       THEN Answer(r, "duplicate")
       ELSE Move(r, "verify")
    /\ UNCHANGED <<Data, faults>>

\* The provider answers valid; or it answers invalid, or fails.
Verify(r) ==
    /\ At(r, "verify")
    /\ Move(r, "store") \/ Answer(r, "error")
    /\ UNCHANGED <<Data, faults>>

\* Mutant: the column is not unique.
UpdateAadhaar_NotUnique(r) ==
    /\ At(r, "store")
    /\ Free(r)
    /\ req' = [req EXCEPT ![r].pc = "token", ![r].wrote = {"aadhaar"}]
    /\ UNCHANGED <<Data, faults>>

UpdateAadhaar(r) ==
    /\ At(r, "store")
    /\ Free(r)
    /\ IF \E v \in Users \ {req[r].user} : users[v].aadhaar = req[r].item
       THEN Answer(r, "error")
       ELSE req' = [req EXCEPT ![r].pc = "token", ![r].wrote = {"aadhaar"}]
    /\ UNCHANGED <<Data, faults>>

CacheToken(r) ==
    /\ At(r, "token")
    /\ session' = [session EXCEPT ![req[r].user] = TRUE]
    /\ Move(r, "commit")
    /\ UNCHANGED <<users, faults>>

\* The exception reaches get_db, which rolls back.
CacheTokenFails(r) ==
    /\ At(r, "token")
    /\ Fault
    /\ Answer(r, "error")
    /\ UNCHANGED Data

-----------------------------------------------------------------------------
Success(r) == IF req[r].kind = "face" THEN "registered" ELSE "token"

Row(r) ==
    LET old == users[req[r].user]
    IN  [hash      |-> IF "hash" \in req[r].wrote THEN req[r].item ELSE old.hash,
         embedding |-> IF "embedding" \in req[r].wrote THEN req[r].item ELSE old.embedding,
         aadhaar   |-> IF "aadhaar" \in req[r].wrote THEN req[r].item ELSE old.aadhaar]

\* Mutant: the transaction of a request that succeeded never ends.
Commit_KeepsLocks(r) ==
    /\ At(r, "commit")
    /\ users' = IF req[r].aborted THEN users ELSE [users EXCEPT ![req[r].user] = Row(r)]
    /\ req' = [req EXCEPT ![r].pc = "idle", ![r].answer = Success(r)]
    /\ UNCHANGED <<session, faults>>

\* COMMIT of an aborted transaction rolls back and reports no error.
Commit(r) ==
    /\ At(r, "commit")
    /\ users' = IF req[r].aborted THEN users ELSE [users EXCEPT ![req[r].user] = Row(r)]
    /\ Answer(r, Success(r))
    /\ UNCHANGED <<session, faults>>

\* Mutant: the answer has left before the commit.
CommitFails_Answered(r) ==
    /\ At(r, "commit")
    /\ Fault
    /\ Answer(r, Success(r))
    /\ UNCHANGED Data

CommitFails(r) ==
    /\ At(r, "commit")
    /\ Fault
    /\ Answer(r, "error")
    /\ UNCHANGED Data

-----------------------------------------------------------------------------
Update(r) == UpdateFace(r) \/ UpdateAadhaar(r)

Handle(r) ==
    \/ CheckHash(r) \/ CheckSimilar(r) \/ StoreEmbedding(r)
    \/ CheckNumber(r) \/ Verify(r) \/ CacheToken(r) \/ Commit(r)

Next ==
    \E r \in Requests :
        \/ \E u \in Users, f \in Faces : BeginFace(r, u, f) \/ BeginFaceRejected(r, u, f)
        \/ \E u \in Users, n \in Numbers : BeginAadhaar(r, u, n)
        \/ Handle(r) \/ Update(r)
        \/ CheckSimilarFails(r) \/ StoreEmbeddingFails(r) \/ CacheTokenFails(r)
        \/ CommitFails(r)

Spec == Init /\ [][Next]_vars

\* Handlers run, and PostgreSQL grants a lock to whoever keeps waiting.
FairSpec == Spec /\ \A r \in Requests : WF_vars(Handle(r)) /\ SF_vars(Update(r))

-----------------------------------------------------------------------------
(***************************************************************************)
(* Properties.                                                             *)
(***************************************************************************)
\* What the similarity check searches and what the hash check searches are of
\* the same video, whatever failed and whoever registered at the same time.
EmbeddingMatchesHash == \A u \in Users : users[u].embedding = users[u].hash

\* No Aadhaar step without the face step, in whatever order requests overlap.
FaceFirst == \A u \in Users : IsRegistered(u) => FaceRegistered(u)

\* Two accounts never share a number, also when both checks came first.
OneAccountPerNumber ==
    \A u, v \in Users : IsRegistered(u) /\ users[u].aadhaar = users[v].aadhaar => u = v

\* The full token is in the client's hands only when the account is
\* registered, with a number that got through.
TokenIsEarned == \A r \in Requests : req[r].answer = "token" => IsRegistered(req[r].user)

\* One account per face: no two accounts have similar faces.
FacesUnique ==
    \A u, v \in Users :
        u # v /\ users[u].embedding # None /\ users[v].embedding # None
            => <<users[u].embedding, users[v].embedding>> \notin Similar

\* "face already registered to another account": there is such an account.
RejectedHasConflict ==
    \A r \in Requests : req[r].answer = "duplicate" =>
        \E v \in Users \ {req[r].user} :
            \/ users[v].aadhaar = req[r].item
            \/ <<users[v].embedding, req[r].item>> \in Similar

\* "Face already registered - skipping": a face and a number, once
\* registered, stay as they are.
RegisteredIsFinal ==
    [][\A u \in Users : /\ FaceRegistered(u) => users'[u].hash = users[u].hash
                        /\ IsRegistered(u) => users'[u].aadhaar = users[u].aadhaar]_vars

\* "Store embedding + hash if unique": the answer says so, and so it is.
AnswerIsStored ==
    \A r \in Requests : req[r].answer = "registered" => FaceRegistered(req[r].user)

\* "pgvector not installed or extension not enabled - skip similarity check":
\* a request that skips the check goes on, and does not fail for it.
SkippedCheckGoesOn == \A r \in Requests : req[r].skipped => req[r].answer # "error"

\* A full session, once nothing is under way, is of a registered user.
FullSessionIsEarned ==
    \A u \in Users :
        session[u] /\ (\A r \in Requests : req[r].user = u => At(r, "idle")) => IsRegistered(u)

\* Requests that wait for one another's rows and keys all get their answer.
EveryRequestAnswered == \A r \in Requests : ~At(r, "idle") ~> At(r, "idle")

-----------------------------------------------------------------------------
\* The strengthening that is inductive: what a handler is about to write was
\* free when it took the row and the key, and they are its own until it ends.

\* A handler works on one account and one item, of the kind its route has.
HandlerOf(r) ==
    /\ req[r].pc \in FaceSteps \/ (At(r, "commit") /\ req[r].kind = "face") =>
          req[r].kind = "face" /\ req[r].user \in Users /\ req[r].item \in Faces
    /\ req[r].pc \in AadhaarSteps \/ (At(r, "commit") /\ req[r].kind # "face") =>
          /\ req[r].kind = "aadhaar" /\ req[r].user \in Users /\ req[r].item \in Numbers
          /\ FaceRegistered(req[r].user)
    /\ req[r].aborted => req[r].kind = "face"

\* What a transaction has written, by where it is; a failed statement aborts.
WroteSoFar(r) ==
    /\ req[r].wrote = {} <=> req[r].pc \notin {"embed", "token", "commit"}
    /\ At(r, "embed") => req[r].wrote = {"hash"}
    /\ At(r, "token") => req[r].wrote = {"aadhaar"}
    /\ At(r, "commit") /\ req[r].kind = "aadhaar" => req[r].wrote = {"aadhaar"}
    /\ At(r, "commit") /\ req[r].kind = "face" =>
          req[r].aborted \/ req[r].wrote = {"hash", "embedding"}

\* The row and the key a transaction holds are nobody else's.
KeysHeld ==
    /\ \A q, r \in Requests : q # r /\ req[q].wrote # {} /\ req[r].wrote # {} =>
          req[q].user # req[r].user /\ req[q].item # req[r].item
    /\ \A r \in Requests : req[r].wrote = {"aadhaar"} =>
          \A v \in Users \ {req[r].user} : users[v].aadhaar # req[r].item

\* All of it: what is committed, and what open transactions will commit.
TxInv ==
    /\ users \in [Users -> Rows] /\ req \in [Requests -> Handlers]
    /\ \A r \in Requests : HandlerOf(r) /\ WroteSoFar(r)
    /\ KeysHeld
    /\ EmbeddingMatchesHash /\ FaceFirst /\ OneAccountPerNumber /\ TokenIsEarned

\* The inductive invariant: types, and rows and keys held by whoever writes them.
IInv == TypeOK /\ TxInv

=============================================================================
