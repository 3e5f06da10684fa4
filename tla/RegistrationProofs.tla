------------------------- MODULE RegistrationProofs -------------------------
(***************************************************************************)
(* Proofs about Registration, for any accounts, faces, numbers, similarity *)
(* and any number of overlapping requests and faults.  The inductive       *)
(* invariant is IInv of Registration: a transaction that has written holds *)
(* its row and its key, and found the key unused when it took it; nobody   *)
(* can use it until the transaction ends.                                  *)
(***************************************************************************)
EXTENDS Registration, TLAPS

-----------------------------------------------------------------------------
LEMMA InitTxInv == Init => TxInv
<1> SUFFICES ASSUME Init PROVE TxInv
  OBVIOUS
<1>1. users \in [Users -> Rows] /\ req \in [Requests -> Handlers]
  BY DEF Init, NoRow, Idle, Rows, Handlers, Columns
<1>2. \A r \in Requests : HandlerOf(r) /\ WroteSoFar(r)
  BY DEF Init, Idle, HandlerOf, WroteSoFar, At, FaceSteps, AadhaarSteps
<1>3. KeysHeld
  BY DEF Init, Idle, KeysHeld
<1>4. EmbeddingMatchesHash /\ FaceFirst /\ OneAccountPerNumber /\ TokenIsEarned
  BY NoneAssumption DEF Init, NoRow, Idle, EmbeddingMatchesHash, FaceFirst,
     OneAccountPerNumber, TokenIsEarned, IsRegistered, FaceRegistered
<1> QED BY <1>1, <1>2, <1>3, <1>4 DEF TxInv

-----------------------------------------------------------------------------
(***************************************************************************)
(* Steps that commit nothing.                                              *)
(***************************************************************************)
\* One handler moves to v.  What v holds must be held by nobody else and be
\* unused; an answer that carries the token needs a registered account.
LEMMA HandlerMoves ==
    ASSUME TxInv, users' = users, NEW r \in Requests, NEW v \in Handlers,
           req' = [req EXCEPT ![r] = v], HandlerOf(r)', WroteSoFar(r)',
           v.wrote # {} => \A q \in Requests \ {r} : req[q].wrote # {} =>
                              req[q].user # v.user /\ req[q].item # v.item,
           v.wrote = {"aadhaar"} => \A w \in Users \ {v.user} : users[w].aadhaar # v.item,
           v.answer = "token" => users[v.user].aadhaar # None
    PROVE  TxInv'
<1>1. req \in [Requests -> Handlers] /\ users \in [Users -> Rows]
  BY DEF TxInv
<1>2. \A q \in Requests : req'[q] = IF q = r THEN v ELSE req[q]
  BY <1>1
<1>3. users' \in [Users -> Rows] /\ req' \in [Requests -> Handlers]
  BY <1>1
<1>4. \A q \in Requests : HandlerOf(q)' /\ WroteSoFar(q)'
  <2> SUFFICES ASSUME NEW q \in Requests, q # r
               PROVE  HandlerOf(q)' /\ WroteSoFar(q)'
    OBVIOUS
  <2>1. req'[q] = req[q] /\ HandlerOf(q) /\ WroteSoFar(q)
    BY <1>2 DEF TxInv
  <2> QED BY <2>1 DEF HandlerOf, WroteSoFar, At, FaceRegistered
<1>5. KeysHeld'
  <2>1. \A q, p \in Requests : q # p /\ req'[q].wrote # {} /\ req'[p].wrote # {} =>
           req'[q].user # req'[p].user /\ req'[q].item # req'[p].item
    BY <1>2 DEF TxInv, KeysHeld
  <2>2. \A q \in Requests : req'[q].wrote = {"aadhaar"} =>
           \A w \in Users \ {req'[q].user} : users'[w].aadhaar # req'[q].item
    BY <1>2 DEF TxInv, KeysHeld
  <2> QED BY <2>1, <2>2 DEF KeysHeld
<1>6. EmbeddingMatchesHash' /\ FaceFirst' /\ OneAccountPerNumber'
  BY DEF TxInv, EmbeddingMatchesHash, FaceFirst, OneAccountPerNumber, IsRegistered, FaceRegistered
<1>7. TokenIsEarned'
  BY <1>2 DEF TxInv, TokenIsEarned, IsRegistered
<1> QED BY <1>3, <1>4, <1>5, <1>6, <1>7 DEF TxInv

\* A handler that answers, with anything but the token, lets go of its keys.
LEMMA AnswerKeeps ==
    ASSUME TxInv, users' = users, NEW r \in Requests,
           NEW a \in {"error", "duplicate", "registered"}, Answer(r, a)
    PROVE  TxInv'
<1> DEFINE v == [req[r] EXCEPT !.pc = "idle", !.wrote = {}, !.aborted = FALSE, !.answer = a]
<1>1. req[r] \in Handlers
  BY DEF TxInv
<1>2. req' = [req EXCEPT ![r] = v] /\ v \in Handlers
  BY <1>1 DEF Answer, TxInv, Handlers
<1>3. v.pc = "idle" /\ v.wrote = {} /\ v.aborted = FALSE /\ v.answer = a
  BY <1>1 DEF Handlers
<1> HIDE DEF v
<1>4. req'[r] = v
  BY <1>2 DEF TxInv
<1>5. HandlerOf(r)' /\ WroteSoFar(r)'
  BY <1>3, <1>4 DEF HandlerOf, WroteSoFar, At, FaceSteps, AadhaarSteps
<1> QED BY <1>2, <1>3, <1>5, HandlerMoves

\* A handler that goes on without writing: account and item stay.
LEMMA MoveKeeps ==
    ASSUME TxInv, users' = users, NEW r \in Requests, NEW pc,
           \/ req[r].pc \in FaceSteps /\ pc \in {"similar", "update"}
           \/ req[r].pc \in AadhaarSteps /\ pc \in {"verify", "store"},
           req[r].wrote = {}, Move(r, pc)
    PROVE  TxInv'
<1> DEFINE v == [req[r] EXCEPT !.pc = pc]
<1>1. req[r] \in Handlers /\ HandlerOf(r)
  BY DEF TxInv
<1>2. req' = [req EXCEPT ![r] = v] /\ v \in Handlers
  BY <1>1 DEF Move, TxInv, Handlers, FaceSteps, AadhaarSteps
<1>3. /\ v.pc = pc /\ v.kind = req[r].kind /\ v.user = req[r].user /\ v.item = req[r].item
      /\ v.wrote = {} /\ v.aborted = req[r].aborted /\ v.answer = req[r].answer
  BY <1>1 DEF Handlers
<1> HIDE DEF v
<1>4. req'[r] = v
  BY <1>2 DEF TxInv
<1>5. HandlerOf(r)' /\ WroteSoFar(r)'
  BY <1>1, <1>3, <1>4 DEF HandlerOf, WroteSoFar, At, FaceSteps, AadhaarSteps, FaceRegistered
<1>6. v.answer = "token" => users[v.user].aadhaar # None
  BY <1>3 DEF TxInv, TokenIsEarned, IsRegistered
<1> QED BY <1>2, <1>3, <1>5, <1>6, HandlerMoves

\* A request begins: it works on one account, or is answered at once.
LEMMA IdleFields ==
    /\ Idle \in Handlers /\ Idle.pc = "idle" /\ Idle.wrote = {} /\ Idle.aborted = FALSE
    /\ Idle.answer = None
BY DEF Idle, Handlers

LEMMA BeginKeeps ==
    ASSUME TxInv, users' = users, NEW r \in Requests, NEW v \in Handlers,
           req' = [req EXCEPT ![r] = v], v.pc \in {"idle", "hash", "number"},
           v.user \in Users, v.wrote = {}, v.aborted = FALSE,
           v.pc = "hash" => v.kind = "face" /\ v.item \in Faces,
           v.pc = "number" => v.kind = "aadhaar" /\ v.item \in Numbers /\ FaceRegistered(v.user),
           v.answer = "token" => IsRegistered(v.user)
    PROVE  TxInv'
<1>1. req'[r] = v
  BY DEF TxInv
<1>2. HandlerOf(r)'
  BY <1>1 DEF HandlerOf, At, FaceSteps, AadhaarSteps, FaceRegistered
<1>3. WroteSoFar(r)'
  BY <1>1 DEF WroteSoFar, At
<1>4. v.answer = "token" => users[v.user].aadhaar # None
  BY DEF IsRegistered
<1> QED BY <1>2, <1>3, <1>4, HandlerMoves

LEMMA BeginFaceKeeps ==
    ASSUME TxInv, NEW r \in Requests, NEW u \in Users, NEW f \in Faces,
           BeginFace(r, u, f) \/ BeginFaceRejected(r, u, f)
    PROVE  TxInv'
<1>1. PICK b : b = Begin(r, "face", u, f)
  OBVIOUS
<1>2. /\ b \in Handlers /\ b.pc = "idle" /\ b.kind = "face" /\ b.user = u /\ b.item = f
      /\ b.wrote = {} /\ b.aborted = FALSE /\ b.answer = None
  BY <1>1, IdleFields DEF Begin, Handlers
<1>3. PICK v \in {[b EXCEPT !.answer = "already"], [b EXCEPT !.answer = "error"],
                  [b EXCEPT !.pc = "hash"]} : req' = [req EXCEPT ![r] = v]
  BY <1>1 DEF BeginFace, BeginFaceRejected
<1>4. /\ v \in Handlers /\ v.pc \in {"idle", "hash"} /\ v.kind = "face" /\ v.user = u
      /\ v.item = f /\ v.wrote = {} /\ v.aborted = FALSE /\ v.answer \in {"already", "error", None}
  BY <1>2, <1>3 DEF Handlers, FaceSteps
<1>5. users' = users
  BY DEF BeginFace, BeginFaceRejected, Data
<1> QED BY <1>3, <1>4, <1>5, BeginKeeps, NoneAssumption

LEMMA BeginAadhaarKeeps ==
    ASSUME TxInv, NEW r \in Requests, NEW u \in Users, NEW n \in Numbers, BeginAadhaar(r, u, n)
    PROVE  TxInv'
<1>1. PICK b : b = Begin(r, "aadhaar", u, n)
  OBVIOUS
<1>2. /\ b \in Handlers /\ b.pc = "idle" /\ b.kind = "aadhaar" /\ b.user = u /\ b.item = n
      /\ b.wrote = {} /\ b.aborted = FALSE /\ b.answer = None
  BY <1>1, IdleFields DEF Begin, Handlers
<1>3. \E v \in {[b EXCEPT !.answer = "error"], [b EXCEPT !.answer = "token"],
                [b EXCEPT !.pc = "number"]} :
        /\ req' = [req EXCEPT ![r] = v]
        /\ v = [b EXCEPT !.answer = "token"] => IsRegistered(u)
        /\ v = [b EXCEPT !.pc = "number"] => FaceRegistered(u)
  <2>1. CASE ~FaceRegistered(u)
    <3>1. req' = [req EXCEPT ![r] = [b EXCEPT !.answer = "error"]]
      BY <1>1, <2>1 DEF BeginAadhaar
    <3>2. /\ [b EXCEPT !.answer = "error"].answer = "error"
          /\ [b EXCEPT !.answer = "token"].answer = "token"
          /\ [b EXCEPT !.pc = "number"].answer = None
      BY <1>2 DEF Handlers
    <3>3. [b EXCEPT !.answer = "error"].pc = "idle" /\ [b EXCEPT !.pc = "number"].pc = "number"
      BY <1>2 DEF Handlers
    <3> QED BY <3>1, <3>2, <3>3
  <2>2. CASE FaceRegistered(u) /\ IsRegistered(u)
    BY <1>1, <2>2 DEF BeginAadhaar
  <2>3. CASE FaceRegistered(u) /\ ~IsRegistered(u)
    <3>1. req' = [req EXCEPT ![r] = [b EXCEPT !.pc = "number"]]
      BY <1>1, <2>3 DEF BeginAadhaar
    <3>2. [b EXCEPT !.answer = "token"].pc = "idle" /\ [b EXCEPT !.pc = "number"].pc = "number"
      BY <1>2 DEF Handlers
    <3> QED BY <2>3, <3>1, <3>2
  <2> QED BY <2>1, <2>2, <2>3
<1>4. PICK v \in {[b EXCEPT !.answer = "error"], [b EXCEPT !.answer = "token"],
                  [b EXCEPT !.pc = "number"]} :
        /\ req' = [req EXCEPT ![r] = v]
        /\ v = [b EXCEPT !.answer = "token"] => IsRegistered(u)
        /\ v = [b EXCEPT !.pc = "number"] => FaceRegistered(u)
  BY <1>3
<1>5. /\ v \in Handlers /\ v.pc \in {"idle", "number"} /\ v.kind = "aadhaar" /\ v.user = u
      /\ v.item = n /\ v.wrote = {} /\ v.aborted = FALSE
  BY <1>2, <1>4 DEF Handlers, AadhaarSteps
<1>6. v.answer = "token" => IsRegistered(u)
  BY <1>2, <1>4, NoneAssumption DEF Handlers
<1>7. v.pc = "number" => FaceRegistered(u)
  BY <1>2, <1>4 DEF Handlers
<1>8. users' = users
  BY DEF BeginAadhaar
<1> QED BY <1>4, <1>5, <1>6, <1>7, <1>8, BeginKeeps

\* A handler that goes on with its item, perhaps aborted: it writes what its
\* step writes, holding the row and the key, which are free or its own already.
LEMMA GoesOnKeeps ==
    ASSUME TxInv, users' = users, NEW r \in Requests, NEW v \in Handlers,
           req' = [req EXCEPT ![r] = v], HandlerOf(r)', WroteSoFar(r)',
           v.user = req[r].user, v.item = req[r].item, v.answer = req[r].answer,
           v.wrote = {} \/ req[r].wrote # {} \/ Free(r),
           \/ v.wrote # {"aadhaar"}
           \/ req[r].wrote = {"aadhaar"}
           \/ \A w \in Users \ {req[r].user} : users[w].aadhaar # req[r].item
    PROVE  TxInv'
<1>1. v.wrote # {} => \A q \in Requests \ {r} : req[q].wrote # {} =>
                         req[q].user # v.user /\ req[q].item # v.item
  BY DEF TxInv, KeysHeld, Free
<1>2. v.wrote = {"aadhaar"} => \A w \in Users \ {v.user} : users[w].aadhaar # v.item
  BY DEF TxInv, KeysHeld
<1>3. v.answer = "token" => users[v.user].aadhaar # None
  BY DEF TxInv, TokenIsEarned, IsRegistered
<1> QED BY <1>1, <1>2, <1>3, HandlerMoves

\* The similarity check fails: nothing is written, and nothing can be.
LEMMA CheckSimilarFailsKeeps ==
    ASSUME TxInv, NEW r \in Requests, CheckSimilarFails(r)
    PROVE  TxInv'
<1> DEFINE v == [req[r] EXCEPT !.pc = "update", !.aborted = TRUE, !.skipped = TRUE]
<1>1. req[r] \in Handlers /\ HandlerOf(r) /\ WroteSoFar(r) /\ req[r].pc = "similar"
  BY DEF TxInv, CheckSimilarFails, At
<1>2. req' = [req EXCEPT ![r] = v] /\ users' = users
  BY DEF CheckSimilarFails, Data
<1>3. v \in Handlers
  BY <1>1 DEF Handlers, FaceSteps
<1>4. /\ v.pc = "update" /\ v.kind = req[r].kind /\ v.user = req[r].user
      /\ v.item = req[r].item /\ v.wrote = req[r].wrote /\ v.answer = req[r].answer
  BY <1>1 DEF Handlers
<1>5. req[r].wrote = {} /\ req[r].kind = "face" /\ req[r].user \in Users /\ req[r].item \in Faces
  BY <1>1 DEF HandlerOf, WroteSoFar, At, FaceSteps
<1> HIDE DEF v
<1>6. req'[r] = v
  BY <1>2 DEF TxInv
<1>7. HandlerOf(r)' /\ WroteSoFar(r)'
  BY <1>4, <1>5, <1>6 DEF HandlerOf, WroteSoFar, At, FaceSteps, AadhaarSteps
<1> QED BY <1>2, <1>3, <1>4, <1>5, <1>7, GoesOnKeeps

\* The hash is written only with the row and the key free.
LEMMA UpdateFaceKeeps ==
    ASSUME TxInv, NEW r \in Requests, UpdateFace(r)
    PROVE  TxInv'
<1>1. CASE Answer(r, "error")
  <2>1. users' = users
    BY DEF UpdateFace, Data
  <2> QED BY <1>1, <2>1, AnswerKeeps
<1>2. CASE ~Answer(r, "error")
  <2> DEFINE v == [req[r] EXCEPT !.pc = "embed", !.wrote = {"hash"}]
  <2>1. req[r] \in Handlers /\ HandlerOf(r) /\ req[r].pc = "update"
    BY DEF TxInv, UpdateFace, At
  <2>2. req' = [req EXCEPT ![r] = v] /\ users' = users /\ Free(r)
    BY <1>2 DEF UpdateFace, Data
  <2>3. v \in Handlers
    BY <2>1 DEF Handlers, FaceSteps, Columns
  <2>4. /\ v.pc = "embed" /\ v.kind = req[r].kind /\ v.user = req[r].user
        /\ v.item = req[r].item /\ v.wrote = {"hash"} /\ v.answer = req[r].answer
    BY <2>1 DEF Handlers
  <2>5. req[r].kind = "face" /\ req[r].user \in Users /\ req[r].item \in Faces
    BY <2>1 DEF HandlerOf, At, FaceSteps
  <2> HIDE DEF v
  <2>6. req'[r] = v
    BY <2>2 DEF TxInv
  <2>7. HandlerOf(r)'
    BY <2>4, <2>5, <2>6 DEF HandlerOf, At, FaceSteps, AadhaarSteps
  <2>8. WroteSoFar(r)'
    BY <2>4, <2>6 DEF WroteSoFar, At
  <2>9. v.wrote # {"aadhaar"}
    BY <2>4
  <2> QED BY <2>2, <2>3, <2>4, <2>7, <2>8, <2>9, GoesOnKeeps
<1> QED BY <1>1, <1>2

\* The embedding is written too, or the transaction is aborted.
LEMMA StoreEmbeddingKeeps ==
    ASSUME TxInv, NEW r \in Requests, StoreEmbedding(r) \/ StoreEmbeddingFails(r)
    PROVE  TxInv'
<1>1. /\ req[r] \in Handlers /\ HandlerOf(r) /\ WroteSoFar(r) /\ req[r].pc = "embed"
      /\ users' = users
  BY DEF TxInv, StoreEmbedding, StoreEmbeddingFails, At, Data
<1>2. /\ req[r].wrote = {"hash"} /\ req[r].kind = "face"
      /\ req[r].user \in Users /\ req[r].item \in Faces
  BY <1>1 DEF HandlerOf, WroteSoFar, At, FaceSteps
<1>3. PICK w \in SUBSET Columns, b \in BOOLEAN :
         /\ req' = [req EXCEPT ![r] = [req[r] EXCEPT !.pc = "commit", !.wrote = w, !.aborted = b]]
         /\ w = {"hash", "embedding"} \/ (w = {"hash"} /\ b)
  <2>1. CASE StoreEmbedding(r)
    <3>1. req' = [req EXCEPT ![r] = [req[r] EXCEPT !.pc = "commit",
                                       !.wrote = {"hash", "embedding"},
                                       !.aborted = req[r].aborted]]
      <4>1. {"hash"} \cup {"embedding"} = {"hash", "embedding"}
        OBVIOUS
      <4>2. req' = [req EXCEPT ![r] = [req[r] EXCEPT !.pc = "commit",
                                         !.wrote = {"hash", "embedding"}]]
        BY <1>2, <2>1, <4>1 DEF StoreEmbedding
      <4> QED BY <1>1, <4>2 DEF Handlers
    <3> QED BY <1>1, <3>1 DEF Handlers, Columns
  <2>2. CASE StoreEmbeddingFails(r)
    <3>1. req' = [req EXCEPT ![r] = [req[r] EXCEPT !.pc = "commit", !.wrote = {"hash"},
                                       !.aborted = TRUE]]
      <4>1. req' = [req EXCEPT ![r] = [req[r] EXCEPT !.pc = "commit", !.aborted = TRUE]]
        BY <2>2 DEF StoreEmbeddingFails
      <4> QED BY <1>1, <1>2, <4>1 DEF Handlers
    <3> QED BY <3>1 DEF Columns
  <2> QED BY <2>1, <2>2
<1> DEFINE v == [req[r] EXCEPT !.pc = "commit", !.wrote = w, !.aborted = b]
<1>4. v \in Handlers
  BY <1>1 DEF Handlers
<1>5. /\ v.pc = "commit" /\ v.kind = "face" /\ v.user = req[r].user /\ v.item = req[r].item
      /\ v.answer = req[r].answer
      /\ v.wrote = {"hash", "embedding"} \/ (v.wrote = {"hash"} /\ v.aborted)
  BY <1>1, <1>2, <1>3 DEF Handlers
<1> HIDE DEF v
<1>6. req' = [req EXCEPT ![r] = v]
  BY <1>3 DEF v
<1>7. req'[r] = v
  BY <1>6 DEF TxInv
<1>8. HandlerOf(r)'
  BY <1>2, <1>5, <1>7 DEF HandlerOf, At, FaceSteps, AadhaarSteps
<1>9. WroteSoFar(r)'
  BY <1>5, <1>7 DEF WroteSoFar, At
<1>10. v.wrote # {"aadhaar"} /\ req[r].wrote # {}
  BY <1>2, <1>5
<1> QED BY <1>1, <1>4, <1>5, <1>6, <1>8, <1>9, <1>10, GoesOnKeeps

\* The number is written only with the row and the key free, and unused.
LEMMA UpdateAadhaarKeeps ==
    ASSUME TxInv, NEW r \in Requests, UpdateAadhaar(r)
    PROVE  TxInv'
<1>1. CASE Answer(r, "error")
  <2>1. users' = users
    BY DEF UpdateAadhaar, Data
  <2> QED BY <1>1, <2>1, AnswerKeeps
<1>2. CASE ~Answer(r, "error")
  <2> DEFINE v == [req[r] EXCEPT !.pc = "token", !.wrote = {"aadhaar"}]
  <2>1. req[r] \in Handlers /\ HandlerOf(r) /\ req[r].pc = "store"
    BY DEF TxInv, UpdateAadhaar, At
  <2>2. /\ req' = [req EXCEPT ![r] = v] /\ users' = users /\ Free(r)
        /\ \A w \in Users \ {req[r].user} : users[w].aadhaar # req[r].item
    BY <1>2 DEF UpdateAadhaar, Data
  <2>3. v \in Handlers
    BY <2>1 DEF Handlers, AadhaarSteps, Columns
  <2>4. /\ v.pc = "token" /\ v.kind = req[r].kind /\ v.user = req[r].user
        /\ v.item = req[r].item /\ v.wrote = {"aadhaar"} /\ v.answer = req[r].answer
        /\ v.aborted = req[r].aborted
    BY <2>1 DEF Handlers
  <2>5. /\ req[r].kind = "aadhaar" /\ req[r].user \in Users /\ req[r].item \in Numbers
        /\ FaceRegistered(req[r].user) /\ ~req[r].aborted
    BY <2>1 DEF HandlerOf, At, AadhaarSteps, Handlers
  <2> HIDE DEF v
  <2>6. req'[r] = v
    BY <2>2 DEF TxInv
  <2>7. HandlerOf(r)'
    BY <2>2, <2>4, <2>5, <2>6 DEF HandlerOf, At, FaceSteps, AadhaarSteps, FaceRegistered
  <2>8. WroteSoFar(r)'
    BY <2>4, <2>6 DEF WroteSoFar, At
  <2> QED BY <2>2, <2>3, <2>4, <2>7, <2>8, GoesOnKeeps
<1> QED BY <1>1, <1>2

\* The session is cached before the commit.
LEMMA CacheTokenKeeps ==
    ASSUME TxInv, NEW r \in Requests, CacheToken(r)
    PROVE  TxInv'
<1> DEFINE v == [req[r] EXCEPT !.pc = "commit"]
<1>1. /\ req[r] \in Handlers /\ HandlerOf(r) /\ WroteSoFar(r) /\ req[r].pc = "token"
      /\ users' = users /\ req' = [req EXCEPT ![r] = v]
  BY DEF TxInv, CacheToken, Move, At
<1>2. v \in Handlers
  BY <1>1 DEF Handlers
<1>3. /\ v.pc = "commit" /\ v.kind = req[r].kind /\ v.user = req[r].user
      /\ v.item = req[r].item /\ v.wrote = req[r].wrote /\ v.answer = req[r].answer
      /\ v.aborted = req[r].aborted
  BY <1>1 DEF Handlers
<1>4. /\ req[r].kind = "aadhaar" /\ req[r].user \in Users /\ req[r].item \in Numbers
      /\ FaceRegistered(req[r].user) /\ req[r].wrote = {"aadhaar"} /\ ~req[r].aborted
  BY <1>1 DEF HandlerOf, WroteSoFar, At, AadhaarSteps, Handlers
<1> HIDE DEF v
<1>5. req'[r] = v
  BY <1>1 DEF TxInv
<1>6. HandlerOf(r)'
  BY <1>1, <1>3, <1>4, <1>5 DEF HandlerOf, At, FaceSteps, AadhaarSteps, FaceRegistered
<1>7. WroteSoFar(r)'
  BY <1>3, <1>4, <1>5 DEF WroteSoFar, At
<1>8. req[r].wrote # {}
  BY <1>4
<1> QED BY <1>1, <1>2, <1>3, <1>4, <1>6, <1>7, <1>8, GoesOnKeeps

-----------------------------------------------------------------------------
(***************************************************************************)
(* The commit.                                                             *)
(***************************************************************************)
\* A row is committed in one of two ways: the face, with its embedding, or the
\* number, of an account with a face and a number nobody else has.
LEMMA CommittedRow ==
    ASSUME TxInv, NEW r \in Requests, At(r, "commit"), ~req[r].aborted
    PROVE  /\ req[r].user \in Users /\ Row(r) \in Rows
           /\ Row(r).hash = Row(r).embedding /\ Row(r).hash # None
           /\ \/ Row(r).aadhaar = users[req[r].user].aadhaar /\ req[r].kind = "face"
              \/ /\ Row(r).aadhaar = req[r].item /\ req[r].kind = "aadhaar"
                 /\ req[r].item \in Numbers /\ req[r].wrote = {"aadhaar"}
<1> DEFINE old == users[req[r].user]
<1>1. req[r] \in Handlers /\ HandlerOf(r) /\ WroteSoFar(r) /\ users \in [Users -> Rows]
  BY DEF TxInv
<1>2. CASE req[r].kind = "face"
  <2>1. req[r].wrote = {"hash", "embedding"} /\ req[r].user \in Users /\ req[r].item \in Faces
    BY <1>1, <1>2 DEF HandlerOf, WroteSoFar, At
  <2>2. Row(r) = [hash |-> req[r].item, embedding |-> req[r].item, aadhaar |-> old.aadhaar]
    BY <2>1 DEF Row
  <2>3. old \in Rows
    BY <1>1, <2>1
  <2> QED BY <1>2, <2>1, <2>2, <2>3, NoneAssumption DEF Rows
<1>3. CASE req[r].kind # "face"
  <2>1. /\ req[r].kind = "aadhaar" /\ req[r].user \in Users /\ req[r].item \in Numbers
        /\ FaceRegistered(req[r].user)
    BY <1>1, <1>3 DEF HandlerOf, At
  <2>2. req[r].wrote = {"aadhaar"}
    BY <1>1, <2>1 DEF WroteSoFar, At
  <2>3. Row(r) = [hash |-> old.hash, embedding |-> old.embedding, aadhaar |-> req[r].item]
    BY <2>2 DEF Row
  <2>4. old \in Rows /\ old.hash # None /\ old.embedding = old.hash
    BY <1>1, <2>1 DEF TxInv, EmbeddingMatchesHash, FaceRegistered
  <2> QED BY <2>1, <2>2, <2>3, <2>4 DEF Rows
<1> QED BY <1>2, <1>3

LEMMA CommitKeeps ==
    ASSUME TxInv, NEW r \in Requests, Commit(r), ~req[r].aborted
    PROVE  TxInv'
<1> DEFINE a == Success(r)
           v == [req[r] EXCEPT !.pc = "idle", !.wrote = {}, !.aborted = FALSE, !.answer = a]
<1>1. PICK u \in Users, row \in Rows : u = req[r].user /\ row = Row(r)
  BY CommittedRow DEF Commit
<1>2. /\ row.hash = row.embedding /\ row.hash # None
      /\ \/ row.aadhaar = users[u].aadhaar /\ req[r].kind = "face"
         \/ /\ row.aadhaar = req[r].item /\ req[r].kind = "aadhaar"
            /\ req[r].item \in Numbers /\ req[r].wrote = {"aadhaar"}
  BY <1>1, CommittedRow DEF Commit
<1>3. users' = [users EXCEPT ![u] = row] /\ req' = [req EXCEPT ![r] = v]
  BY <1>1 DEF Commit, Answer
<1>4. users \in [Users -> Rows] /\ req \in [Requests -> Handlers] /\ a \in {"registered", "token"}
  BY DEF TxInv, Success
<1>5. /\ v \in Handlers /\ v.pc = "idle" /\ v.wrote = {} /\ v.aborted = FALSE
      /\ v.answer = a /\ v.user = u
  <2> HIDE DEF a
  <2>1. req[r] \in Handlers
    BY <1>4
  <2> QED BY <1>1, <1>4, <2>1 DEF Handlers
<1>6. a = "token" => req[r].kind = "aadhaar"
  BY <1>2 DEF Success
<1> HIDE DEF v, a
<1>7. \A w \in Users : users'[w] = IF w = u THEN row ELSE users[w]
  BY <1>3, <1>4
<1>8. \A q \in Requests : req'[q] = IF q = r THEN v ELSE req[q]
  BY <1>3, <1>4
<1>9. users' \in [Users -> Rows] /\ req' \in [Requests -> Handlers]
  BY <1>3, <1>4, <1>5
<1>10. ASSUME NEW w \in Users, users[w].hash # None PROVE users'[w].hash # None
  BY <1>2, <1>7, <1>10
<1>11. ASSUME NEW w \in Users, users[w].aadhaar # None PROVE users'[w].aadhaar # None
  BY <1>2, <1>7, <1>11, NoneAssumption
<1>12. \A q \in Requests : HandlerOf(q)' /\ WroteSoFar(q)'
  <2> SUFFICES ASSUME NEW q \in Requests PROVE HandlerOf(q)' /\ WroteSoFar(q)'
    OBVIOUS
  <2>1. CASE q = r
    <3>1. req'[q] = v
      BY <1>8, <2>1
    <3> QED BY <1>5, <3>1 DEF HandlerOf, WroteSoFar, At, FaceSteps, AadhaarSteps
  <2>2. CASE q # r
    <3>1. req'[q] = req[q] /\ HandlerOf(q) /\ WroteSoFar(q)
      BY <1>8, <2>2 DEF TxInv
    <3> QED BY <1>10, <3>1 DEF HandlerOf, WroteSoFar, At, FaceRegistered
  <2> QED BY <2>1, <2>2
<1>13. KeysHeld'
  <2>1. \A p, q \in Requests : p # q /\ req'[p].wrote # {} /\ req'[q].wrote # {} =>
           req'[p].user # req'[q].user /\ req'[p].item # req'[q].item
    BY <1>5, <1>8 DEF TxInv, KeysHeld
  <2>2. ASSUME NEW q \in Requests, req'[q].wrote = {"aadhaar"},
               NEW w \in Users \ {req'[q].user}
        PROVE  users'[w].aadhaar # req'[q].item
    <3>1. q # r /\ req'[q] = req[q]
      BY <1>5, <1>8, <2>2
    <3>2. users[w].aadhaar # req[q].item
      BY <2>2, <3>1 DEF TxInv, KeysHeld
    <3>3. req[r].wrote = {"aadhaar"} => req[q].item # req[r].item
      BY <2>2, <3>1 DEF TxInv, KeysHeld
    <3> QED BY <1>2, <1>7, <3>1, <3>2, <3>3
  <2> QED BY <2>1, <2>2 DEF KeysHeld
<1>14. EmbeddingMatchesHash' /\ FaceFirst'
  BY <1>2, <1>7 DEF TxInv, EmbeddingMatchesHash, FaceFirst, IsRegistered, FaceRegistered
<1>15. OneAccountPerNumber'
  <2>1. row.aadhaar # users[u].aadhaar => \A w \in Users \ {u} : users[w].aadhaar # row.aadhaar
    BY <1>1, <1>2 DEF TxInv, KeysHeld
  <2>2. \A x, y \in Users : users[x].aadhaar # None /\ users[x].aadhaar = users[y].aadhaar => x = y
    BY DEF TxInv, OneAccountPerNumber, IsRegistered
  <2> QED BY <1>7, <2>1, <2>2 DEF OneAccountPerNumber, IsRegistered
<1>16. TokenIsEarned'
  <2> SUFFICES ASSUME NEW q \in Requests, req'[q].answer = "token"
               PROVE  users'[req'[q].user].aadhaar # None
    BY DEF TokenIsEarned, IsRegistered
  <2>1. CASE q = r
    BY <1>2, <1>5, <1>6, <1>7, <1>8, <2>1, NoneAssumption
  <2>2. CASE q # r
    <3>1. req'[q] = req[q] /\ users[req[q].user].aadhaar # None
      BY <1>8, <2>2 DEF TxInv, TokenIsEarned, IsRegistered
    <3>2. CASE req[q].user = u
      BY <1>11, <3>1, <3>2
    <3>3. CASE req[q].user # u
      BY <1>3, <3>1, <3>3
    <3> QED BY <3>2, <3>3
  <2> QED BY <2>1, <2>2
<1> QED BY <1>9, <1>12, <1>13, <1>14, <1>15, <1>16 DEF TxInv

\* The commit of an aborted transaction is a rollback; a failed one too.
LEMMA CommitStepKeeps ==
    ASSUME TxInv, NEW r \in Requests, Commit(r) \/ CommitFails(r)
    PROVE  TxInv'
<1>1. CASE Commit(r) /\ ~req[r].aborted
  BY <1>1, CommitKeeps
<1>2. CASE Commit(r) /\ req[r].aborted
  <2>1. Success(r) = "registered"
    BY <1>2 DEF TxInv, HandlerOf, Success
  <2>2. Answer(r, "registered") /\ users' = users
    BY <1>2, <2>1 DEF Commit
  <2> QED BY <2>2, AnswerKeeps
<1>3. CASE CommitFails(r)
  BY <1>3, AnswerKeeps DEF CommitFails, Data
<1> QED BY <1>1, <1>2, <1>3

\* The two checks, the provider's answer and a failed cache write.
LEMMA CheckKeeps ==
    ASSUME TxInv, NEW r \in Requests,
           CheckHash(r) \/ CheckSimilar(r) \/ CheckNumber(r) \/ Verify(r) \/ CacheTokenFails(r)
    PROVE  TxInv'
<1>1. users' = users
  BY DEF CheckHash, CheckSimilar, CheckNumber, Verify, CacheTokenFails, Data
<1>2. CASE Answer(r, "duplicate") \/ Answer(r, "error")
  BY <1>1, <1>2, AnswerKeeps
<1>3. CASE ~(Answer(r, "duplicate") \/ Answer(r, "error"))
  <2>1. WroteSoFar(r)
    BY DEF TxInv
  <2>2. CASE CheckHash(r)
    <3>1. Move(r, "similar") /\ req[r].pc = "hash"
      BY <1>3, <2>2 DEF CheckHash, At
    <3>2. req[r].wrote = {}
      BY <2>1, <3>1 DEF WroteSoFar
    <3> QED BY <1>1, <3>1, <3>2, MoveKeeps DEF FaceSteps
  <2>3. CASE CheckSimilar(r)
    <3>1. Move(r, "update") /\ req[r].pc = "similar"
      BY <1>3, <2>3 DEF CheckSimilar, At
    <3>2. req[r].wrote = {}
      BY <2>1, <3>1 DEF WroteSoFar
    <3> QED BY <1>1, <3>1, <3>2, MoveKeeps DEF FaceSteps
  <2>4. CASE CheckNumber(r)
    <3>1. Move(r, "verify") /\ req[r].pc = "number"
      BY <1>3, <2>4 DEF CheckNumber, At
    <3>2. req[r].wrote = {}
      BY <2>1, <3>1 DEF WroteSoFar
    <3> QED BY <1>1, <3>1, <3>2, MoveKeeps DEF AadhaarSteps
  <2>5. CASE Verify(r)
    <3>1. Move(r, "store") /\ req[r].pc = "verify"
      BY <1>3, <2>5 DEF Verify, At
    <3>2. req[r].wrote = {}
      BY <2>1, <3>1 DEF WroteSoFar
    <3> QED BY <1>1, <3>1, <3>2, MoveKeeps DEF AadhaarSteps
  <2>6. ~CacheTokenFails(r)
    BY <1>3 DEF CacheTokenFails
  <2> QED BY <2>2, <2>3, <2>4, <2>5, <2>6
<1> QED BY <1>2, <1>3

LEMMA NextTxInv == TxInv /\ [Next]_vars => TxInv'
<1> SUFFICES ASSUME TxInv, [Next]_vars PROVE TxInv'
  OBVIOUS
<1>1. ASSUME NEW r \in Requests, NEW u \in Users, NEW f \in Faces,
             BeginFace(r, u, f) \/ BeginFaceRejected(r, u, f)
      PROVE  TxInv'
  BY <1>1, BeginFaceKeeps
<1>2. ASSUME NEW r \in Requests, NEW u \in Users, NEW n \in Numbers, BeginAadhaar(r, u, n)
      PROVE  TxInv'
  BY <1>2, BeginAadhaarKeeps
<1>3. ASSUME NEW r \in Requests, Handle(r) PROVE TxInv'
  BY <1>3, CheckKeeps, StoreEmbeddingKeeps, CacheTokenKeeps, CommitStepKeeps DEF Handle
<1>4. ASSUME NEW r \in Requests, Update(r) PROVE TxInv'
  BY <1>4, UpdateFaceKeeps, UpdateAadhaarKeeps DEF Update
<1>5. ASSUME NEW r \in Requests,
             \/ CheckSimilarFails(r) \/ StoreEmbeddingFails(r) \/ CacheTokenFails(r)
             \/ CommitFails(r)
      PROVE  TxInv'
  BY <1>5, CheckSimilarFailsKeeps, StoreEmbeddingKeeps, CheckKeeps, CommitStepKeeps
<1>6. CASE UNCHANGED vars
  BY <1>6 DEF vars, TxInv, HandlerOf, WroteSoFar, KeysHeld, At, EmbeddingMatchesHash, FaceFirst,
              OneAccountPerNumber, TokenIsEarned, FaceRegistered, IsRegistered
<1> QED BY <1>1, <1>2, <1>3, <1>4, <1>5, <1>6 DEF Next

-----------------------------------------------------------------------------
(***************************************************************************)
(* Types, and the theorems.                                                *)
(***************************************************************************)
\* Only the two routes that give the full token touch the session.
LEMMA NextSession ==
    ASSUME TypeOK, TxInv, Next
    PROVE  session' \in [Users -> BOOLEAN] /\ faults' \in 0..MaxFaults
<1>1. session' \in [Users -> BOOLEAN]
  <2>1. ASSUME NEW r \in Requests, NEW u \in Users, NEW n \in Numbers, BeginAadhaar(r, u, n)
        PROVE  session' \in [Users -> BOOLEAN]
    BY <2>1 DEF BeginAadhaar, TypeOK, IsRegistered
  <2>2. ASSUME NEW r \in Requests, CacheToken(r) PROVE session' \in [Users -> BOOLEAN]
    BY <2>2 DEF CacheToken, TypeOK
  <2>3. ASSUME NEW r \in Requests, Handle(r) \/ Update(r) PROVE session' \in [Users -> BOOLEAN]
    BY <2>2, <2>3 DEF Handle, Update, CheckHash, CheckSimilar, StoreEmbedding, CheckNumber,
       Verify, Commit, UpdateFace, UpdateAadhaar, Data, TypeOK
  <2>4. ASSUME NEW r \in Requests,
               \/ CheckSimilarFails(r) \/ StoreEmbeddingFails(r) \/ CacheTokenFails(r)
               \/ CommitFails(r)
        PROVE  session' = session
    BY <2>4 DEF CheckSimilarFails, StoreEmbeddingFails, CacheTokenFails, CommitFails, Data
  <2>5. ASSUME NEW r \in Requests, NEW u \in Users, NEW f \in Faces,
               BeginFace(r, u, f) \/ BeginFaceRejected(r, u, f)
        PROVE  session' = session
    BY <2>5 DEF BeginFace, BeginFaceRejected, Data
  <2> QED BY <2>1, <2>3, <2>4, <2>5 DEF Next, TypeOK
<1>2. faults' = faults \/ Fault
  BY DEF Next, Handle, Update, BeginFace, BeginFaceRejected, BeginAadhaar, CheckHash, CheckSimilar,
     StoreEmbedding, CheckNumber, Verify, CacheToken, Commit, UpdateFace, UpdateAadhaar,
     CheckSimilarFails, StoreEmbeddingFails, CacheTokenFails, CommitFails
<1>3. faults' \in 0..MaxFaults
  BY <1>2, FaultsAssumption DEF Fault, TypeOK
<1> QED BY <1>1, <1>3

\* In every reachable state a transaction that has written holds its row and
\* its key, and nobody else has the key.
THEOREM TransactionsHoldTheirKeys == Spec => []IInv
<1>1. Init => IInv
  <2>1. Init => TypeOK
    BY InitTxInv, FaultsAssumption DEF Init, TypeOK, TxInv
  <2> QED BY <2>1, InitTxInv DEF IInv
<1>2. IInv /\ [Next]_vars => IInv'
  <2> SUFFICES ASSUME IInv, [Next]_vars PROVE IInv'
    OBVIOUS
  <2>1. TypeOK /\ TxInv /\ TxInv'
    BY NextTxInv DEF IInv
  <2>2. TypeOK'
    BY <2>1, NextSession DEF TypeOK, TxInv, vars
  <2> QED BY <2>1, <2>2 DEF IInv
<1> QED BY <1>1, <1>2, PTL DEF Spec

\* Type correctness of registration.
THEOREM TypeCorrect == Spec => []TypeOK
<1>1. IInv => TypeOK
  BY DEF IInv
<1> QED BY <1>1, TransactionsHoldTheirKeys, PTL

\* update_user_face and store_face_embedding commit together or not at all:
\* a user's embedding and hash are always of the same video.
THEOREM EmbeddingAndHashAgree == Spec => []EmbeddingMatchesHash
<1>1. IInv => EmbeddingMatchesHash
  BY DEF IInv, TxInv
<1> QED BY <1>1, TransactionsHoldTheirKeys, PTL

\* No account has a number before it has a face, in whatever order the two
\* routes' transactions overlap: the check is made before the write, and a
\* face, once committed, is never taken away.
THEOREM FaceBeforeNumber == Spec => []FaceFirst
<1>1. IInv => FaceFirst
  BY DEF IInv, TxInv
<1> QED BY <1>1, TransactionsHoldTheirKeys, PTL

\* Two accounts never share an Aadhaar number, also when both requests have
\* checked that it is free before either has written it.
THEOREM NumberOfOneAccount == Spec => []OneAccountPerNumber
<1>1. IInv => OneAccountPerNumber
  BY DEF IInv, TxInv
<1> QED BY <1>1, TransactionsHoldTheirKeys, PTL

\* The full token is answered only when the number is committed, although the
\* session is cached with it before the commit.
THEOREM TokenAfterCommit == Spec => []TokenIsEarned
<1>1. IInv => TokenIsEarned
  BY DEF IInv, TxInv
<1> QED BY <1>1, TransactionsHoldTheirKeys, PTL
=============================================================================
