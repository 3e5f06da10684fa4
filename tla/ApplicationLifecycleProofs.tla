---------------------- MODULE ApplicationLifecycleProofs ----------------------
(***************************************************************************)
(* Proofs about ApplicationLifecycle, for any candidates, applications,    *)
(* sessions, overlapping requests, pollers, verdicts and faults.  The      *)
(* inductive invariant is IInv of ApplicationLifecycle: what a transaction *)
(* has read and will commit is still true of the rows, because what it     *)
(* rests on only grows.                                                    *)
(***************************************************************************)
EXTENDS ApplicationLifecycle, TLAPS

-----------------------------------------------------------------------------
(***************************************************************************)
(* The initial state.                                                      *)
(***************************************************************************)
LEMMA IdleFields ==
    /\ Idle \in Transactions
    /\ Idle.pc = "idle" /\ Idle.kind = None /\ Idle.app = None /\ Idle.sid = None
    /\ Idle.w = NoWrites /\ Idle.row = None /\ Idle.new = None
    /\ NoWrites.status = None /\ NoWrites.cooled = FALSE /\ NoWrites.sess = None
    /\ NoWrites.verdict = None /\ NoWrites.deactivate = FALSE
BY DEF Idle, NoWrites, Transactions, Writes, PCs

\* An idle slot holds nothing.
LEMMA IdleHolds ==
    ASSUME NEW x \in Actors, tx[x] = Idle
    PROVE  /\ StartInv(x) /\ EndInv(x) /\ VerdictInv(x) /\ IdleInv(x)
           /\ \A s \in Sessions : ~LeavesStatus(x, s)
<1>1. tx[x].kind = None
  BY IdleFields
<1>2. None \notin Kinds
  BY NoneAssumption
<1> QED BY <1>1, <1>2 DEF StartInv, EndInv, VerdictInv, IdleInv, LeavesStatus, Kinds

LEMMA InitLife == Init => LifeInv
<1> SUFFICES ASSUME Init PROVE LifeInv
  OBVIOUS
<1>1. RowsTypeOK
  BY DEF Init, RowsTypeOK, Statuses, NoSession
<1>2. ServicesTypeOK
  BY FaultAssumption DEF Init, ServicesTypeOK, MLStatuses
<1>3. tx \in [Actors -> Transactions] /\ \A x \in Actors : tx[x] = Idle
  BY IdleFields DEF Init
<1>4. TxInv
  BY <1>3, IdleHolds DEF TxInv
<1>5. SessionsDiffer
  BY <1>3, IdleFields, NoneAssumption DEF SessionsDiffer, Kinds
<1>6. SessionsHaveApps /\ CompletedMeansCooldown
  BY DEF Init, NoSession, SessionsHaveApps, CompletedMeansCooldown
<1>7. ProcessingWasSent /\ VerdictOnRecord /\ PendingCanEnd
  BY DEF Init, ProcessingWasSent, VerdictOnRecord, PendingCanEnd, Verdicts
<1> QED BY <1>1, <1>2, <1>3, <1>4, <1>5, <1>6, <1>7 DEF LifeInv, TypeOK

-----------------------------------------------------------------------------
(***************************************************************************)
(* Steps that commit nothing.                                              *)
(***************************************************************************)
\* What the locals of a transaction rest on stays: rows get a verdict for good
\* and leave DOCUMENTS_PENDING for good, sessions keep their application.
Grows ==
    /\ \A a \in Apps : /\ status[a] # "DOCUMENTS_PENDING" => status'[a] # "DOCUMENTS_PENDING"
                       /\ verdict[a] # None => verdict'[a] # None
    /\ sent \subseteq sent'
    /\ \A s \in Sessions : sess[s].state # "NONE" =>
          sess'[s].state # "NONE" /\ sess'[s].app = sess[s].app

\* The session a start has made is still its own.
KeepsSession(y) ==
    tx[y].kind = "start" /\ tx[y].pc # "create" =>
        tx[y].sid \in chat' /\ sess'[tx[y].sid] = NoSession

LEMMA OthersKeep ==
    ASSUME TypeOK, NEW y \in Actors, tx'[y] = tx[y], Grows, KeepsSession(y),
           StartInv(y), EndInv(y), VerdictInv(y), IdleInv(y)
    PROVE  StartInv(y)' /\ EndInv(y)' /\ VerdictInv(y)' /\ IdleInv(y)'
<1>1. PICK t : t = tx[y]
  OBVIOUS
<1>2. StartInv(y)'
  BY DEF StartInv, KeepsSession
<1>3. EndInv(y)'
  BY DEF EndInv, Grows
<1>4. VerdictInv(y)'
  BY DEF VerdictInv, Grows
<1>5. IdleInv(y)'
  BY DEF IdleInv
<1> QED BY <1>2, <1>3, <1>4, <1>5

\* Transaction x moves to v, and no row changes.
LEMMA MoveKeeps ==
    ASSUME LifeInv, NEW x \in Actors, NEW v \in Transactions,
           tx' = [tx EXCEPT ![x] = v], UNCHANGED db, ServicesTypeOK', sent \subseteq sent',
           StartInv(x)', EndInv(x)', VerdictInv(x)', IdleInv(x)',
           \A y \in Actors \ {x} : KeepsSession(y),
           v.kind = "start" /\ v.pc # "create" =>
               \A y \in Actors \ {x} :
                  tx[y].kind = "start" /\ tx[y].pc # "create" => tx[y].sid # v.sid,
           \A s \in Sessions : LeavesStatus(x, s)' =>
               LeavesStatus(x, s) \/ status[sess[s].app] # "INTERVIEW_PENDING",
           \A a \in Apps : ml_cache'[a].verdict # None => verdict[a] # None
    PROVE  LifeInv'
<1>1. /\ status' = status /\ cooled' = cooled /\ sess' = sess /\ verdict' = verdict
      /\ active' = active
  BY DEF db
<1>2. tx \in [Actors -> Transactions] /\ tx' \in [Actors -> Transactions]
  BY DEF LifeInv, TypeOK
<1>3. tx'[x] = v /\ \A y \in Actors \ {x} : tx'[y] = tx[y]
  BY <1>2
<1>4. TypeOK'
  BY <1>1, <1>2 DEF LifeInv, TypeOK, RowsTypeOK
<1>5. TxInv'
  <2> SUFFICES ASSUME NEW y \in Actors, y # x
               PROVE  StartInv(y)' /\ EndInv(y)' /\ VerdictInv(y)' /\ IdleInv(y)'
    BY DEF TxInv
  <2>1. Grows
    BY <1>1 DEF Grows
  <2>2. StartInv(y) /\ EndInv(y) /\ VerdictInv(y) /\ IdleInv(y) /\ TypeOK
    BY DEF LifeInv, TxInv
  <2> QED BY <1>3, <2>1, <2>2, OthersKeep
<1>6. SessionsDiffer'
  BY <1>3 DEF LifeInv, SessionsDiffer
<1>7. SessionsHaveApps' /\ CompletedMeansCooldown' /\ ProcessingWasSent'
  BY <1>1 DEF LifeInv, SessionsHaveApps, CompletedMeansCooldown, ProcessingWasSent
<1>8. VerdictOnRecord'
  BY <1>1 DEF LifeInv, VerdictOnRecord
<1>9. PendingCanEnd'
  <2> SUFFICES ASSUME NEW a \in Apps, status'[a] = "INTERVIEW_PENDING"
               PROVE  \E s \in Sessions : /\ sess'[s].app = a /\ sess'[s].state = "ACTIVE"
                                          /\ \A y \in Actors : ~LeavesStatus(y, s)'
    BY DEF PendingCanEnd
  <2>1. PICK s \in Sessions : /\ sess[s].app = a /\ sess[s].state = "ACTIVE"
                              /\ \A y \in Actors : ~LeavesStatus(y, s)
    BY <1>1 DEF LifeInv, PendingCanEnd
  <2>2. ~LeavesStatus(x, s)'
    BY <1>1, <2>1
  <2>3. \A y \in Actors \ {x} : ~LeavesStatus(y, s)'
    BY <1>3, <2>1 DEF LeavesStatus
  <2> QED BY <1>1, <2>1, <2>2, <2>3
<1> QED BY <1>4, <1>5, <1>6, <1>7, <1>8, <1>9 DEF LifeInv

\* Transaction x ends without a commit: what it had written is gone.
LEMMA EndKeeps ==
    ASSUME LifeInv, NEW x \in Actors, End(x), UNCHANGED db, ServicesTypeOK',
           sent \subseteq sent', \A y \in Actors \ {x} : KeepsSession(y),
           \A a \in Apps : ml_cache'[a].verdict # None => verdict[a] # None
    PROVE  LifeInv'
<1>1. tx' = [tx EXCEPT ![x] = Idle] /\ tx'[x] = Idle
  BY DEF End, LifeInv, TypeOK
<1>2. StartInv(x)' /\ EndInv(x)' /\ VerdictInv(x)' /\ IdleInv(x)'
  BY <1>1, IdleFields, NoneAssumption DEF StartInv, EndInv, VerdictInv, IdleInv, Kinds
<1>3. \A s \in Sessions : ~LeavesStatus(x, s)'
  BY <1>1, IdleFields, NoneAssumption DEF LeavesStatus, Kinds
<1>4. Idle.kind # "start" /\ Idle \in Transactions
  BY IdleFields, NoneAssumption DEF Kinds
<1> QED BY <1>1, <1>2, <1>3, <1>4, MoveKeeps

\* Only the transactions change.
LEMMA TxOnly ==
    ASSUME LifeInv, UNCHANGED <<db, chat, inbox, sent, ml, ml_cache, faults>>
    PROVE  /\ UNCHANGED db /\ ServicesTypeOK' /\ sent \subseteq sent'
           /\ \A y \in Actors : KeepsSession(y)
           /\ \A a \in Apps : ml_cache'[a].verdict # None => verdict[a] # None
<1>1. ServicesTypeOK'
  BY DEF LifeInv, TypeOK, ServicesTypeOK
<1>2. \A y \in Actors : KeepsSession(y)
  BY DEF LifeInv, TxInv, StartInv, KeepsSession, db
<1>3. \A a \in Apps : ml_cache'[a].verdict # None => verdict[a] # None
  BY DEF LifeInv, VerdictOnRecord
<1> QED BY <1>1, <1>2, <1>3

\* The same where only the transactions change.
LEMMA TxMoves ==
    ASSUME LifeInv, UNCHANGED <<db, chat, inbox, sent, ml, ml_cache, faults>>,
           NEW x \in Actors, NEW v \in Transactions, tx' = [tx EXCEPT ![x] = v],
           StartInv(x)', EndInv(x)', VerdictInv(x)', v.kind # None,
           v.kind = "start" /\ v.pc # "create" =>
               tx[x].kind = "start" /\ tx[x].pc # "create" /\ v.sid = tx[x].sid,
           \A s \in Sessions : LeavesStatus(x, s)' =>
               LeavesStatus(x, s) \/ status[sess[s].app] # "INTERVIEW_PENDING"
    PROVE  LifeInv'
<1>1. /\ UNCHANGED db /\ ServicesTypeOK' /\ sent \subseteq sent'
      /\ \A y \in Actors : KeepsSession(y)
      /\ \A a \in Apps : ml_cache'[a].verdict # None => verdict[a] # None
  BY TxOnly
<1>2. IdleInv(x)'
  BY DEF IdleInv, LifeInv, TypeOK
<1>3. v.kind = "start" /\ v.pc # "create" =>
         \A y \in Actors \ {x} :
            tx[y].kind = "start" /\ tx[y].pc # "create" => tx[y].sid # v.sid
  BY DEF LifeInv, SessionsDiffer
<1> QED BY <1>1, <1>2, <1>3, MoveKeeps

LEMMA TxEnds ==
    ASSUME LifeInv, UNCHANGED <<db, chat, inbox, sent, ml, ml_cache, faults>>,
           NEW x \in Actors, End(x)
    PROVE  LifeInv'
BY TxOnly, EndKeeps

-----------------------------------------------------------------------------
(***************************************************************************)
(* The steps of a start.                                                   *)
(***************************************************************************)
LEMMA KindsDiffer ==
    /\ None \notin Kinds
    /\ None \notin {"INTERVIEW_PENDING", "INTERVIEW_DONE", "ML_PROCESSING", "DOCUMENTS_PENDING"}
    /\ None \notin Verdicts /\ None \notin {"ACTIVE", "COMPLETED"}
    /\ None \notin Apps /\ None \notin Sessions /\ None \notin VerdictRow
BY NoneAssumption DEF Statuses

LEMMA StartLoadKeeps ==
    ASSUME LifeInv, NEW r \in Requests, NEW a \in Apps, StartLoad(r, a)
    PROVE  LifeInv'
<1> DEFINE v == [Begin("start", "create") EXCEPT !.app = a, !.seen = status[a]]
<1>1. /\ tx' = [tx EXCEPT ![r] = v] /\ UNCHANGED <<db, chat, inbox, sent, ml, ml_cache, faults>>
      /\ r \in Actors
  BY DEF StartLoad, Actors
<1>2. /\ v.kind = "start" /\ v.pc = "create" /\ v.app = a /\ v.w = NoWrites
  BY DEF Begin, Idle
<1>3. v \in Transactions
  <2>1. status[a] \in Statuses
    BY DEF LifeInv, TypeOK, RowsTypeOK
  <2> QED BY <2>1, IdleFields DEF Begin, Transactions, PCs, Kinds
<1> HIDE DEF v
<1>4. tx'[r] = v
  BY <1>1 DEF LifeInv, TypeOK
<1>5. StartInv(r)' /\ EndInv(r)' /\ VerdictInv(r)'
  BY <1>2, <1>4, IdleFields DEF StartInv, EndInv, VerdictInv
<1>6. \A s \in Sessions : ~LeavesStatus(r, s)'
  BY <1>2, <1>4 DEF LeavesStatus
<1>7. v.kind # None
  BY <1>2, KindsDiffer DEF Kinds
<1> QED BY <1>1, <1>2, <1>3, <1>5, <1>6, <1>7, TxMoves

LEMMA StartCreateKeeps ==
    ASSUME LifeInv, NEW x \in Actors, NEW s \in Sessions, StartCreate(x, s)
    PROVE  LifeInv'
<1> DEFINE v == [tx[x] EXCEPT !.sid = s, !.w = [tx[x].w EXCEPT !.sess = "ACTIVE"],
                              !.pc = "start_status"]
<1>1. tx \in [Actors -> Transactions] /\ tx[x] \in Transactions /\ tx[x].w \in Writes
  BY DEF LifeInv, TypeOK, Transactions
<1>2. tx[x].kind = "start"
  <2>1. tx[x].kind \in Kinds \cup {None} /\ tx[x].pc = "create"
    BY <1>1 DEF StartCreate, Transactions
  <2>2. StartInv(x) /\ EndInv(x) /\ VerdictInv(x) /\ IdleInv(x)
    BY DEF LifeInv, TxInv
  <2> QED BY <2>1, <2>2, IdleFields DEF EndInv, VerdictInv, IdleInv, Kinds
<1>3. StartInv(x) /\ tx[x].pc = "create"
  BY DEF LifeInv, TxInv, StartCreate
<1>4. tx' = [tx EXCEPT ![x] = v] /\ UNCHANGED db /\ sent' = sent /\ chat' = chat \cup {s}
  BY <1>1 DEF StartCreate
<1>5. v \in Transactions
  BY <1>1 DEF Transactions, Writes, PCs
<1>6. /\ v.kind = "start" /\ v.pc = "start_status" /\ v.app = tx[x].app /\ v.sid = s
      /\ v.w.status = tx[x].w.status /\ v.w.cooled = tx[x].w.cooled /\ v.w.sess = "ACTIVE"
      /\ v.w.verdict = tx[x].w.verdict /\ v.w.deactivate = tx[x].w.deactivate
  BY <1>1, <1>2 DEF Transactions, Writes
<1> HIDE DEF v
<1>7. tx'[x] = v
  BY <1>1, <1>4
<1>8. StartInv(x)'
  BY <1>2, <1>3, <1>4, <1>6, <1>7 DEF StartInv, StartCreate, Fresh, db
<1>9. EndInv(x)' /\ VerdictInv(x)' /\ IdleInv(x)'
  BY <1>6, <1>7, KindsDiffer DEF EndInv, VerdictInv, IdleInv, Kinds
<1>10. ServicesTypeOK'
  BY <1>4 DEF LifeInv, TypeOK, ServicesTypeOK, StartCreate
<1>11. \A y \in Actors : KeepsSession(y)
  BY <1>4 DEF LifeInv, TxInv, StartInv, KeepsSession, db
<1>12. \A y \in Actors \ {x} : tx[y].kind = "start" /\ tx[y].pc # "create" => tx[y].sid # v.sid
  BY <1>6 DEF LifeInv, TxInv, StartInv, StartCreate, Fresh
<1>13. \A q \in Sessions : ~LeavesStatus(x, q)'
  BY <1>6, <1>7 DEF LeavesStatus
<1>14. \A a \in Apps : ml_cache'[a].verdict # None => verdict[a] # None
  BY DEF LifeInv, VerdictOnRecord, StartCreate
<1> QED BY <1>4, <1>5, <1>8, <1>9, <1>10, <1>11, <1>12, <1>13, <1>14, MoveKeeps

LEMMA StepKinds ==
    ASSUME LifeInv, NEW x \in Actors
    PROVE  /\ tx \in [Actors -> Transactions] /\ tx[x] \in Transactions /\ tx[x].w \in Writes
           /\ StartInv(x) /\ EndInv(x) /\ VerdictInv(x) /\ IdleInv(x)
           /\ tx[x].pc \in {"create", "start_status"} => tx[x].kind = "start"
           /\ tx[x].pc \in {"end_app", "complete", "cooldown", "send"} => tx[x].kind = "end"
           /\ tx[x].pc \in {"poll_status", "poll_verdict", "poll_app", "deactivate", "cache"}
                 => tx[x].kind = "poll"
           /\ tx[x].pc \in {"read_verdict", "write_verdict", "write_status"}
                 => tx[x].kind \in {"override", "poll"}
           /\ tx[x].pc = "commit" => tx[x].kind \in Kinds
<1>1. tx \in [Actors -> Transactions] /\ tx[x] \in Transactions /\ tx[x].w \in Writes
  BY DEF LifeInv, TypeOK, Transactions
<1>2. StartInv(x) /\ EndInv(x) /\ VerdictInv(x) /\ IdleInv(x)
  BY DEF LifeInv, TxInv
<1>3. tx[x].kind \in Kinds \cup {None}
  BY <1>1 DEF Transactions
<1>4. tx[x].kind = None => tx[x].pc = "idle"
  BY <1>2, IdleFields DEF IdleInv
<1> QED BY <1>1, <1>2, <1>3, <1>4 DEF StartInv, EndInv, VerdictInv, Kinds

\* What update_application_status does to a transaction: it may write the
\* status, unless the value loaded is the new one.
LEMMA WriteStatusMoves ==
    ASSUME LifeInv, NEW x \in Actors, NEW new \in Statuses, NEW pc \in PCs,
           WriteStatus(x, new, pc)
    PROVE  \E v \in Transactions :
              /\ tx' = [tx EXCEPT ![x] = v] /\ v.pc = pc
              /\ v.kind = tx[x].kind /\ v.app = tx[x].app /\ v.sid = tx[x].sid
              /\ v.row = tx[x].row /\ v.new = tx[x].new
              /\ v.w.cooled = tx[x].w.cooled /\ v.w.sess = tx[x].w.sess
              /\ v.w.verdict = tx[x].w.verdict /\ v.w.deactivate = tx[x].w.deactivate
              /\ \/ v.w.status = new
                 \/ v.w.status = tx[x].w.status /\ tx[x].seen = new
<1>1. tx \in [Actors -> Transactions] /\ tx[x] \in Transactions /\ tx[x].w \in Writes
  BY StepKinds
<1>2. CASE tx[x].seen = new
  <2> DEFINE v == [tx[x] EXCEPT !.pc = pc]
  <2>1. tx' = [tx EXCEPT ![x] = v]
    BY <1>2 DEF WriteStatus, Move
  <2>2. v \in Transactions
    BY <1>1 DEF Transactions
  <2>3. /\ v.pc = pc /\ v.w = tx[x].w
        /\ v.kind = tx[x].kind /\ v.app = tx[x].app /\ v.sid = tx[x].sid
        /\ v.row = tx[x].row /\ v.new = tx[x].new
    BY <1>1 DEF Transactions
  <2> HIDE DEF v
  <2> QED BY <1>2, <2>1, <2>2, <2>3
<1>3. CASE tx[x].seen # new
  <2> DEFINE v == [tx[x] EXCEPT !.w = [tx[x].w EXCEPT !.status = new], !.seen = new, !.pc = pc]
  <2>1. tx' = [tx EXCEPT ![x] = v]
    BY <1>1, <1>3 DEF WriteStatus
  <2>2. v \in Transactions
    BY <1>1 DEF Transactions, Writes
  <2>3. /\ v.pc = pc /\ v.w.status = new
        /\ v.kind = tx[x].kind /\ v.app = tx[x].app /\ v.sid = tx[x].sid
        /\ v.row = tx[x].row /\ v.new = tx[x].new
        /\ v.w.cooled = tx[x].w.cooled /\ v.w.sess = tx[x].w.sess
        /\ v.w.verdict = tx[x].w.verdict /\ v.w.deactivate = tx[x].w.deactivate
    BY <1>1 DEF Transactions, Writes
  <2> HIDE DEF v
  <2> QED BY <2>1, <2>2, <2>3
<1> QED BY <1>2, <1>3

LEMMA StartStatusKeeps ==
    ASSUME LifeInv, NEW x \in Actors, StartStatus(x)
    PROVE  LifeInv'
<1>1. tx[x].kind = "start" /\ StartInv(x) /\ tx[x].pc = "start_status"
  BY StepKinds DEF StartStatus
<1>2. PICK v \in Transactions :
         /\ tx' = [tx EXCEPT ![x] = v] /\ v.pc = "commit"
         /\ v.kind = tx[x].kind /\ v.app = tx[x].app /\ v.sid = tx[x].sid
         /\ v.w.cooled = tx[x].w.cooled /\ v.w.sess = tx[x].w.sess
         /\ v.w.verdict = tx[x].w.verdict /\ v.w.deactivate = tx[x].w.deactivate
         /\ v.w.status \in {"INTERVIEW_PENDING", tx[x].w.status}
  <2>1. WriteStatus(x, "INTERVIEW_PENDING", "commit") /\ "INTERVIEW_PENDING" \in Statuses
        /\ "commit" \in PCs
    BY DEF StartStatus, Statuses, PCs
  <2> QED BY <2>1, WriteStatusMoves
<1>3. tx'[x] = v
  BY <1>2, StepKinds
<1>4. UNCHANGED <<db, chat, inbox, sent, ml, ml_cache, faults>>
  BY DEF StartStatus
<1>5. StartInv(x)' /\ EndInv(x)' /\ VerdictInv(x)'
  BY <1>1, <1>2, <1>3, <1>4 DEF StartInv, EndInv, VerdictInv, db
<1>6. \A q \in Sessions : ~LeavesStatus(x, q)'
  BY <1>1, <1>2, <1>3 DEF LeavesStatus
<1>7. v.kind # None
  BY <1>1, <1>2, KindsDiffer DEF Kinds
<1> QED BY <1>1, <1>2, <1>4, <1>5, <1>6, <1>7, TxMoves

-----------------------------------------------------------------------------
(***************************************************************************)
(* The steps of an end.                                                    *)
(***************************************************************************)
LEMMA EndLoadSessionKeeps ==
    ASSUME LifeInv, NEW r \in Requests, NEW s \in Sessions, EndLoadSession(r, s)
    PROVE  LifeInv'
<1> DEFINE v == [Begin("end", "end_app") EXCEPT !.sid = s, !.app = sess[s].app,
                                                !.sees = sess[s].state]
<1>1. /\ tx' = [tx EXCEPT ![r] = v] /\ UNCHANGED <<db, chat, inbox, sent, ml, ml_cache, faults>>
      /\ r \in Actors /\ sess[s].state # "NONE"
  BY DEF EndLoadSession, Actors
<1>2. /\ v.kind = "end" /\ v.pc = "end_app" /\ v.app = sess[s].app /\ v.sid = s
      /\ v.w = NoWrites /\ v.seen = None
  BY DEF Begin, Idle
<1>3. sess[s].app \in Apps /\ sess[s].state \in {"ACTIVE", "COMPLETED"}
  BY <1>1 DEF LifeInv, TypeOK, RowsTypeOK, SessionsHaveApps
<1>4. v \in Transactions
  BY <1>3, IdleFields DEF Begin, Transactions, PCs, Kinds
<1> HIDE DEF v
<1>5. tx'[r] = v
  BY <1>1 DEF LifeInv, TypeOK
<1>6. EndInv(r)'
  BY <1>1, <1>2, <1>3, <1>5, IdleFields, KindsDiffer DEF EndInv, db
<1>7. StartInv(r)' /\ VerdictInv(r)'
  BY <1>2, <1>5 DEF StartInv, VerdictInv
<1>8. \A q \in Sessions : ~LeavesStatus(r, q)'
  BY <1>2, <1>5 DEF LeavesStatus
<1>9. v.kind # None
  BY <1>2, KindsDiffer DEF Kinds
<1> QED BY <1>1, <1>2, <1>4, <1>6, <1>7, <1>8, <1>9, TxMoves

LEMMA EndLoadAppKeeps ==
    ASSUME LifeInv, NEW x \in Actors, EndLoadApp(x)
    PROVE  LifeInv'
<1>1. tx[x] \in Transactions /\ tx[x].kind = "end" /\ EndInv(x) /\ tx[x].pc = "end_app"
  BY StepKinds DEF EndLoadApp
<1>2. UNCHANGED <<db, chat, inbox, sent, ml, ml_cache, faults>>
  BY DEF EndLoadApp
<1>3. CASE End(x)
  BY <1>2, <1>3, TxEnds
<1>4. CASE ~End(x)
  <2> DEFINE h == tx[x].sid \in chat
             v == [tx[x] EXCEPT !.seen = status[tx[x].app], !.heard = h, !.pc = "complete"]
  <2>1. tx' = [tx EXCEPT ![x] = v]
    BY <1>4 DEF EndLoadApp
  <2>2. h \in BOOLEAN
    OBVIOUS
  <2> HIDE DEF h
  <2>3. status[tx[x].app] \in Statuses
    BY <1>1 DEF EndInv, LifeInv, TypeOK, RowsTypeOK
  <2>4. v \in Transactions
    BY <1>1, <2>2, <2>3 DEF Transactions, PCs
  <2>5. /\ v.kind = "end" /\ v.pc = "complete" /\ v.app = tx[x].app /\ v.sid = tx[x].sid
        /\ v.w = tx[x].w /\ v.seen = status[tx[x].app]
    BY <1>1 DEF Transactions
  <2> HIDE DEF v
  <2>6. tx'[x] = v
    BY <2>1, StepKinds
  <2>7. EndInv(x)'
    BY <1>1, <1>2, <2>5, <2>6 DEF EndInv, db
  <2>8. StartInv(x)' /\ VerdictInv(x)'
    BY <2>5, <2>6 DEF StartInv, VerdictInv
  <2>9. \A q \in Sessions : LeavesStatus(x, q)' => status[sess[q].app] # "INTERVIEW_PENDING"
    BY <1>1, <2>5, <2>6 DEF LeavesStatus, EndInv
  <2>10. v.kind # None
    BY <2>5, KindsDiffer DEF Kinds
  <2> QED BY <1>2, <2>1, <2>4, <2>5, <2>7, <2>8, <2>9, <2>10, TxMoves
<1> QED BY <1>3, <1>4

LEMMA EndCompleteKeeps ==
    ASSUME LifeInv, NEW x \in Actors, EndComplete(x)
    PROVE  LifeInv'
<1> DEFINE v == [tx[x] EXCEPT !.w = [tx[x].w EXCEPT !.sess = "COMPLETED"], !.pc = "cooldown"]
<1>1. /\ tx \in [Actors -> Transactions] /\ tx[x] \in Transactions /\ tx[x].w \in Writes
      /\ tx[x].kind = "end" /\ EndInv(x) /\ tx[x].pc = "complete"
  BY StepKinds DEF EndComplete
<1>2. tx' = [tx EXCEPT ![x] = v] /\ UNCHANGED <<db, chat, inbox, sent, ml, ml_cache, faults>>
  BY <1>1 DEF EndComplete
<1>3. v \in Transactions
  BY <1>1 DEF Transactions, Writes, PCs
<1>4. /\ v.kind = "end" /\ v.pc = "cooldown" /\ v.app = tx[x].app /\ v.sid = tx[x].sid
      /\ v.seen = tx[x].seen /\ v.w.sess = "COMPLETED" /\ v.w.status = tx[x].w.status
      /\ v.w.cooled = tx[x].w.cooled /\ v.w.verdict = tx[x].w.verdict
      /\ v.w.deactivate = tx[x].w.deactivate
  BY <1>1 DEF Transactions, Writes
<1> HIDE DEF v
<1>5. tx'[x] = v
  BY <1>1, <1>2
<1>6. EndInv(x)' /\ StartInv(x)' /\ VerdictInv(x)'
  BY <1>1, <1>2, <1>4, <1>5 DEF EndInv, StartInv, VerdictInv, db
<1>7. \A q \in Sessions : LeavesStatus(x, q)' => LeavesStatus(x, q)
  BY <1>1, <1>4, <1>5 DEF LeavesStatus
<1>8. v.kind # None
  BY <1>4, KindsDiffer DEF Kinds
<1> QED BY <1>2, <1>3, <1>4, <1>6, <1>7, <1>8, TxMoves

LEMMA EndCooldownKeeps ==
    ASSUME LifeInv, NEW x \in Actors, EndCooldown(x)
    PROVE  LifeInv'
<1>1. /\ tx \in [Actors -> Transactions] /\ tx[x] \in Transactions /\ tx[x].w \in Writes
      /\ tx[x].kind = "end" /\ EndInv(x) /\ tx[x].pc = "cooldown"
  BY StepKinds DEF EndCooldown
<1>2. PICK new : new = IF tx[x].seen = "INTERVIEW_DONE" THEN None ELSE "INTERVIEW_DONE"
  OBVIOUS
<1>3. PICK seen : seen = IF new = None THEN status[tx[x].app] ELSE new
  OBVIOUS
<1> DEFINE v == [tx[x] EXCEPT !.w = [tx[x].w EXCEPT !.cooled = TRUE, !.status = new],
                              !.seen = seen, !.pc = "send"]
<1>4. tx' = [tx EXCEPT ![x] = v] /\ UNCHANGED <<db, chat, inbox, sent, ml, ml_cache, faults>>
  <2>1. /\ tx' = [tx EXCEPT ![x].w.cooled = TRUE, ![x].w.status = new, ![x].seen = seen,
                            ![x].pc = "send"]
        /\ UNCHANGED <<db, chat, inbox, sent, ml, ml_cache, faults>>
    BY <1>2, <1>3 DEF EndCooldown
  <2> QED BY <2>1
<1>5. new \in Statuses \cup {None} /\ seen \in Statuses
  <2>1. status[tx[x].app] \in Statuses
    BY <1>1 DEF EndInv, LifeInv, TypeOK, RowsTypeOK
  <2> QED BY <1>2, <1>3, <2>1, KindsDiffer DEF Statuses
<1>6. v \in Transactions
  BY <1>1, <1>5 DEF Transactions, Writes, PCs
<1>7. /\ v.kind = "end" /\ v.pc = "send" /\ v.app = tx[x].app /\ v.sid = tx[x].sid
      /\ v.w.sess = tx[x].w.sess /\ v.w.status = new
      /\ v.w.cooled = TRUE /\ v.w.verdict = tx[x].w.verdict
      /\ v.w.deactivate = tx[x].w.deactivate
  BY <1>1 DEF Transactions, Writes
<1> HIDE DEF v
<1>8. tx'[x] = v
  BY <1>1, <1>4
<1>9. EndInv(x)' /\ StartInv(x)' /\ VerdictInv(x)'
  BY <1>1, <1>2, <1>4, <1>7, <1>8, KindsDiffer DEF EndInv, StartInv, VerdictInv, db
<1>10. \A q \in Sessions : LeavesStatus(x, q)' => LeavesStatus(x, q)
  BY <1>1, <1>2, <1>7, <1>8, KindsDiffer DEF LeavesStatus
<1>11. v.kind # None
  BY <1>7, KindsDiffer DEF Kinds
<1> QED BY <1>4, <1>6, <1>7, <1>9, <1>10, <1>11, TxMoves

\* Sending the meta message, and forgetting the chatbot: no start has a
\* session that is being ended.
LEMMA SendLeaves ==
    ASSUME LifeInv, NEW x \in Actors, tx[x].pc = "send", chat' = chat \ {tx[x].sid},
           Deliver(tx[x].app) \/ UNCHANGED <<inbox, sent>>,
           faults' \in 0..MaxFaults, UNCHANGED <<db, ml, ml_cache>>
    PROVE  /\ tx[x].kind = "end" /\ EndInv(x)
           /\ ServicesTypeOK' /\ sent \subseteq sent' /\ sent' \subseteq sent \cup {tx[x].app}
           /\ \A y \in Actors \ {x} : KeepsSession(y)
           /\ \A a \in Apps : ml_cache'[a].verdict # None => verdict[a] # None
<1>1. tx[x].kind = "end" /\ EndInv(x) /\ tx[x].app \in Apps
  BY StepKinds DEF EndInv
<1>2. inbox' \in [Users -> Seq(Apps)] /\ sent' \subseteq Apps /\ sent \subseteq sent'
      /\ sent' \subseteq sent \cup {tx[x].app}
  <2>1. inbox \in [Users -> Seq(Apps)] /\ sent \subseteq Apps
    BY DEF LifeInv, TypeOK, ServicesTypeOK
  <2>2. \A u \in Users : Append(inbox[u], tx[x].app) \in Seq(Apps)
    BY <1>1, <2>1
  <2>3. CASE Deliver(tx[x].app)
    <3>1. Owner[tx[x].app] \in Users
      BY <1>1, OwnerAssumption
    <3>2. inbox' = [inbox EXCEPT ![Owner[tx[x].app]] = Append(inbox[Owner[tx[x].app]], tx[x].app)]
      BY <2>3 DEF Deliver
    <3>3. sent' = sent \cup {tx[x].app}
      BY <2>3 DEF Deliver
    <3>4. inbox' \in [Users -> Seq(Apps)]
      BY <2>1, <2>2, <3>1, <3>2
    <3> QED BY <1>1, <2>1, <3>3, <3>4
  <2> QED BY <2>1, <2>3
<1>3. ServicesTypeOK'
  BY <1>2 DEF LifeInv, TypeOK, ServicesTypeOK
<1>4. \A y \in Actors \ {x} : KeepsSession(y)
  <2> SUFFICES ASSUME NEW y \in Actors, tx[y].kind = "start", tx[y].pc # "create"
               PROVE  tx[y].sid \in chat' /\ sess'[tx[y].sid] = NoSession
    BY DEF KeepsSession
  <2>1. tx[y].sid \in chat /\ sess[tx[y].sid] = NoSession
    BY DEF LifeInv, TxInv, StartInv
  <2>2. tx[y].sid # tx[x].sid
    BY <1>1, <2>1 DEF EndInv, NoSession
  <2> QED BY <2>1, <2>2 DEF db
<1>5. \A a \in Apps : ml_cache'[a].verdict # None => verdict[a] # None
  BY DEF LifeInv, VerdictOnRecord
<1> QED BY <1>1, <1>2, <1>3, <1>4, <1>5

\* An end that has sent, or failed to, goes on to its commit.
LEMMA SendMoves ==
    ASSUME LifeInv, NEW x \in Actors, tx[x].pc = "send", chat' = chat \ {tx[x].sid},
           Deliver(tx[x].app) \/ UNCHANGED <<inbox, sent>>,
           faults' \in 0..MaxFaults, UNCHANGED <<db, ml, ml_cache>>,
           NEW v \in Transactions, tx' = [tx EXCEPT ![x] = v], v.pc = "commit",
           v.kind = tx[x].kind, v.app = tx[x].app, v.sid = tx[x].sid,
           v.w.cooled = tx[x].w.cooled, v.w.sess = tx[x].w.sess,
           v.w.verdict = tx[x].w.verdict, v.w.deactivate = tx[x].w.deactivate,
           \/ v.w.status = tx[x].w.status
           \/ v.w.status = "ML_PROCESSING" /\ tx[x].app \in sent'
    PROVE  LifeInv'
<1>1. /\ tx[x].kind = "end" /\ EndInv(x)
      /\ ServicesTypeOK' /\ sent \subseteq sent'
      /\ \A y \in Actors \ {x} : KeepsSession(y)
      /\ \A a \in Apps : ml_cache'[a].verdict # None => verdict[a] # None
  BY SendLeaves
<1>2. tx'[x] = v
  BY StepKinds
<1>3. EndInv(x)'
  BY <1>1, <1>2, KindsDiffer DEF EndInv, db
<1>4. StartInv(x)' /\ VerdictInv(x)' /\ IdleInv(x)'
  BY <1>1, <1>2, KindsDiffer DEF StartInv, VerdictInv, IdleInv, Kinds
<1>5. \A q \in Sessions : LeavesStatus(x, q)' => LeavesStatus(x, q)
  BY <1>1, <1>2, KindsDiffer DEF LeavesStatus
<1>6. UNCHANGED db /\ v.kind # "start"
  BY <1>1
<1> QED BY <1>1, <1>3, <1>4, <1>5, <1>6, MoveKeeps

LEMMA EndSendKeeps ==
    ASSUME LifeInv, NEW x \in Actors, EndSend(x)
    PROVE  LifeInv'
<1>1. /\ tx[x].pc = "send" /\ chat' = chat \ {tx[x].sid} /\ Deliver(tx[x].app)
      /\ faults' \in 0..MaxFaults /\ UNCHANGED <<db, ml, ml_cache>>
  BY DEF EndSend, LifeInv, TypeOK, ServicesTypeOK
<1>2. PICK v \in Transactions :
         /\ tx' = [tx EXCEPT ![x] = v] /\ v.pc = "commit"
         /\ v.kind = tx[x].kind /\ v.app = tx[x].app /\ v.sid = tx[x].sid
         /\ v.w.cooled = tx[x].w.cooled /\ v.w.sess = tx[x].w.sess
         /\ v.w.verdict = tx[x].w.verdict /\ v.w.deactivate = tx[x].w.deactivate
         /\ v.w.status \in {"ML_PROCESSING", tx[x].w.status}
  <2>1. WriteStatus(x, "ML_PROCESSING", "commit") /\ "ML_PROCESSING" \in Statuses
        /\ "commit" \in PCs
    BY DEF EndSend, Statuses, PCs
  <2> QED BY <2>1, WriteStatusMoves
<1>3. tx[x].app \in sent'
  BY <1>1 DEF Deliver
<1> QED BY <1>1, <1>2, <1>3, SendMoves

LEMMA EndSendFailsKeeps ==
    ASSUME LifeInv, NEW x \in Actors, EndSendFails(x)
    PROVE  LifeInv'
<1> DEFINE v == [tx[x] EXCEPT !.pc = "commit"]
<1>1. /\ tx[x].pc = "send" /\ chat' = chat \ {tx[x].sid}
      /\ Deliver(tx[x].app) \/ UNCHANGED <<inbox, sent>>
      /\ faults' \in 0..MaxFaults /\ UNCHANGED <<db, ml, ml_cache>>
  BY FaultAssumption DEF EndSendFails, Fault, LifeInv, TypeOK, ServicesTypeOK
<1>2. tx' = [tx EXCEPT ![x] = v]
  BY DEF EndSendFails, Move
<1>3. tx[x] \in Transactions
  BY StepKinds
<1>4. /\ v \in Transactions /\ v.pc = "commit" /\ v.w = tx[x].w
      /\ v.kind = tx[x].kind /\ v.app = tx[x].app /\ v.sid = tx[x].sid
  BY <1>3 DEF Transactions, PCs
<1> HIDE DEF v
<1> QED BY <1>1, <1>2, <1>4, SendMoves

LEMMA EndStatusFailsKeeps ==
    ASSUME LifeInv, NEW x \in Actors, EndStatusFails(x)
    PROVE  LifeInv'
<1>1. /\ tx[x].pc = "send" /\ chat' = chat \ {tx[x].sid} /\ Deliver(tx[x].app)
      /\ faults' \in 0..MaxFaults /\ UNCHANGED <<db, ml, ml_cache>> /\ End(x)
  BY FaultAssumption DEF EndStatusFails, Fault, LifeInv, TypeOK, ServicesTypeOK
<1>2. /\ ServicesTypeOK' /\ sent \subseteq sent'
      /\ \A y \in Actors \ {x} : KeepsSession(y)
      /\ \A a \in Apps : ml_cache'[a].verdict # None => verdict[a] # None
  BY <1>1, SendLeaves
<1> QED BY <1>1, <1>2, EndKeeps

-----------------------------------------------------------------------------
(***************************************************************************)
(* The steps of a poller's task and of an override.                        *)
(***************************************************************************)
\* A task or an override goes on: it is no start and no end.
LEMMA VerdictMoves ==
    ASSUME LifeInv, NEW x \in Actors, NEW v \in Transactions, tx' = [tx EXCEPT ![x] = v],
           v.kind \in {"override", "poll"}, VerdictInv(x)',
           UNCHANGED <<db, chat, inbox, sent, ml>>, ServicesTypeOK',
           \A a \in Apps : ml_cache'[a].verdict # None => verdict[a] # None
    PROVE  LifeInv'
<1>1. tx'[x] = v
  BY StepKinds
<1>2. StartInv(x)' /\ EndInv(x)' /\ IdleInv(x)'
  BY <1>1, KindsDiffer DEF StartInv, EndInv, IdleInv, Kinds
<1>3. \A s \in Sessions : ~LeavesStatus(x, s)'
  BY <1>1 DEF LeavesStatus
<1>4. \A y \in Actors : KeepsSession(y)
  BY DEF LifeInv, TxInv, StartInv, KeepsSession, db
<1> QED BY <1>2, <1>3, <1>4, MoveKeeps

LEMMA VerdictTxMoves ==
    ASSUME LifeInv, NEW x \in Actors, NEW v \in Transactions, tx' = [tx EXCEPT ![x] = v],
           v.kind \in {"override", "poll"}, VerdictInv(x)',
           UNCHANGED <<db, chat, inbox, sent, ml, ml_cache, faults>>
    PROVE  LifeInv'
BY TxOnly, VerdictMoves

LEMMA OverrideLoadKeeps ==
    ASSUME LifeInv, NEW r \in Requests, NEW a \in Apps, NEW o \in Overrides,
           OverrideLoad(r, a, o)
    PROVE  LifeInv'
<1>1. PICK new \in VerdictRow : new = [value |-> o, of |-> "admin"]
  BY VerdictsAssumption DEF VerdictRow
<1> DEFINE v == [Begin("override", "read_verdict") EXCEPT !.app = a, !.seen = status[a],
                                                          !.new = new]
<1>2. /\ tx' = [tx EXCEPT ![r] = v] /\ UNCHANGED <<db, chat, inbox, sent, ml, ml_cache, faults>>
      /\ r \in Actors
  BY <1>1 DEF OverrideLoad, Actors
<1>3. /\ v.kind = "override" /\ v.pc = "read_verdict" /\ v.app = a /\ v.new = new
      /\ v.row = None /\ v.w = NoWrites
  BY DEF Begin, Idle
<1>4. v \in Transactions
  <2>1. status[a] \in Statuses
    BY DEF LifeInv, TypeOK, RowsTypeOK
  <2> QED BY <2>1, IdleFields DEF Begin, Transactions, PCs, Kinds
<1> HIDE DEF v
<1>5. tx'[r] = v
  BY <1>2 DEF LifeInv, TypeOK
<1>6. VerdictInv(r)'
  BY <1>3, <1>5, IdleFields, KindsDiffer DEF VerdictInv
<1> QED BY <1>2, <1>3, <1>4, <1>6, VerdictTxMoves

LEMMA PollStatusKeeps ==
    ASSUME LifeInv, NEW x \in Actors, PollStatus(x)
    PROVE  LifeInv'
<1>1. /\ tx \in [Actors -> Transactions] /\ tx[x] \in Transactions
      /\ tx[x].kind = "poll" /\ VerdictInv(x) /\ tx[x].pc = "poll_status" /\ tx[x].app \in Apps
  BY StepKinds DEF PollStatus, VerdictInv
<1>2. PICK answer : answer = ml[Owner[tx[x].app]].status
  OBVIOUS
<1>3. answer \in MLStatuses
  <2>1. Owner[tx[x].app] \in Users
    BY <1>1, OwnerAssumption
  <2> QED BY <1>2, <2>1 DEF LifeInv, TypeOK, ServicesTypeOK
<1>4. ml_cache' = [ml_cache EXCEPT ![tx[x].app] = [status |-> answer, verdict |-> None]]
  BY <1>2 DEF PollStatus
<1>5. UNCHANGED <<db, chat, inbox, sent, ml, faults>>
  BY DEF PollStatus
<1>6. ml_cache \in [Apps -> [status : MLStatuses \cup {None}, verdict : Verdicts \cup {None}]]
  BY DEF LifeInv, TypeOK, ServicesTypeOK
<1>7. ServicesTypeOK'
  BY <1>1, <1>3, <1>4, <1>5, <1>6 DEF LifeInv, TypeOK, ServicesTypeOK
<1>8. \A a \in Apps : ml_cache'[a].verdict # None => verdict[a] # None
  BY <1>1, <1>4, <1>6 DEF LifeInv, VerdictOnRecord
<1>9. CASE answer = "DONE"
  <2> DEFINE v == [tx[x] EXCEPT !.pc = "poll_verdict"]
  <2>1. tx' = [tx EXCEPT ![x] = v]
    BY <1>2, <1>9 DEF PollStatus, Move
  <2>2. /\ v \in Transactions /\ v.pc = "poll_verdict" /\ v.kind = "poll" /\ v.app = tx[x].app
        /\ v.w = tx[x].w /\ v.new = tx[x].new /\ v.row = tx[x].row
    BY <1>1 DEF Transactions, PCs
  <2> HIDE DEF v
  <2>3. VerdictInv(x)'
    BY <1>1, <1>5, <2>1, <2>2 DEF VerdictInv, db
  <2> QED BY <1>5, <1>7, <1>8, <2>1, <2>2, <2>3, VerdictMoves
<1>10. CASE answer # "DONE"
  <2>1. End(x)
    BY <1>2, <1>10 DEF PollStatus
  <2>2. \A y \in Actors : KeepsSession(y)
    BY <1>5 DEF LifeInv, TxInv, StartInv, KeepsSession, db
  <2> QED BY <1>5, <1>7, <1>8, <2>1, <2>2, EndKeeps
<1> QED BY <1>9, <1>10

LEMMA PollVerdictKeeps ==
    ASSUME LifeInv, NEW x \in Actors, PollVerdict(x)
    PROVE  LifeInv'
<1>1. /\ tx \in [Actors -> Transactions] /\ tx[x] \in Transactions
      /\ tx[x].kind = "poll" /\ VerdictInv(x) /\ tx[x].pc = "poll_verdict" /\ tx[x].app \in Apps
  BY StepKinds DEF PollVerdict, VerdictInv
<1>2. PICK u \in Users : u = Owner[tx[x].app]
  BY <1>1, OwnerAssumption
<1>3. UNCHANGED <<db, chat, inbox, sent, ml, ml_cache, faults>>
  BY DEF PollVerdict
<1>4. CASE ml[u].status = "DONE"
  <2>1. ml[u].row \in VerdictRow
    BY <1>4 DEF LifeInv, TypeOK, ServicesTypeOK
  <2> DEFINE v == [tx[x] EXCEPT !.new = ml[u].row, !.pc = "read_verdict"]
  <2>2. tx' = [tx EXCEPT ![x] = v]
    BY <1>2, <1>4 DEF PollVerdict
  <2>3. /\ v \in Transactions /\ v.pc = "read_verdict" /\ v.kind = "poll" /\ v.app = tx[x].app
        /\ v.w = tx[x].w /\ v.new = ml[u].row /\ v.row = tx[x].row
    BY <1>1, <2>1 DEF Transactions, PCs
  <2> HIDE DEF v
  <2>4. VerdictInv(x)'
    BY <1>1, <1>3, <2>1, <2>2, <2>3, KindsDiffer DEF VerdictInv, db
  <2> QED BY <1>3, <2>2, <2>3, <2>4, VerdictTxMoves
<1>5. CASE ml[u].status # "DONE"
  BY <1>2, <1>3, <1>5, TxEnds DEF PollVerdict
<1> QED BY <1>4, <1>5

LEMMA PollVerdictErrorKeeps ==
    ASSUME LifeInv, NEW x \in Actors, PollVerdictError(x)
    PROVE  LifeInv'
<1> DEFINE v == [tx[x] EXCEPT !.new = ErrorBody, !.pc = "read_verdict"]
<1>1. /\ tx \in [Actors -> Transactions] /\ tx[x] \in Transactions
      /\ tx[x].kind = "poll" /\ VerdictInv(x) /\ tx[x].pc = "poll_verdict" /\ tx[x].app \in Apps
  BY StepKinds DEF PollVerdictError, VerdictInv
<1>2. /\ tx' = [tx EXCEPT ![x] = v]
      /\ UNCHANGED <<db, chat, inbox, sent, ml, ml_cache>> /\ Fault
  BY DEF PollVerdictError
<1>3. ErrorBody \in VerdictRow
  BY DEF ErrorBody, VerdictRow
<1>4. /\ v \in Transactions /\ v.pc = "read_verdict" /\ v.kind = "poll" /\ v.app = tx[x].app
      /\ v.w = tx[x].w /\ v.new = ErrorBody /\ v.row = tx[x].row
  BY <1>1, <1>3 DEF Transactions, PCs
<1> HIDE DEF v
<1>5. VerdictInv(x)'
  BY <1>1, <1>2, <1>3, <1>4, KindsDiffer DEF VerdictInv, db
<1>6. ServicesTypeOK'
  <2>1. faults' \in 0..MaxFaults
    BY <1>2, FaultAssumption DEF Fault, LifeInv, TypeOK, ServicesTypeOK
  <2> QED BY <1>2, <2>1 DEF LifeInv, TypeOK, ServicesTypeOK
<1>7. \A a \in Apps : ml_cache'[a].verdict # None => verdict[a] # None
  BY <1>2 DEF LifeInv, VerdictOnRecord
<1> QED BY <1>1, <1>2, <1>4, <1>5, <1>6, <1>7, VerdictMoves

LEMMA ReadVerdictKeeps ==
    ASSUME LifeInv, NEW x \in Actors, ReadVerdict(x)
    PROVE  LifeInv'
<1> DEFINE v == [tx[x] EXCEPT !.row = verdict[tx[x].app], !.pc = "write_verdict"]
<1>1. /\ tx \in [Actors -> Transactions] /\ tx[x] \in Transactions /\ VerdictInv(x)
      /\ tx[x].kind \in {"override", "poll"} /\ tx[x].pc = "read_verdict" /\ tx[x].app \in Apps
  BY StepKinds DEF ReadVerdict, VerdictInv
<1>2. tx' = [tx EXCEPT ![x] = v] /\ UNCHANGED <<db, chat, inbox, sent, ml, ml_cache, faults>>
  BY DEF ReadVerdict
<1>3. verdict[tx[x].app] \in VerdictRow \cup {None}
  BY <1>1 DEF LifeInv, TypeOK, RowsTypeOK
<1>4. /\ v \in Transactions /\ v.pc = "write_verdict" /\ v.kind = tx[x].kind
      /\ v.app = tx[x].app /\ v.w = tx[x].w /\ v.new = tx[x].new /\ v.row = verdict[tx[x].app]
  BY <1>1, <1>3 DEF Transactions, PCs
<1> HIDE DEF v
<1>5. VerdictInv(x)'
  BY <1>1, <1>2, <1>4 DEF VerdictInv, db
<1> QED BY <1>1, <1>2, <1>4, <1>5, VerdictTxMoves

\* The upsert yields a row.
LEMMA UpsertedIsRow ==
    ASSUME LifeInv, NEW x \in Actors, VerdictInv(x), tx[x].kind \in {"override", "poll"},
           tx[x].pc = "write_verdict"
    PROVE  Upserted(x) \in VerdictRow
<1>1. tx[x] \in Transactions
  BY StepKinds
<1>2. tx[x].app \in Apps /\ tx[x].new \in VerdictRow /\ tx[x].row \in VerdictRow \cup {None}
  BY <1>1 DEF VerdictInv, Transactions
<1>3. tx[x].row # None => verdict[tx[x].app] \in VerdictRow
  BY <1>2 DEF VerdictInv, LifeInv, TypeOK, RowsTypeOK
<1> QED BY <1>2, <1>3 DEF Upserted, VerdictRow

LEMMA WriteVerdictKeeps ==
    ASSUME LifeInv, NEW x \in Actors, WriteVerdict(x)
    PROVE  LifeInv'
<1>1. /\ tx \in [Actors -> Transactions] /\ tx[x] \in Transactions /\ tx[x].w \in Writes
      /\ VerdictInv(x) /\ tx[x].kind \in {"override", "poll"} /\ tx[x].pc = "write_verdict"
  BY StepKinds DEF WriteVerdict
<1>2. UNCHANGED <<db, chat, inbox, sent, ml, ml_cache, faults>>
  BY DEF WriteVerdict
<1>3. CASE End(x)
  BY <1>2, <1>3, TxEnds
<1>4. CASE ~End(x)
  <2>1. PICK next : next = IF tx[x].kind = "poll" THEN "poll_app" ELSE "write_status"
    OBVIOUS
  <2>2. PICK row \in VerdictRow : row = Upserted(x)
    BY <1>1, UpsertedIsRow
  <2> DEFINE v == [tx[x] EXCEPT !.w = [tx[x].w EXCEPT !.verdict = row], !.pc = next]
  <2>3. tx' = [tx EXCEPT ![x] = v]
    BY <1>1, <1>4, <2>1, <2>2 DEF WriteVerdict
  <2>4. v \in Transactions
    <3>1. next \in PCs
      BY <2>1 DEF PCs
    <3>2. [tx[x].w EXCEPT !.verdict = row] \in Writes
      BY <1>1 DEF Writes
    <3> QED BY <1>1, <3>1, <3>2 DEF Transactions
  <2>5. /\ v.pc = next /\ v.kind = tx[x].kind /\ v.app = tx[x].app
        /\ v.new = tx[x].new /\ v.row = tx[x].row
        /\ v.w.verdict = row /\ v.w.status = tx[x].w.status /\ v.w.sess = tx[x].w.sess
        /\ v.w.cooled = tx[x].w.cooled /\ v.w.deactivate = tx[x].w.deactivate
    BY <1>1 DEF Transactions, Writes
  <2> HIDE DEF v
  <2>6. VerdictInv(x)'
    BY <1>1, <1>2, <2>1, <2>3, <2>4, <2>5, KindsDiffer DEF VerdictInv, db
  <2> QED BY <1>1, <1>2, <2>3, <2>4, <2>5, <2>6, VerdictTxMoves
<1> QED BY <1>3, <1>4

LEMMA PollAppKeeps ==
    ASSUME LifeInv, NEW x \in Actors, PollApp(x)
    PROVE  LifeInv'
<1> DEFINE v == [tx[x] EXCEPT !.seen = status[tx[x].app], !.pc = "write_status"]
<1>1. /\ tx \in [Actors -> Transactions] /\ tx[x] \in Transactions /\ VerdictInv(x)
      /\ tx[x].kind = "poll" /\ tx[x].pc = "poll_app" /\ tx[x].app \in Apps
  BY StepKinds DEF PollApp, VerdictInv
<1>2. tx' = [tx EXCEPT ![x] = v] /\ UNCHANGED <<db, chat, inbox, sent, ml, ml_cache, faults>>
  BY DEF PollApp
<1>3. status[tx[x].app] \in Statuses
  BY <1>1 DEF LifeInv, TypeOK, RowsTypeOK
<1>4. /\ v \in Transactions /\ v.pc = "write_status" /\ v.kind = tx[x].kind
      /\ v.app = tx[x].app /\ v.w = tx[x].w /\ v.new = tx[x].new /\ v.row = tx[x].row
  BY <1>1, <1>3 DEF Transactions, PCs
<1> HIDE DEF v
<1>5. VerdictInv(x)'
  BY <1>1, <1>2, <1>4 DEF VerdictInv, db
<1> QED BY <1>1, <1>2, <1>4, <1>5, VerdictTxMoves

LEMMA ShownIsVerdict ==
    ASSUME NEW row \in VerdictRow
    PROVE  Shown(row) \in Verdicts /\ (Shown(row) = "FRAUD" <=> row.value = "FRAUD")
BY NoneAssumption DEF Shown, VerdictRow, Verdicts, Statuses

LEMMA WriteVerdictStatusKeeps ==
    ASSUME LifeInv, NEW x \in Actors, WriteVerdictStatus(x)
    PROVE  LifeInv'
<1>1. /\ tx[x] \in Transactions /\ VerdictInv(x) /\ tx[x].pc = "write_status"
      /\ tx[x].kind \in {"override", "poll"}
  BY StepKinds DEF WriteVerdictStatus
<1>2. PICK next : next = IF tx[x].kind = "poll" /\ tx[x].new.value = "FRAUD"
                         THEN "deactivate" ELSE "commit"
  OBVIOUS
<1>3. tx[x].new \in VerdictRow
  BY <1>1 DEF VerdictInv, Transactions
<1>4. PICK v \in Transactions :
         /\ tx' = [tx EXCEPT ![x] = v] /\ v.pc = next
         /\ v.kind = tx[x].kind /\ v.app = tx[x].app
         /\ v.row = tx[x].row /\ v.new = tx[x].new
         /\ v.w.cooled = tx[x].w.cooled /\ v.w.sess = tx[x].w.sess
         /\ v.w.verdict = tx[x].w.verdict /\ v.w.deactivate = tx[x].w.deactivate
         /\ v.w.status \in {Shown(tx[x].new), tx[x].w.status}
  <2>1. WriteStatus(x, Shown(tx[x].new), next)
    BY <1>2 DEF WriteVerdictStatus
  <2>2. Shown(tx[x].new) \in Statuses /\ next \in PCs
    BY <1>2, <1>3, ShownIsVerdict DEF Statuses, PCs
  <2> QED BY <2>1, <2>2, WriteStatusMoves
<1>5. UNCHANGED <<db, chat, inbox, sent, ml, ml_cache, faults>>
  BY DEF WriteVerdictStatus
<1>6. tx'[x] = v /\ Shown(tx[x].new) \in Verdicts
  BY <1>3, <1>4, StepKinds, ShownIsVerdict
<1>7. VerdictInv(x)'
  BY <1>1, <1>2, <1>4, <1>5, <1>6 DEF VerdictInv, db
<1> QED BY <1>1, <1>4, <1>5, <1>7, VerdictTxMoves

LEMMA DeactivateUserKeeps ==
    ASSUME LifeInv, NEW x \in Actors, DeactivateUser(x)
    PROVE  LifeInv'
<1> DEFINE v == [tx[x] EXCEPT !.w = [tx[x].w EXCEPT !.deactivate = TRUE], !.pc = "commit"]
<1>1. /\ tx \in [Actors -> Transactions] /\ tx[x] \in Transactions /\ tx[x].w \in Writes
      /\ VerdictInv(x) /\ tx[x].kind = "poll" /\ tx[x].pc = "deactivate"
  BY StepKinds DEF DeactivateUser
<1>2. tx' = [tx EXCEPT ![x] = v] /\ UNCHANGED <<db, chat, inbox, sent, ml, ml_cache, faults>>
  BY <1>1 DEF DeactivateUser
<1>3. v \in Transactions
  BY <1>1 DEF Transactions, Writes, PCs
<1>4. /\ v.pc = "commit" /\ v.kind = tx[x].kind /\ v.app = tx[x].app
      /\ v.new = tx[x].new /\ v.row = tx[x].row
      /\ v.w.verdict = tx[x].w.verdict /\ v.w.status = tx[x].w.status
      /\ v.w.sess = tx[x].w.sess /\ v.w.cooled = tx[x].w.cooled
  BY <1>1 DEF Transactions, Writes
<1> HIDE DEF v
<1>5. VerdictInv(x)'
  BY <1>1, <1>2, <1>3, <1>4 DEF VerdictInv, db
<1> QED BY <1>1, <1>2, <1>3, <1>4, <1>5, VerdictTxMoves

LEMMA PollCacheKeeps ==
    ASSUME LifeInv, NEW x \in Actors, PollCache(x)
    PROVE  LifeInv'
<1>1. /\ tx[x] \in Transactions /\ VerdictInv(x) /\ tx[x].kind = "poll" /\ tx[x].pc = "cache"
  BY StepKinds DEF PollCache
<1>2. tx[x].app \in Apps /\ tx[x].new \in VerdictRow /\ verdict[tx[x].app] # None
  BY <1>1 DEF VerdictInv, Transactions
<1>3. PICK value \in Verdicts : value = Shown(tx[x].new)
  BY <1>2, ShownIsVerdict
<1>4. /\ ml_cache' = [ml_cache EXCEPT ![tx[x].app] = [status |-> "DONE", verdict |-> value]]
      /\ End(x) /\ UNCHANGED <<db, chat, inbox, sent, ml, faults>>
  BY <1>3 DEF PollCache
<1>5. ml_cache \in [Apps -> [status : MLStatuses \cup {None}, verdict : Verdicts \cup {None}]]
  BY DEF LifeInv, TypeOK, ServicesTypeOK
<1>6. ServicesTypeOK'
  BY <1>2, <1>4, <1>5 DEF LifeInv, TypeOK, ServicesTypeOK, MLStatuses
<1>7. \A a \in Apps : ml_cache'[a].verdict # None => verdict[a] # None
  BY <1>2, <1>4, <1>5 DEF LifeInv, VerdictOnRecord
<1>8. \A y \in Actors : KeepsSession(y)
  BY <1>4 DEF LifeInv, TxInv, StartInv, KeepsSession, db
<1> QED BY <1>4, <1>6, <1>7, <1>8, EndKeeps

-----------------------------------------------------------------------------
(***************************************************************************)
(* Polls, rollbacks, restarts and the ML service.                          *)
(***************************************************************************)
\* Several transactions change at once, none of them a start or an end
\* afterwards, and nothing is committed.
LEMMA ManyMove ==
    ASSUME LifeInv, UNCHANGED db, ServicesTypeOK', sent \subseteq sent',
           tx' \in [Actors -> Transactions],
           \A y \in Actors : \/ tx'[y] = tx[y] /\ KeepsSession(y)
                             \/ tx'[y].kind = "poll" /\ VerdictInv(y)'
                             \/ tx'[y] = Idle,
           \A a \in Apps : ml_cache'[a].verdict # None => verdict[a] # None
    PROVE  LifeInv'
<1>1. /\ status' = status /\ cooled' = cooled /\ sess' = sess /\ verdict' = verdict
      /\ active' = active
  BY DEF db
<1>2. TypeOK'
  BY <1>1 DEF LifeInv, TypeOK, RowsTypeOK
<1>3. ASSUME NEW y \in Actors
      PROVE  /\ StartInv(y)' /\ EndInv(y)' /\ VerdictInv(y)' /\ IdleInv(y)'
             /\ \/ tx'[y] = tx[y]
                \/ tx'[y].kind \notin {"start", "end"}
  <2>1. CASE tx'[y] = tx[y] /\ KeepsSession(y)
    <3>1. Grows
      BY <1>1 DEF Grows
    <3>2. StartInv(y) /\ EndInv(y) /\ VerdictInv(y) /\ IdleInv(y) /\ TypeOK
      BY DEF LifeInv, TxInv
    <3> QED BY <2>1, <3>1, <3>2, OthersKeep
  <2>2. CASE tx'[y].kind = "poll" /\ VerdictInv(y)'
    BY <2>2, KindsDiffer DEF StartInv, EndInv, IdleInv, Kinds
  <2>3. CASE tx'[y] = Idle
    BY <2>3, IdleFields, KindsDiffer DEF StartInv, EndInv, VerdictInv, IdleInv, Kinds
  <2> QED BY <2>1, <2>2, <2>3
<1>4. TxInv'
  BY <1>3 DEF TxInv
<1>5. SessionsDiffer'
  BY <1>3 DEF LifeInv, SessionsDiffer
<1>6. SessionsHaveApps' /\ CompletedMeansCooldown' /\ ProcessingWasSent' /\ VerdictOnRecord'
  BY <1>1 DEF LifeInv, SessionsHaveApps, CompletedMeansCooldown, ProcessingWasSent,
              VerdictOnRecord
<1>7. PendingCanEnd'
  <2> SUFFICES ASSUME NEW a \in Apps, status'[a] = "INTERVIEW_PENDING"
               PROVE  \E s \in Sessions : /\ sess'[s].app = a /\ sess'[s].state = "ACTIVE"
                                          /\ \A y \in Actors : ~LeavesStatus(y, s)'
    BY DEF PendingCanEnd
  <2>1. PICK s \in Sessions : /\ sess[s].app = a /\ sess[s].state = "ACTIVE"
                              /\ \A y \in Actors : ~LeavesStatus(y, s)
    BY <1>1 DEF LifeInv, PendingCanEnd
  <2>2. \A y \in Actors : ~LeavesStatus(y, s)'
    BY <1>3, <2>1 DEF LeavesStatus
  <2> QED BY <1>1, <2>1, <2>2
<1> QED BY <1>2, <1>4, <1>5, <1>6, <1>7 DEF LifeInv

LEMMA PollOnceKeeps ==
    ASSUME LifeInv, NEW p \in Pollers, PollOnce(p)
    PROVE  LifeInv'
<1>1. UNCHANGED <<db, chat, inbox, sent, ml, ml_cache, faults>>
  BY DEF PollOnce
<1>2. /\ UNCHANGED db /\ ServicesTypeOK' /\ sent \subseteq sent'
      /\ \A y \in Actors : KeepsSession(y)
      /\ \A a \in Apps : ml_cache'[a].verdict # None => verdict[a] # None
  BY <1>1, TxOnly
<1>3. ASSUME NEW y \in Actors
      PROVE  /\ tx'[y] \in Transactions
             /\ \/ tx'[y] = tx[y] /\ KeepsSession(y)
                \/ tx'[y].kind = "poll" /\ VerdictInv(y)'
                \/ tx'[y] = Idle
  <2>1. CASE tx'[y] = tx[y]
    BY <1>2, <2>1, StepKinds
  <2>2. CASE tx'[y] # tx[y]
    <3>1. PICK a \in Apps : tx'[y] = [Begin("poll", "poll_status") EXCEPT !.app = a]
      BY <2>2 DEF PollOnce, Tasks, Actors
    <3>2. tx'[y] \in Transactions
      BY <3>1, IdleFields DEF Begin, Transactions, PCs, Kinds
    <3>3. /\ tx'[y].kind = "poll" /\ tx'[y].pc = "poll_status" /\ tx'[y].app = a
          /\ tx'[y].w = NoWrites /\ tx'[y].row = None
      BY <3>1 DEF Begin, Idle
    <3>4. VerdictInv(y)'
      BY <3>3, IdleFields DEF VerdictInv
    <3> QED BY <3>2, <3>3, <3>4
  <2> QED BY <2>1, <2>2
<1>4. tx' \in [Actors -> Transactions]
  BY <1>3 DEF PollOnce
<1> QED BY <1>2, <1>3, <1>4, ManyMove

LEMMA RollbackKeeps ==
    ASSUME LifeInv, NEW x \in Actors, Rollback(x)
    PROVE  LifeInv'
<1>1. /\ End(x) /\ UNCHANGED <<db, chat, inbox, sent, ml, ml_cache>> /\ faults' \in 0..MaxFaults
  BY FaultAssumption DEF Rollback, Fault, LifeInv, TypeOK, ServicesTypeOK
<1>2. ServicesTypeOK'
  BY <1>1 DEF LifeInv, TypeOK, ServicesTypeOK
<1>3. \A y \in Actors : KeepsSession(y)
  BY <1>1 DEF LifeInv, TxInv, StartInv, KeepsSession, db
<1>4. \A a \in Apps : ml_cache'[a].verdict # None => verdict[a] # None
  BY <1>1 DEF LifeInv, VerdictOnRecord
<1> QED BY <1>1, <1>2, <1>3, <1>4, EndKeeps

LEMMA RestartKeeps ==
    ASSUME LifeInv, Restart
    PROVE  LifeInv'
<1>1. /\ UNCHANGED <<db, inbox, sent, ml, ml_cache>> /\ faults' \in 0..MaxFaults
      /\ tx' = [x \in Actors |-> Idle] /\ chat' = {}
  BY FaultAssumption DEF Restart, Fault, LifeInv, TypeOK, ServicesTypeOK
<1>2. ServicesTypeOK'
  BY <1>1 DEF LifeInv, TypeOK, ServicesTypeOK
<1>3. tx' \in [Actors -> Transactions] /\ \A y \in Actors : tx'[y] = Idle
  BY <1>1, IdleFields
<1>4. \A a \in Apps : ml_cache'[a].verdict # None => verdict[a] # None
  BY <1>1 DEF LifeInv, VerdictOnRecord
<1> QED BY <1>1, <1>2, <1>3, <1>4, ManyMove

\* What happens outside the transactions.
LEMMA OutsideKeeps ==
    ASSUME LifeInv, UNCHANGED <<db, chat, sent, tx>>, ServicesTypeOK',
           \A a \in Apps : ml_cache'[a].verdict # None => ml_cache[a].verdict # None
    PROVE  LifeInv'
<1>1. \A y \in Actors : tx'[y] = tx[y] /\ KeepsSession(y)
  BY DEF LifeInv, TxInv, StartInv, KeepsSession, db
<1>2. \A a \in Apps : ml_cache'[a].verdict # None => verdict[a] # None
  BY DEF LifeInv, VerdictOnRecord
<1>3. tx' \in [Actors -> Transactions]
  BY DEF LifeInv, TypeOK
<1> QED BY <1>1, <1>2, <1>3, ManyMove

LEMMA CacheExpiresKeeps ==
    ASSUME LifeInv, NEW a \in Apps, CacheExpires(a)
    PROVE  LifeInv'
<1>1. /\ UNCHANGED <<db, chat, inbox, sent, ml, tx, faults>>
      /\ ml_cache' = [ml_cache EXCEPT ![a] = [status |-> None, verdict |-> None]]
  BY DEF CacheExpires
<1>2. ml_cache \in [Apps -> [status : MLStatuses \cup {None}, verdict : Verdicts \cup {None}]]
  BY DEF LifeInv, TypeOK, ServicesTypeOK
<1>3. ServicesTypeOK'
  BY <1>1, <1>2 DEF LifeInv, TypeOK, ServicesTypeOK
<1>4. \A b \in Apps : ml_cache'[b].verdict # None => ml_cache[b].verdict # None
  BY <1>1, <1>2
<1> QED BY <1>1, <1>3, <1>4, OutsideKeeps

LEMMA MLKeeps ==
    ASSUME LifeInv, NEW u \in Users, MLTake(u) \/ MLFinish(u) \/ MLError(u)
    PROVE  LifeInv'
<1>1. /\ UNCHANGED <<db, chat, sent, ml_cache, tx>> /\ faults' \in 0..MaxFaults
  BY FaultAssumption DEF MLTake, MLFinish, MLError, Fault, LifeInv, TypeOK, ServicesTypeOK
<1> DEFINE Answers == [status : MLStatuses, row : Apps \cup VerdictRow \cup {None}]
<1>2. ml \in [Users -> Answers] /\ inbox \in [Users -> Seq(Apps)]
  BY DEF LifeInv, TypeOK, ServicesTypeOK
<1>3. /\ inbox' \in [Users -> Seq(Apps)]
      /\ \E answer \in Answers :
            /\ ml' = [ml EXCEPT ![u] = answer]
            /\ answer.status = "PROCESSING" => answer.row \in Apps
            /\ answer.status = "DONE" => answer.row \in VerdictRow
  <2>1. CASE MLTake(u)
    <3> DEFINE answer == [status |-> "PROCESSING", row |-> Head(inbox[u])]
    <3>1. inbox[u] \in Seq(Apps) /\ inbox[u] # <<>>
      BY <1>2, <2>1 DEF MLTake
    <3>2. Head(inbox[u]) \in Apps /\ Tail(inbox[u]) \in Seq(Apps)
      BY <3>1
    <3>3. ml' = [ml EXCEPT ![u] = answer] /\ inbox' = [inbox EXCEPT ![u] = Tail(inbox[u])]
      BY <2>1 DEF MLTake
    <3>4. answer \in Answers
      BY <3>2 DEF MLStatuses
    <3> QED BY <1>2, <3>2, <3>3, <3>4
  <2>2. CASE MLFinish(u)
    <3>1. PICK v \in MLVerdicts :
             ml' = [ml EXCEPT ![u] = [status |-> "DONE", row |-> [value |-> v, of |-> ml[u].row]]]
      BY <2>2 DEF MLFinish
    <3>2. ml[u].row \in Apps
      <4>1. ml[u].status = "PROCESSING"
        BY <2>2 DEF MLFinish
      <4>2. \A w \in Users : ml[w].status = "PROCESSING" => ml[w].row \in Apps
        BY DEF LifeInv, TypeOK, ServicesTypeOK
      <4> QED BY <4>1, <4>2
    <3>3. [value |-> v, of |-> ml[u].row] \in VerdictRow
      BY <3>2, VerdictsAssumption DEF VerdictRow
    <3>4. inbox' = inbox
      BY <2>2 DEF MLFinish
    <3> DEFINE answer == [status |-> "DONE", row |-> [value |-> v, of |-> ml[u].row]]
    <3>5. answer \in Answers
      BY <3>3 DEF MLStatuses
    <3> QED BY <1>2, <3>1, <3>3, <3>4, <3>5
  <2>3. CASE MLError(u)
    <3> DEFINE answer == [status |-> "ERROR", row |-> None]
    <3>1. answer \in Answers /\ ml' = [ml EXCEPT ![u] = answer] /\ inbox' = inbox
      BY <2>3 DEF MLError, MLStatuses
    <3> QED BY <1>2, <3>1
  <2> QED BY <2>1, <2>2, <2>3
<1>4. ServicesTypeOK'
  BY <1>1, <1>2, <1>3 DEF LifeInv, TypeOK, ServicesTypeOK
<1> QED BY <1>1, <1>4, OutsideKeeps

-----------------------------------------------------------------------------
(***************************************************************************)
(* The commit.                                                             *)
(***************************************************************************)
\* What a commit does to the rows, and which rows its transaction names.
LEMMA CommitRows ==
    ASSUME LifeInv, NEW x \in Actors, Commit(x)
    PROVE  /\ tx[x].app \in Apps
           /\ tx[x].w.sess # None =>
                 /\ tx[x].sid \in Sessions
                 /\ tx[x].kind = "start" => sess[tx[x].sid] = NoSession
                 /\ tx[x].kind = "end" => /\ sess[tx[x].sid].state # "NONE"
                                          /\ sess[tx[x].sid].app = tx[x].app
           /\ \A b \in Apps :
                 /\ status'[b] = IF b = tx[x].app /\ tx[x].w.status # None
                                 THEN tx[x].w.status ELSE status[b]
                 /\ cooled'[b] = (cooled[b] \/ (b = tx[x].app /\ tx[x].w.cooled))
                 /\ verdict'[b] = IF b = tx[x].app /\ tx[x].w.verdict # None
                                  THEN tx[x].w.verdict ELSE verdict[b]
           /\ \A q \in Sessions :
                 sess'[q] = IF q = tx[x].sid /\ tx[x].w.sess # None
                            THEN [state |-> tx[x].w.sess, app |-> tx[x].app, heard |-> tx[x].heard]
                            ELSE sess[q]
           /\ RowsTypeOK'
<1>1. /\ tx[x] \in Transactions /\ tx[x].w \in Writes /\ tx[x].kind \in Kinds
      /\ StartInv(x) /\ EndInv(x) /\ VerdictInv(x) /\ tx[x].pc = "commit"
  BY StepKinds DEF Commit
<1>2. tx[x].app \in Apps
  BY <1>1 DEF StartInv, EndInv, VerdictInv, Kinds
<1>3. RowsTypeOK /\ chat \subseteq Sessions
  BY DEF LifeInv, TypeOK, ServicesTypeOK
<1>4. tx[x].w.sess # None =>
         /\ tx[x].sid \in Sessions
         /\ tx[x].kind = "start" => sess[tx[x].sid] = NoSession
         /\ tx[x].kind = "end" => sess[tx[x].sid].state # "NONE" /\ sess[tx[x].sid].app = tx[x].app
  BY <1>1, <1>3 DEF StartInv, EndInv, VerdictInv, Kinds
<1>5. /\ status' \in [Apps -> Statuses]
      /\ \A b \in Apps : status'[b] = IF b = tx[x].app /\ tx[x].w.status # None
                                      THEN tx[x].w.status ELSE status[b]
  <2>1. status' = IF tx[x].w.status = None THEN status
                  ELSE [status EXCEPT ![tx[x].app] = tx[x].w.status]
    BY DEF Commit
  <2>2. status \in [Apps -> Statuses] /\ tx[x].w.status \in Statuses \cup {None}
    BY <1>1, <1>3 DEF RowsTypeOK, Writes
  <2> QED BY <1>2, <2>1, <2>2
<1>6. /\ cooled' \in [Apps -> BOOLEAN]
      /\ \A b \in Apps : cooled'[b] = (cooled[b] \/ (b = tx[x].app /\ tx[x].w.cooled))
  <2>1. cooled' = IF tx[x].w.cooled THEN [cooled EXCEPT ![tx[x].app] = TRUE] ELSE cooled
    BY DEF Commit
  <2>2. cooled \in [Apps -> BOOLEAN] /\ tx[x].w.cooled \in BOOLEAN
    BY <1>1, <1>3 DEF RowsTypeOK, Writes
  <2> QED BY <1>2, <2>1, <2>2
<1>7. /\ verdict' \in [Apps -> VerdictRow \cup {None}]
      /\ \A b \in Apps : verdict'[b] = IF b = tx[x].app /\ tx[x].w.verdict # None
                                       THEN tx[x].w.verdict ELSE verdict[b]
  <2>1. verdict' = IF tx[x].w.verdict = None THEN verdict
                   ELSE [verdict EXCEPT ![tx[x].app] = tx[x].w.verdict]
    BY DEF Commit
  <2>2. verdict \in [Apps -> VerdictRow \cup {None}] /\ tx[x].w.verdict \in VerdictRow \cup {None}
    BY <1>1, <1>3 DEF RowsTypeOK, Writes
  <2> QED BY <1>2, <2>1, <2>2
<1>8. active' \in [Users -> BOOLEAN]
  BY <1>2, <1>3, OwnerAssumption DEF Commit, RowsTypeOK
<1> DEFINE SessionRow == [state : {"NONE", "ACTIVE", "COMPLETED"}, app : Apps \cup {None},
                          heard : BOOLEAN]
<1>9. PICK row : row = [state |-> tx[x].w.sess, app |-> tx[x].app, heard |-> tx[x].heard]
  OBVIOUS
<1>10. tx[x].w.sess # None => row \in SessionRow
  BY <1>1, <1>2, <1>9 DEF Transactions, Writes
<1>11. sess' = IF tx[x].w.sess = None THEN sess ELSE [sess EXCEPT ![tx[x].sid] = row]
  BY <1>9 DEF Commit
<1>12. sess \in [Sessions -> SessionRow]
  BY <1>3 DEF RowsTypeOK
<1> HIDE DEF SessionRow
<1>13. /\ sess' \in [Sessions -> SessionRow]
       /\ \A q \in Sessions : sess'[q] = IF q = tx[x].sid /\ tx[x].w.sess # None
                                         THEN row ELSE sess[q]
  BY <1>4, <1>10, <1>11, <1>12
<1>14. RowsTypeOK'
  BY <1>5, <1>6, <1>7, <1>8, <1>13 DEF RowsTypeOK, SessionRow
<1> QED BY <1>2, <1>4, <1>5, <1>6, <1>7, <1>9, <1>13, <1>14

\* What a commit does to the transactions: a poller's task goes on to its
\* cache, everybody else is done.
LEMMA CommitMoves ==
    ASSUME LifeInv, NEW x \in Actors, Commit(x)
    PROVE  /\ tx' \in [Actors -> Transactions]
           /\ \A y \in Actors \ {x} : tx'[y] = tx[y]
           /\ \/ tx'[x] = Idle
              \/ /\ tx[x].kind = "poll" /\ tx'[x].kind = "poll" /\ tx'[x].pc = "cache"
                 /\ tx'[x].app = tx[x].app /\ tx'[x].w = NoWrites
                 /\ tx'[x].new = tx[x].new /\ tx'[x].row = tx[x].row
<1>1. tx \in [Actors -> Transactions] /\ tx[x] \in Transactions
  BY StepKinds
<1>2. CASE tx[x].kind # "poll"
  BY <1>1, <1>2, IdleFields DEF Commit, End
<1>3. CASE tx[x].kind = "poll"
  <2> DEFINE v == [tx[x] EXCEPT !.w = NoWrites, !.pc = "cache"]
  <2>1. tx' = [tx EXCEPT ![x] = v]
    BY <1>1, <1>3 DEF Commit
  <2>2. NoWrites \in Writes
    BY DEF NoWrites, Writes
  <2>3. v \in Transactions
    BY <1>1, <2>2 DEF Transactions, PCs
  <2>4. /\ v.kind = "poll" /\ v.pc = "cache" /\ v.app = tx[x].app /\ v.w = NoWrites
        /\ v.new = tx[x].new /\ v.row = tx[x].row
    BY <1>1, <1>3 DEF Transactions
  <2> HIDE DEF v
  <2> QED BY <1>1, <1>3, <2>1, <2>3, <2>4
<1> QED BY <1>2, <1>3

LEMMA CommitKeeps ==
    ASSUME LifeInv, NEW x \in Actors, Commit(x)
    PROVE  LifeInv'
<1> DEFINE a == tx[x].app
           s == tx[x].sid
           w == tx[x].w
<1>1. /\ tx[x] \in Transactions /\ w \in Writes /\ tx[x].kind \in Kinds
      /\ StartInv(x) /\ EndInv(x) /\ VerdictInv(x) /\ tx[x].pc = "commit"
  BY StepKinds DEF Commit
<1>2. /\ a \in Apps
      /\ w.sess # None =>
            /\ s \in Sessions
            /\ tx[x].kind = "start" => sess[s] = NoSession
            /\ tx[x].kind = "end" => sess[s].state # "NONE" /\ sess[s].app = a
      /\ \A b \in Apps :
            /\ status'[b] = IF b = a /\ w.status # None THEN w.status ELSE status[b]
            /\ cooled'[b] = (cooled[b] \/ (b = a /\ w.cooled))
            /\ verdict'[b] = IF b = a /\ w.verdict # None THEN w.verdict ELSE verdict[b]
      /\ \A q \in Sessions :
            sess'[q] = IF q = s /\ w.sess # None
                       THEN [state |-> w.sess, app |-> a, heard |-> tx[x].heard] ELSE sess[q]
      /\ RowsTypeOK'
  BY CommitRows
<1>3. /\ tx' \in [Actors -> Transactions]
      /\ \A y \in Actors \ {x} : tx'[y] = tx[y]
      /\ \/ tx'[x] = Idle
         \/ /\ tx[x].kind = "poll" /\ tx'[x].kind = "poll" /\ tx'[x].pc = "cache"
            /\ tx'[x].app = a /\ tx'[x].w = NoWrites
            /\ tx'[x].new = tx[x].new /\ tx'[x].row = tx[x].row
  BY CommitMoves
<1>4. UNCHANGED <<chat, inbox, sent, ml, ml_cache, faults>>
  BY DEF Commit
\* What each kind commits.
<1>5. /\ w.status \in {None, "INTERVIEW_PENDING", "INTERVIEW_DONE", "ML_PROCESSING"} \cup Verdicts
      /\ w.status = "INTERVIEW_PENDING" => tx[x].kind = "start"
      /\ w.status = "ML_PROCESSING" => tx[x].kind = "end"
      /\ w.status \in Verdicts => tx[x].kind \in {"override", "poll"}
      /\ w.sess # None => tx[x].kind \in {"start", "end"}
      /\ tx[x].kind = "start" => w.sess = "ACTIVE"
      /\ tx[x].kind = "end" => /\ w.sess = "COMPLETED" /\ w.cooled
                               /\ w.status \in {None, "INTERVIEW_DONE", "ML_PROCESSING"}
                               /\ w.status = None => status[a] # "DOCUMENTS_PENDING"
                               /\ w.status = "ML_PROCESSING" => a \in sent
      /\ tx[x].kind \in {"override", "poll"} => w.verdict # None /\ tx[x].new # None
  BY <1>1, KindsDiffer DEF StartInv, EndInv, VerdictInv, Kinds, Verdicts
<1>6. \A q \in Sessions : sess[q].state # "NONE" /\ w.sess # None /\ q = s =>
         tx[x].kind = "end" /\ w.sess = "COMPLETED" /\ sess[q].app = a
  BY <1>2, <1>5 DEF NoSession
<1> HIDE DEF a, s, w
<1>7. Grows
  <2>1. ASSUME NEW b \in Apps, status[b] # "DOCUMENTS_PENDING"
        PROVE  status'[b] # "DOCUMENTS_PENDING"
    BY <1>2, <1>5, <2>1 DEF Verdicts
  <2>2. ASSUME NEW b \in Apps, verdict[b] # None
        PROVE  verdict'[b] # None
    BY <1>2, <2>2
  <2>3. ASSUME NEW q \in Sessions, sess[q].state # "NONE"
        PROVE  sess'[q].state # "NONE" /\ sess'[q].app = sess[q].app
    BY <1>2, <1>6, <2>3
  <2> QED BY <1>4, <2>1, <2>2, <2>3 DEF Grows
<1>8. ASSUME NEW y \in Actors \ {x}
      PROVE  KeepsSession(y)
  <2> SUFFICES ASSUME tx[y].kind = "start", tx[y].pc # "create"
               PROVE  tx[y].sid \in chat' /\ sess'[tx[y].sid] = NoSession
    BY DEF KeepsSession
  <2>1. tx[y].sid \in chat /\ sess[tx[y].sid] = NoSession /\ tx[y].sid \in Sessions
    BY DEF LifeInv, TxInv, StartInv, TypeOK, ServicesTypeOK
  <2>2. w.sess # None => tx[y].sid # s
    <3>1. CASE tx[x].kind = "start"
      BY <1>1, <3>1 DEF LifeInv, SessionsDiffer, s
    <3>2. CASE tx[x].kind = "end"
      BY <1>2, <2>1, <3>2 DEF NoSession
    <3> QED BY <1>5, <3>1, <3>2
  <2> QED BY <1>2, <1>4, <2>1, <2>2
<1>9. TypeOK'
  <2>1. ServicesTypeOK'
    BY <1>4 DEF LifeInv, TypeOK, ServicesTypeOK
  <2> QED BY <1>2, <1>3, <2>1 DEF TypeOK
<1>10. TxInv'
  <2>1. ASSUME NEW y \in Actors \ {x}
        PROVE  StartInv(y)' /\ EndInv(y)' /\ VerdictInv(y)' /\ IdleInv(y)'
    <3>1. StartInv(y) /\ EndInv(y) /\ VerdictInv(y) /\ IdleInv(y) /\ TypeOK
      BY DEF LifeInv, TxInv
    <3> QED BY <1>3, <1>7, <1>8, <3>1, OthersKeep
  <2>2. StartInv(x)' /\ EndInv(x)' /\ VerdictInv(x)' /\ IdleInv(x)'
    <3>1. CASE tx'[x] = Idle
      BY <3>1, IdleFields, KindsDiffer DEF StartInv, EndInv, VerdictInv, IdleInv, Kinds
    <3>2. CASE tx'[x] # Idle
      BY <1>2, <1>3, <1>5, <3>2, IdleFields, KindsDiffer
         DEF StartInv, EndInv, VerdictInv, IdleInv, Kinds
    <3> QED BY <3>1, <3>2
  <2> QED BY <2>1, <2>2 DEF TxInv
<1>11. tx'[x].kind \notin {"start", "end"}
  BY <1>3, IdleFields, KindsDiffer DEF Kinds
<1>12. SessionsDiffer'
  BY <1>3, <1>11 DEF LifeInv, SessionsDiffer
<1>13. SessionsHaveApps'
  BY <1>2 DEF LifeInv, SessionsHaveApps
<1>14. CompletedMeansCooldown'
  <2> SUFFICES ASSUME NEW q \in Sessions, sess'[q].state = "COMPLETED"
               PROVE  cooled'[sess'[q].app] /\ status'[sess'[q].app] # "DOCUMENTS_PENDING"
    BY DEF CompletedMeansCooldown
  <2>1. CASE q = s /\ w.sess # None
    <3>1. sess'[q].app = a /\ w.sess = "COMPLETED"
      BY <1>2, <2>1
    <3>2. tx[x].kind = "end"
      BY <1>5, <2>1, <3>1
    <3>3. cooled'[a] /\ status'[a] # "DOCUMENTS_PENDING"
      BY <1>2, <1>5, <3>2
    <3> QED BY <3>1, <3>3
  <2>2. CASE ~(q = s /\ w.sess # None)
    <3>1. sess'[q] = sess[q] /\ sess[q].app \in Apps
      BY <1>2, <2>2 DEF LifeInv, SessionsHaveApps
    <3>2. cooled[sess[q].app] /\ status[sess[q].app] # "DOCUMENTS_PENDING"
      BY <3>1 DEF LifeInv, CompletedMeansCooldown
    <3>3. \A b \in Apps : cooled'[b] = (cooled[b] \/ (b = a /\ w.cooled))
      BY <1>2
    <3>4. \A b \in Apps : status[b] # "DOCUMENTS_PENDING" => status'[b] # "DOCUMENTS_PENDING"
      BY <1>7 DEF Grows
    <3> QED BY ONLY <3>1, <3>2, <3>3, <3>4
  <2> QED BY <2>1, <2>2
<1>15. ProcessingWasSent'
  <2> SUFFICES ASSUME NEW b \in Apps, status'[b] = "ML_PROCESSING"
               PROVE  /\ b \in sent' /\ cooled'[b]
                      /\ \E q \in Sessions : sess'[q].app = b /\ sess'[q].state = "COMPLETED"
    BY DEF ProcessingWasSent
  <2>1. CASE b = a /\ w.status # None
    <3>1. tx[x].kind = "end"
      BY <1>2, <1>5, <2>1
    <3>2. a \in sent /\ w.cooled /\ s \in Sessions /\ sess'[s].app = a /\ sess'[s].state = "COMPLETED"
      BY <1>2, <1>5, <2>1, <3>1, KindsDiffer
    <3> QED BY <1>2, <1>4, <2>1, <3>2
  <2>2. CASE ~(b = a /\ w.status # None)
    <3>1. status[b] = "ML_PROCESSING"
      BY <1>2, <2>2
    <3>2. PICK q \in Sessions : sess[q].app = b /\ sess[q].state = "COMPLETED"
      BY <3>1 DEF LifeInv, ProcessingWasSent
    <3>3. sess'[q].app = b /\ sess'[q].state = "COMPLETED"
      BY <1>2, <1>6, <3>2
    <3>4. b \in sent /\ cooled[b]
      BY <3>1 DEF LifeInv, ProcessingWasSent
    <3> QED BY <1>2, <1>4, <3>3, <3>4
  <2> QED BY <2>1, <2>2
<1>16. VerdictOnRecord'
  <2> SUFFICES ASSUME NEW b \in Apps, status'[b] \in Verdicts \/ ml_cache'[b].verdict # None
               PROVE  verdict'[b] # None
    BY DEF VerdictOnRecord
  <2>1. CASE status'[b] = status[b] \/ ml_cache'[b].verdict # None
    <3>1. verdict[b] # None
      BY <1>4, <2>1 DEF LifeInv, VerdictOnRecord
    <3> QED BY <1>7, <3>1 DEF Grows
  <2>2. CASE status'[b] # status[b] /\ status'[b] \in Verdicts
    <3>1. b = a /\ w.verdict # None
      BY <1>2, <1>5, <2>2
    <3> QED BY <1>2, <3>1
  <2> QED BY <2>1, <2>2
<1>17. PendingCanEnd'
  <2> SUFFICES ASSUME NEW b \in Apps, status'[b] = "INTERVIEW_PENDING"
               PROVE  \E q \in Sessions : /\ sess'[q].app = b /\ sess'[q].state = "ACTIVE"
                                          /\ \A y \in Actors : ~LeavesStatus(y, q)'
    BY DEF PendingCanEnd
  <2>1. \A q \in Sessions : ~LeavesStatus(x, q)'
    BY <1>11 DEF LeavesStatus
  <2>2. CASE b = a /\ w.status # None
    <3>1. tx[x].kind = "start" /\ w.sess # None
      BY <1>2, <1>5, <2>2, KindsDiffer
    <3>2. PICK q \in Sessions : /\ sess[q] = NoSession
                                /\ sess'[q].app = b /\ sess'[q].state = "ACTIVE"
      BY <1>2, <1>5, <2>2, <3>1
    <3>3. ASSUME NEW y \in Actors \ {x}
          PROVE  ~LeavesStatus(y, q)'
      <4>1. EndInv(y)
        BY DEF LifeInv, TxInv
      <4> QED BY <1>3, <3>2, <4>1 DEF LeavesStatus, EndInv, NoSession
    <3> QED BY <2>1, <3>2, <3>3
  <2>3. CASE ~(b = a /\ w.status # None)
    <3>1. status[b] = "INTERVIEW_PENDING"
      BY <1>2, <2>3
    <3>2. PICK q \in Sessions : /\ sess[q].app = b /\ sess[q].state = "ACTIVE"
                                /\ \A y \in Actors : ~LeavesStatus(y, q)
      BY <3>1 DEF LifeInv, PendingCanEnd
    <3>3. sess'[q] = sess[q]
      <4>1. SUFFICES ASSUME q = s, w.sess # None PROVE FALSE
        BY <1>2
      <4>2. tx[x].kind = "end" /\ b = a
        BY <1>6, <3>2, <4>1
      <4>3. w.status # None
        BY <1>1, <3>2, <4>1, <4>2 DEF LeavesStatus, s, w
      <4> QED BY <2>3, <4>2, <4>3
    <3>4. \A y \in Actors \ {x} : ~LeavesStatus(y, q)'
      BY <1>3, <3>2 DEF LeavesStatus
    <3> QED BY <2>1, <3>2, <3>3, <3>4
  <2> QED BY <2>2, <2>3
<1> QED BY <1>9, <1>10, <1>12, <1>13, <1>14, <1>15, <1>16, <1>17 DEF LifeInv

-----------------------------------------------------------------------------
(***************************************************************************)
(* Every step.                                                             *)
(***************************************************************************)
LEMMA NextLife == LifeInv /\ [Next]_vars => LifeInv'
<1> SUFFICES ASSUME LifeInv, [Next]_vars PROVE LifeInv'
  OBVIOUS
<1>1. CASE UNCHANGED vars
  <2>1. UNCHANGED <<db, chat, sent, tx, ml_cache>>
    BY <1>1 DEF vars
  <2>2. ServicesTypeOK'
    BY <1>1 DEF vars, LifeInv, TypeOK, ServicesTypeOK
  <2> QED BY <2>1, <2>2, OutsideKeeps
<1>2. ASSUME NEW r \in Requests,
             \/ \E a \in Apps : StartLoad(r, a)
             \/ \E s \in Sessions : EndLoadSession(r, s)
             \/ \E a \in Apps, v \in Overrides : OverrideLoad(r, a, v)
             \/ EndSendFails(r) \/ EndStatusFails(r)
      PROVE  LifeInv'
  <2>1. r \in Actors
    BY DEF Actors
  <2> QED BY <1>2, <2>1, StartLoadKeeps, EndLoadSessionKeeps, OverrideLoadKeeps,
             EndSendFailsKeeps, EndStatusFailsKeeps
<1>3. ASSUME NEW p \in Pollers, PollOnce(p)
      PROVE  LifeInv'
  BY <1>3, PollOnceKeeps
<1>4. ASSUME NEW x \in Actors, Step(x)
      PROVE  LifeInv'
  BY <1>4, StartCreateKeeps, StartStatusKeeps, EndLoadAppKeeps, EndCompleteKeeps,
     EndCooldownKeeps, EndSendKeeps, PollStatusKeeps, PollVerdictKeeps, PollAppKeeps,
     DeactivateUserKeeps, PollCacheKeeps, ReadVerdictKeeps, WriteVerdictKeeps,
     WriteVerdictStatusKeeps, CommitKeeps DEF Step
<1>5. ASSUME NEW x \in Actors, Rollback(x) \/ PollVerdictError(x)
      PROVE  LifeInv'
  BY <1>5, RollbackKeeps, PollVerdictErrorKeeps
<1>6. ASSUME NEW a \in Apps, CacheExpires(a)
      PROVE  LifeInv'
  BY <1>6, CacheExpiresKeeps
<1>7. ASSUME NEW u \in Users, MLTake(u) \/ MLFinish(u) \/ MLError(u)
      PROVE  LifeInv'
  BY <1>7, MLKeeps
<1> QED BY <1>1, <1>2, <1>3, <1>4, <1>5, <1>6, <1>7, RestartKeeps DEF Next

\* What the transactions hold and have committed, in every reachable state.
THEOREM Life == Spec => []LifeInv
BY InitLife, NextLife, PTL DEF Spec

-----------------------------------------------------------------------------
(***************************************************************************)
(* The row locks are taken in one order.                                   *)
(***************************************************************************)
\* How far a transaction has got: before its session or verdict row, before
\* its application's, before its user's, or waiting for nothing.
Level(x) ==
    CASE tx[x].pc \in {"complete", "write_verdict"} -> 1
      [] tx[x].pc \in {"start_status", "cooldown", "write_status"} -> 2
      [] tx[x].pc = "deactivate" -> 3
      [] OTHER -> 4

\* Who holds what another waits for is past it.
LocksInOrder == \A x, y \in Actors : WaitsFor(x, y) => Level(x) < Level(y)

LEMMA LifeOrdersLocks == LifeInv => LocksInOrder
<1> SUFFICES ASSUME LifeInv, NEW x \in Actors, NEW y \in Actors, WaitsFor(x, y)
             PROVE  Level(x) < Level(y)
  BY DEF LocksInOrder
<1>1. /\ tx[y] \in Transactions /\ tx[y].w \in Writes
      /\ StartInv(y) /\ EndInv(y) /\ VerdictInv(y) /\ IdleInv(y)
      /\ tx[y].kind \in Kinds \cup {None}
  BY StepKinds DEF Transactions
<1>2. tx[y].kind = None => tx[y].w = NoWrites
  BY <1>1, IdleFields DEF IdleInv
<1>3. CASE tx[x].pc = "complete" /\ HoldsSession(y, tx[x].sid)
  <2>1. tx[y].w.sess # None
    BY <1>3 DEF HoldsSession
  <2>2. tx[y].pc \in {"start_status", "commit", "cooldown", "send"}
    BY <1>1, <1>2, <2>1, IdleFields DEF StartInv, EndInv, VerdictInv, Kinds
  <2> QED BY <1>3, <2>2 DEF Level
<1>4. CASE tx[x].pc = "write_verdict" /\ HoldsVerdict(y, tx[x].app)
  <2>1. tx[y].w.verdict # None
    BY <1>4 DEF HoldsVerdict
  <2>2. tx[y].pc \in {"poll_app", "write_status", "deactivate", "commit"}
    BY <1>1, <1>2, <2>1, IdleFields DEF StartInv, EndInv, VerdictInv, Kinds
  <2> QED BY <1>4, <2>2 DEF Level
<1>5. CASE tx[x].pc \in {"start_status", "cooldown", "write_status"} /\ HoldsApp(y, tx[x].app)
  <2>1. tx[y].w.status # None \/ tx[y].w.cooled
    BY <1>5 DEF HoldsApp
  <2>2. tx[y].pc \in {"commit", "send", "deactivate"}
    BY <1>1, <1>2, <2>1, IdleFields DEF StartInv, EndInv, VerdictInv, Kinds
  <2> QED BY <1>5, <2>2 DEF Level
<1>6. CASE tx[x].pc = "deactivate" /\ HoldsUser(y, tx[x].app)
  <2>1. tx[y].w.deactivate
    BY <1>6 DEF HoldsUser
  <2>2. tx[y].pc = "commit"
    BY <1>1, <1>2, <2>1, IdleFields DEF StartInv, EndInv, VerdictInv, Kinds
  <2> QED BY <1>6, <2>2 DEF Level
<1> QED BY <1>3, <1>4, <1>5, <1>6 DEF WaitsFor

LEMMA OrderedLocksAreFree == LocksInOrder => NoLockCycle
<1>1. \A x \in Actors : Level(x) \in Nat
  BY DEF Level
<1> QED BY <1>1 DEF LocksInOrder, NoLockCycle

-----------------------------------------------------------------------------
(***************************************************************************)
(* What follows for every reachable state.                                 *)
(***************************************************************************)
\* The variables and the locals of every transaction keep their types.
THEOREM LifeTypeOK == Spec => []TypeOK
<1>1. LifeInv => TypeOK
  BY DEF LifeInv
<1> QED BY <1>1, Life, PTL

\* What the poller waits for was sent, after an interview on record, and the
\* application is in cooldown.
THEOREM LifeProcessingWasSent == Spec => []ProcessingWasSent
<1>1. LifeInv => ProcessingWasSent
  BY DEF LifeInv
<1> QED BY <1>1, Life, PTL

\* A completed interview has put its application in cooldown.
THEOREM LifeCompletedMeansCooldown == Spec => []CompletedMeansCooldown
<1>1. LifeInv => CompletedMeansCooldown
  BY DEF LifeInv
<1> QED BY <1>1, Life, PTL

\* A verdict that is shown or cached is on record.
THEOREM LifeVerdictOnRecord == Spec => []VerdictOnRecord
<1>1. LifeInv => VerdictOnRecord
  BY DEF LifeInv
<1> QED BY <1>1, Life, PTL

\* An application in INTERVIEW_PENDING has an open session.
THEOREM LifePendingHasOpenSession == Spec => []PendingHasOpenSession
<1>1. LifeInv => PendingHasOpenSession
  BY DEF LifeInv, PendingCanEnd, PendingHasOpenSession
<1> QED BY <1>1, Life, PTL

\* Every row lock is waited for by a transaction that has got less far than
\* its holder, so that transactions never wait in a circle of any length.
THEOREM LifeLocksInOrder == Spec => [](LocksInOrder /\ NoLockCycle)
<1>1. LifeInv => LocksInOrder /\ NoLockCycle
  BY LifeOrdersLocks, OrderedLocksAreFree
<1> QED BY <1>1, Life, PTL

-----------------------------------------------------------------------------
(***************************************************************************)
(* Whose material is judged, where no officer overrides.                   *)
(***************************************************************************)
LEMMA InitMaterial == Init => MaterialInv
<1> SUFFICES ASSUME Init PROVE MaterialInv
  OBVIOUS
<1>1. QueuedInv /\ RecordedInv /\ FraudBlocksUser
  BY DEF Init, QueuedInv, RecordedInv, FraudBlocksUser
<1>2. \A x \in Actors : tx[x] = Idle
  BY DEF Init
<1>3. \A x \in Actors : JudgedInv(x)
  BY <1>2, IdleFields, KindsDiffer DEF JudgedInv, Kinds
<1> QED BY <1>1, <1>3 DEF MaterialInv

\* What was sent stays sent, who was deactivated stays out, cooldowns stay.
Lasts ==
    /\ sent \subseteq sent'
    /\ \A a \in Apps : cooled[a] => cooled'[a]
    /\ \A u \in Users : active'[u] => active[u]

LEMMA KnownLasts ==
    ASSUME Lasts, NEW u \in Users, NEW v
    PROVE  /\ OnMaterial(v, u) => OnMaterial(v, u)'
           /\ Known(v, u) => Known(v, u)'
BY DEF Lasts, OnMaterial, Known

\* A transaction that does not move, or that holds no verdict.
LEMMA JudgedLasts ==
    ASSUME LifeInv, Lasts, NEW y \in Actors, JudgedInv(y), tx'[y] = tx[y]
    PROVE  JudgedInv(y)'
<1>1. tx[y].kind # "override"
  BY DEF JudgedInv
<1>2. CASE tx[y].kind # "poll"
  BY <1>1, <1>2 DEF JudgedInv
<1>3. CASE tx[y].kind = "poll"
  <2>1. tx[y].app \in Apps
    BY <1>3 DEF LifeInv, TxInv, VerdictInv
  <2>2. PICK u \in Users : u = Owner[tx[y].app]
    BY <2>1, OwnerAssumption
  <2>3. /\ cooled'[tx[y].app]
        /\ tx[y].new # None => OnMaterial(tx[y].new, u)'
        /\ tx[y].row # None => Known(tx[y].row, u)'
        /\ tx[y].w.verdict # None => OnMaterial(tx[y].w.verdict, u)'
    BY <1>3, <2>1, <2>2 DEF JudgedInv, Lasts, OnMaterial, Known
  <2> QED BY <1>3, <2>2, <2>3 DEF JudgedInv, Lasts, OnMaterial, Known
<1> QED BY <1>2, <1>3

LEMMA JudgesNothing ==
    ASSUME NEW y \in Actors, tx'[y].kind \notin {"override", "poll"}
    PROVE  JudgedInv(y)'
BY DEF JudgedInv

LEMMA IdleJudgesNothing ==
    ASSUME NEW y \in Actors, tx'[y] = Idle
    PROVE  JudgedInv(y)'
BY IdleFields, KindsDiffer DEF JudgedInv, Kinds

\* A step that commits nothing.
LEMMA MaterialMoves ==
    ASSUME LifeInv, MaterialInv, UNCHANGED db, sent \subseteq sent', QueuedInv',
           \A y \in Actors : tx'[y] = tx[y] \/ JudgedInv(y)'
    PROVE  MaterialInv'
<1>1. Lasts
  BY DEF Lasts, db
<1>2. RecordedInv'
  <2> SUFFICES ASSUME NEW a \in Apps, verdict'[a] # None
               PROVE  Known(verdict[a], Owner[a])'
    BY DEF RecordedInv
  <2>1. verdict' = verdict /\ active' = active
    BY DEF db
  <2>2. Known(verdict[a], Owner[a])
    BY <2>1 DEF MaterialInv, RecordedInv
  <2> QED BY <2>1, <2>2 DEF Known, OnMaterial
<1>3. FraudBlocksUser'
  BY DEF MaterialInv, FraudBlocksUser, db
<1>4. \A y \in Actors : JudgedInv(y)'
  BY <1>1, JudgedLasts DEF MaterialInv
<1> QED BY <1>2, <1>3, <1>4 DEF MaterialInv

\* Nor does it send anything, or hear from the ML service.
LEMMA QueuedLasts ==
    ASSUME MaterialInv, UNCHANGED <<inbox, ml>>, sent \subseteq sent'
    PROVE  QueuedInv'
<1> SUFFICES ASSUME NEW u \in Users
             PROVE  /\ \A i \in 1..Len(inbox[u]) : inbox[u][i] \in sent' /\ Owner[inbox[u][i]] = u
                    /\ ml[u].status = "PROCESSING" => ml[u].row \in sent' /\ Owner[ml[u].row] = u
                    /\ ml[u].status = "DONE" /\ ml[u].row.of # "error" =>
                          ml[u].row.of \in sent' /\ Owner[ml[u].row.of] = u
  BY DEF QueuedInv, OnMaterial
<1> QED BY DEF MaterialInv, QueuedInv, OnMaterial

LEMMA MaterialTxMoves ==
    ASSUME LifeInv, MaterialInv, NEW x \in Actors, UNCHANGED <<db, inbox, sent, ml>>,
           \A y \in Actors \ {x} : tx'[y] = tx[y], JudgedInv(x)'
    PROVE  MaterialInv'
<1>1. UNCHANGED db
  OBVIOUS
<1>2. QueuedInv'
  BY QueuedLasts
<1> QED BY <1>1, <1>2, MaterialMoves

\* The steps of starts and ends judge nothing.
LEMMA InterviewJudgesNothing ==
    ASSUME LifeInv, NEW x \in Actors,
           \/ \E s \in Sessions : StartCreate(x, s)
           \/ StartStatus(x) \/ EndLoadApp(x) \/ EndComplete(x) \/ EndCooldown(x)
           \/ EndSend(x) \/ EndSendFails(x) \/ EndStatusFails(x)
    PROVE  /\ \A y \in Actors \ {x} : tx'[y] = tx[y]
           /\ JudgedInv(x)'
<1>1. tx \in [Actors -> Transactions] /\ tx[x].kind \in {"start", "end"}
  BY StepKinds DEF StartCreate, StartStatus, EndLoadApp, EndComplete, EndCooldown, EndSend,
                   EndSendFails, EndStatusFails
<1> DEFINE Goal == /\ \A y \in Actors \ {x} : tx'[y] = tx[y]
                   /\ tx'[x].kind = tx[x].kind \/ tx'[x] = Idle
<1>2. Goal
  <2>0. tx[x] \in Transactions
    BY StepKinds
  <2>1. CASE \E s \in Sessions : StartCreate(x, s)
    <3>1. PICK s \in Sessions : StartCreate(x, s)
      BY <2>1
    <3>2. tx' = [tx EXCEPT ![x] = [tx[x] EXCEPT !.sid = s, !.w = [tx[x].w EXCEPT !.sess = "ACTIVE"],
                                               !.pc = "start_status"]]
      BY <1>1, <2>0, <3>1 DEF StartCreate, Transactions
    <3> QED BY <1>1, <2>0, <3>2 DEF Transactions
  <2>2. CASE StartStatus(x) \/ EndSend(x)
    <3>1. "INTERVIEW_PENDING" \in Statuses /\ "ML_PROCESSING" \in Statuses /\ "commit" \in PCs
      BY DEF Statuses, PCs
    <3>2. \E v \in Transactions : tx' = [tx EXCEPT ![x] = v] /\ v.kind = tx[x].kind
      BY <2>2, <3>1, WriteStatusMoves DEF StartStatus, EndSend
    <3> QED BY <1>1, <3>2
  <2>3. CASE EndLoadApp(x)
    BY <1>1, <2>0, <2>3 DEF EndLoadApp, End, Transactions
  <2>4. CASE EndComplete(x)
    BY <1>1, <2>0, <2>4 DEF EndComplete, Transactions
  <2>5. CASE EndCooldown(x)
    BY <1>1, <2>0, <2>5 DEF EndCooldown, Transactions
  <2>6. CASE EndSendFails(x) \/ EndStatusFails(x)
    BY <1>1, <2>0, <2>6 DEF EndSendFails, EndStatusFails, Move, End, Transactions
  <2> QED BY <2>1, <2>2, <2>3, <2>4, <2>5, <2>6
<1>3. CASE tx'[x] = Idle
  BY <1>2, <1>3, IdleJudgesNothing
<1>4. CASE tx'[x].kind = tx[x].kind
  BY <1>1, <1>2, <1>4, JudgesNothing
<1> QED BY <1>2, <1>3, <1>4

\* A meta message names an application of the candidate it is queued for.
LEMMA DeliverKeepsQueues ==
    ASSUME LifeInv, MaterialInv, NEW a \in Apps, Deliver(a), UNCHANGED ml
    PROVE  QueuedInv'
<1>1. /\ Owner[a] \in Users /\ sent' = sent \cup {a}
      /\ inbox' = [inbox EXCEPT ![Owner[a]] = Append(inbox[Owner[a]], a)]
  BY OwnerAssumption DEF Deliver
<1>2. inbox \in [Users -> Seq(Apps)]
  BY DEF LifeInv, TypeOK, ServicesTypeOK
<1> SUFFICES ASSUME NEW u \in Users
             PROVE  /\ \A i \in 1..Len(inbox'[u]) : inbox'[u][i] \in sent' /\ Owner[inbox'[u][i]] = u
                    /\ ml[u].status = "PROCESSING" => ml[u].row \in sent' /\ Owner[ml[u].row] = u
                    /\ ml[u].status = "DONE" /\ ml[u].row.of # "error" =>
                          ml[u].row.of \in sent' /\ Owner[ml[u].row.of] = u
  BY DEF QueuedInv, OnMaterial
<1>3. /\ \A i \in 1..Len(inbox[u]) : inbox[u][i] \in sent /\ Owner[inbox[u][i]] = u
      /\ ml[u].status = "PROCESSING" => ml[u].row \in sent /\ Owner[ml[u].row] = u
      /\ ml[u].status = "DONE" => OnMaterial(ml[u].row, u)
  BY DEF MaterialInv, QueuedInv
<1>4. inbox[u] \in Seq(Apps)
  BY <1>2
<1>5. ASSUME NEW i \in 1..Len(inbox'[u])
      PROVE  inbox'[u][i] \in sent' /\ Owner[inbox'[u][i]] = u
  <2>1. CASE u # Owner[a]
    BY <1>1, <1>2, <1>3, <1>5, <2>1
  <2>2. CASE u = Owner[a]
    <3>1. inbox'[u] = Append(inbox[u], a)
      BY <1>1, <1>2, <2>2
    <3>2. CASE i = Len(inbox[u]) + 1
      BY <1>1, <1>4, <2>2, <3>1, <3>2
    <3>3. CASE i # Len(inbox[u]) + 1
      BY <1>1, <1>3, <1>4, <1>5, <3>1, <3>3
    <3> QED BY <3>2, <3>3
  <2> QED BY <2>1, <2>2
<1> QED BY <1>1, <1>3, <1>5 DEF OnMaterial

LEMMA InterviewMaterial ==
    ASSUME LifeInv, MaterialInv, NEW x \in Actors,
           \/ \E s \in Sessions : StartCreate(x, s)
           \/ StartStatus(x) \/ EndLoadApp(x) \/ EndComplete(x) \/ EndCooldown(x)
           \/ EndSend(x) \/ EndSendFails(x) \/ EndStatusFails(x)
    PROVE  MaterialInv'
<1>1. /\ \A y \in Actors \ {x} : tx'[y] = tx[y]
      /\ JudgedInv(x)'
  BY InterviewJudgesNothing
<1>2. UNCHANGED db
  BY DEF StartCreate, StartStatus, EndLoadApp, EndComplete, EndCooldown, EndSend,
         EndSendFails, EndStatusFails
<1>3. CASE UNCHANGED <<inbox, sent, ml>>
  BY <1>1, <1>2, <1>3, MaterialTxMoves
<1>4. CASE ~UNCHANGED <<inbox, sent, ml>>
  <2>1. Deliver(tx[x].app) /\ UNCHANGED ml /\ tx[x].pc = "send"
    BY <1>4 DEF StartCreate, StartStatus, EndLoadApp, EndComplete, EndCooldown, EndSend,
                EndSendFails, EndStatusFails
  <2>2. tx[x].app \in Apps
    BY <2>1, StepKinds DEF EndInv
  <2>3. QueuedInv' /\ sent \subseteq sent'
    BY <2>1, <2>2, DeliverKeepsQueues DEF Deliver
  <2> QED BY <1>1, <1>2, <2>3, MaterialMoves
<1> QED BY <1>3, <1>4

LEMMA LoadMaterial ==
    ASSUME LifeInv, MaterialInv, NEW r \in Requests,
           \/ \E a \in Apps : StartLoad(r, a)
           \/ \E s \in Sessions : EndLoadSession(r, s)
    PROVE  MaterialInv'
<1>1. r \in Actors /\ tx \in [Actors -> Transactions]
  BY StepKinds DEF Actors
<1>2. UNCHANGED <<db, inbox, sent, ml>> /\ \A y \in Actors \ {r} : tx'[y] = tx[y]
  BY <1>1 DEF StartLoad, EndLoadSession
<1>3. tx'[r].kind \in {"start", "end"}
  <2>1. CASE \E a \in Apps : StartLoad(r, a)
    BY <1>1, <2>1 DEF StartLoad, Begin, Idle
  <2>2. CASE \E s \in Sessions : EndLoadSession(r, s)
    <3>1. PICK s \in Sessions : EndLoadSession(r, s)
      BY <2>2
    <3>2. PICK app, state : app = sess[s].app /\ state = sess[s].state
      OBVIOUS
    <3>3. tx' = [tx EXCEPT ![r] = [Begin("end", "end_app") EXCEPT !.sid = s, !.app = app,
                                                                 !.sees = state]]
      BY <3>1, <3>2 DEF EndLoadSession
    <3> QED BY <1>1, <3>3 DEF Begin, Idle
  <2> QED BY <2>1, <2>2
<1>4. JudgedInv(r)'
  BY <1>1, <1>3, JudgesNothing
<1> QED BY <1>1, <1>2, <1>4, MaterialTxMoves

\* A poller's task that goes on to v.
LEMMA TaskMaterial ==
    ASSUME LifeInv, MaterialInv, NEW x \in Actors, NEW v \in Transactions,
           tx' = [tx EXCEPT ![x] = v], UNCHANGED <<db, inbox, sent, ml>>,
           NEW u \in Users, tx[x].app \in Apps, u = Owner[tx[x].app],
           v.kind = "poll", v.app = tx[x].app, cooled[tx[x].app],
           v.new # None => OnMaterial(v.new, u),
           v.row # None => Known(v.row, u),
           v.w.verdict # None =>
              /\ OnMaterial(v.w.verdict, u)
              /\ active[u] => (v.w.verdict.value = "FRAUD" <=> v.new.value = "FRAUD"),
           v.w.status = "FRAUD" \/ v.w.deactivate \/ v.pc = "deactivate" => v.new.value = "FRAUD",
           v.pc = "commit" /\ v.new.value = "FRAUD" => v.w.deactivate
    PROVE  MaterialInv'
<1>1. tx'[x] = v /\ \A y \in Actors \ {x} : tx'[y] = tx[y]
  BY StepKinds
<1>2. sent' = sent /\ cooled' = cooled /\ active' = active
  BY DEF db
<1>3. JudgedInv(x)'
  BY <1>1, <1>2 DEF JudgedInv, OnMaterial, Known
<1> QED BY <1>1, <1>3, MaterialTxMoves

\* What a task, or an override, that goes on brings along.
LEMMA TaskFacts ==
    ASSUME LifeInv, MaterialInv, NEW x \in Actors, tx[x].kind \in {"override", "poll"}
    PROVE  /\ tx \in [Actors -> Transactions] /\ tx[x] \in Transactions /\ tx[x].w \in Writes
           /\ tx[x].kind = "poll" /\ tx[x].app \in Apps /\ Owner[tx[x].app] \in Users
           /\ VerdictInv(x) /\ JudgedInv(x)
BY StepKinds, OwnerAssumption DEF MaterialInv, JudgedInv, VerdictInv

LEMMA EndMaterial ==
    ASSUME LifeInv, MaterialInv, NEW x \in Actors, End(x), UNCHANGED <<db, inbox, sent, ml>>
    PROVE  MaterialInv'
<1>1. tx'[x] = Idle /\ \A y \in Actors \ {x} : tx'[y] = tx[y]
  BY StepKinds DEF End
<1>2. JudgedInv(x)'
  BY <1>1, IdleJudgesNothing
<1> QED BY <1>1, <1>2, MaterialTxMoves

LEMMA PollStatusMaterial ==
    ASSUME LifeInv, MaterialInv, NEW x \in Actors, PollStatus(x)
    PROVE  MaterialInv'
<1>1. /\ tx[x] \in Transactions /\ tx[x].app \in Apps /\ Owner[tx[x].app] \in Users
      /\ tx[x].kind = "poll" /\ JudgedInv(x) /\ tx[x].pc = "poll_status"
  BY StepKinds, TaskFacts DEF PollStatus
<1>2. UNCHANGED <<db, inbox, sent, ml>>
  BY DEF PollStatus
<1>3. CASE End(x)
  BY <1>2, <1>3, EndMaterial
<1>4. CASE ~End(x)
  <2> DEFINE v == [tx[x] EXCEPT !.pc = "poll_verdict"]
  <2>1. tx' = [tx EXCEPT ![x] = v]
    BY <1>4 DEF PollStatus, Move
  <2>2. /\ v \in Transactions /\ v.pc = "poll_verdict" /\ v.kind = "poll" /\ v.app = tx[x].app
        /\ v.w = tx[x].w /\ v.new = tx[x].new /\ v.row = tx[x].row
    BY <1>1 DEF Transactions, PCs
  <2> HIDE DEF v
  <2> QED BY <1>1, <1>2, <2>1, <2>2, TaskMaterial DEF JudgedInv
<1> QED BY <1>3, <1>4

LEMMA PollVerdictMaterial ==
    ASSUME LifeInv, MaterialInv, NEW x \in Actors, PollVerdict(x)
    PROVE  MaterialInv'
<1>1. /\ tx[x] \in Transactions /\ tx[x].app \in Apps /\ tx[x].kind = "poll"
      /\ VerdictInv(x) /\ JudgedInv(x) /\ tx[x].pc = "poll_verdict"
  BY StepKinds, TaskFacts DEF PollVerdict
<1>2. PICK u \in Users : u = Owner[tx[x].app]
  BY <1>1, OwnerAssumption
<1>3. UNCHANGED <<db, inbox, sent, ml>>
  BY DEF PollVerdict
<1>4. CASE ml[u].status = "DONE"
  <2>1. PICK row \in VerdictRow : row = ml[u].row /\ OnMaterial(row, u)
    BY <1>4 DEF LifeInv, TypeOK, ServicesTypeOK, MaterialInv, QueuedInv
  <2> DEFINE v == [tx[x] EXCEPT !.new = row, !.pc = "read_verdict"]
  <2>2. tx' = [tx EXCEPT ![x] = v]
    BY <1>2, <1>4, <2>1 DEF PollVerdict
  <2>3. /\ v \in Transactions /\ v.pc = "read_verdict" /\ v.kind = "poll" /\ v.app = tx[x].app
        /\ v.w = tx[x].w /\ v.new = row /\ v.row = tx[x].row
    BY <1>1, <2>1 DEF Transactions, PCs
  <2> HIDE DEF v
  <2>4. tx[x].w.verdict = None /\ tx[x].w.status = None /\ ~tx[x].w.deactivate
    BY <1>1 DEF VerdictInv
  <2> QED BY <1>1, <1>2, <1>3, <2>1, <2>2, <2>3, <2>4, KindsDiffer, TaskMaterial
             DEF JudgedInv, Verdicts
<1>5. CASE ml[u].status # "DONE"
  BY <1>2, <1>3, <1>5, EndMaterial DEF PollVerdict
<1> QED BY <1>4, <1>5

LEMMA PollVerdictErrorMaterial ==
    ASSUME LifeInv, MaterialInv, NEW x \in Actors, PollVerdictError(x)
    PROVE  MaterialInv'
<1> DEFINE v == [tx[x] EXCEPT !.new = ErrorBody, !.pc = "read_verdict"]
<1>1. /\ tx[x] \in Transactions /\ tx[x].app \in Apps /\ tx[x].kind = "poll"
      /\ VerdictInv(x) /\ JudgedInv(x) /\ tx[x].pc = "poll_verdict"
  BY StepKinds, TaskFacts DEF PollVerdictError
<1>2. PICK u \in Users : u = Owner[tx[x].app]
  BY <1>1, OwnerAssumption
<1>3. tx' = [tx EXCEPT ![x] = v] /\ UNCHANGED <<db, inbox, sent, ml>>
  BY DEF PollVerdictError
<1>4. ErrorBody \in VerdictRow /\ OnMaterial(ErrorBody, u)
  BY DEF ErrorBody, VerdictRow, OnMaterial
<1>5. /\ v \in Transactions /\ v.pc = "read_verdict" /\ v.kind = "poll" /\ v.app = tx[x].app
      /\ v.w = tx[x].w /\ v.new = ErrorBody /\ v.row = tx[x].row
  BY <1>1, <1>4 DEF Transactions, PCs
<1> HIDE DEF v
<1>6. tx[x].w.verdict = None /\ tx[x].w.status = None /\ ~tx[x].w.deactivate
  BY <1>1 DEF VerdictInv
<1> QED BY <1>1, <1>2, <1>3, <1>4, <1>5, <1>6, KindsDiffer, TaskMaterial DEF JudgedInv, Verdicts

LEMMA ReadVerdictMaterial ==
    ASSUME LifeInv, MaterialInv, NEW x \in Actors, ReadVerdict(x)
    PROVE  MaterialInv'
<1> DEFINE v == [tx[x] EXCEPT !.row = verdict[tx[x].app], !.pc = "write_verdict"]
<1>1. /\ tx[x] \in Transactions /\ tx[x].app \in Apps /\ Owner[tx[x].app] \in Users
      /\ tx[x].kind = "poll" /\ JudgedInv(x) /\ tx[x].pc = "read_verdict"
  BY StepKinds, TaskFacts DEF ReadVerdict
<1>2. tx' = [tx EXCEPT ![x] = v] /\ UNCHANGED <<db, inbox, sent, ml>>
  BY DEF ReadVerdict
<1>3. verdict[tx[x].app] \in VerdictRow \cup {None}
  BY <1>1 DEF LifeInv, TypeOK, RowsTypeOK
<1>4. /\ v \in Transactions /\ v.pc = "write_verdict" /\ v.kind = tx[x].kind
      /\ v.app = tx[x].app /\ v.w = tx[x].w /\ v.new = tx[x].new /\ v.row = verdict[tx[x].app]
  BY <1>1, <1>3 DEF Transactions, PCs
<1> HIDE DEF v
<1>5. v.row # None => Known(v.row, Owner[tx[x].app])
  BY <1>1, <1>4 DEF MaterialInv, RecordedInv
<1> QED BY <1>1, <1>2, <1>4, <1>5, TaskMaterial DEF JudgedInv

\* The upsert's row is on sent material of the owner, and has FRAUD where the
\* new verdict has, unless the owner is out already.
LEMMA UpsertedMaterial ==
    ASSUME LifeInv, MaterialInv, NEW x \in Actors, tx[x].kind = "poll",
           tx[x].pc = "write_verdict", NEW u \in Users, u = Owner[tx[x].app]
    PROVE  /\ Upserted(x) \in VerdictRow /\ OnMaterial(Upserted(x), u)
           /\ active[u] => (Upserted(x).value = "FRAUD" <=> tx[x].new.value = "FRAUD")
<1>1. /\ VerdictInv(x) /\ JudgedInv(x) /\ tx[x] \in Transactions /\ tx[x].app \in Apps
  BY TaskFacts
<1>2. /\ tx[x].new \in VerdictRow /\ OnMaterial(tx[x].new, u)
      /\ tx[x].row # None => /\ Known(tx[x].row, u) /\ verdict[tx[x].app] # None
  BY <1>1 DEF VerdictInv, JudgedInv, Transactions
<1>3. Upserted(x) \in VerdictRow
  BY <1>1, UpsertedIsRow
<1>4. CASE tx[x].row = None
  BY <1>2, <1>3, <1>4 DEF Upserted
<1>5. CASE tx[x].row # None
  <2>1. Known(verdict[tx[x].app], u) /\ Known(tx[x].row, u)
    BY <1>1, <1>2, <1>5 DEF MaterialInv, RecordedInv
  <2>2. /\ Upserted(x).value = IF tx[x].new.value = tx[x].row.value
                               THEN verdict[tx[x].app].value ELSE tx[x].new.value
        /\ Upserted(x).of \in {verdict[tx[x].app].of, tx[x].new.of}
    BY <1>5 DEF Upserted
  <2> QED BY <1>2, <1>3, <2>1, <2>2 DEF Known, OnMaterial
<1> QED BY <1>4, <1>5

LEMMA WriteVerdictMaterial ==
    ASSUME LifeInv, MaterialInv, NEW x \in Actors, WriteVerdict(x)
    PROVE  MaterialInv'
<1>1. /\ tx[x] \in Transactions /\ tx[x].w \in Writes /\ tx[x].app \in Apps
      /\ tx[x].kind = "poll" /\ VerdictInv(x) /\ JudgedInv(x) /\ tx[x].pc = "write_verdict"
  BY StepKinds, TaskFacts DEF WriteVerdict
<1>2. UNCHANGED <<db, inbox, sent, ml>>
  BY DEF WriteVerdict
<1>3. CASE End(x)
  BY <1>2, <1>3, EndMaterial
<1>4. CASE ~End(x)
  <2>1. PICK u \in Users : u = Owner[tx[x].app]
    BY <1>1, OwnerAssumption
  <2>2. PICK row \in VerdictRow :
           /\ row = Upserted(x) /\ OnMaterial(row, u)
           /\ active[u] => (row.value = "FRAUD" <=> tx[x].new.value = "FRAUD")
    BY <1>1, <2>1, UpsertedMaterial
  <2> DEFINE v == [tx[x] EXCEPT !.w = [tx[x].w EXCEPT !.verdict = row], !.pc = "poll_app"]
  <2>3. tx' = [tx EXCEPT ![x] = v]
    BY <1>1, <1>4, <2>2, StepKinds DEF WriteVerdict
  <2>4. v \in Transactions
    BY <1>1 DEF Transactions, Writes, PCs
  <2>5. /\ v.pc = "poll_app" /\ v.kind = tx[x].kind /\ v.app = tx[x].app
        /\ v.new = tx[x].new /\ v.row = tx[x].row
        /\ v.w.verdict = row /\ v.w.status = tx[x].w.status /\ v.w.deactivate = tx[x].w.deactivate
    BY <1>1 DEF Transactions, Writes
  <2> HIDE DEF v
  <2> QED BY <1>1, <1>2, <2>1, <2>2, <2>3, <2>4, <2>5, TaskMaterial DEF JudgedInv
<1> QED BY <1>3, <1>4

LEMMA PollAppMaterial ==
    ASSUME LifeInv, MaterialInv, NEW x \in Actors, PollApp(x)
    PROVE  MaterialInv'
<1> DEFINE v == [tx[x] EXCEPT !.seen = status[tx[x].app], !.pc = "write_status"]
<1>1. /\ tx[x] \in Transactions /\ tx[x].app \in Apps /\ Owner[tx[x].app] \in Users
      /\ tx[x].kind = "poll" /\ JudgedInv(x)
  BY StepKinds, TaskFacts DEF PollApp
<1>2. tx' = [tx EXCEPT ![x] = v] /\ UNCHANGED <<db, inbox, sent, ml>>
  BY DEF PollApp
<1>3. status[tx[x].app] \in Statuses
  BY <1>1 DEF LifeInv, TypeOK, RowsTypeOK
<1>4. /\ v \in Transactions /\ v.pc = "write_status" /\ v.kind = tx[x].kind
      /\ v.app = tx[x].app /\ v.w = tx[x].w /\ v.new = tx[x].new /\ v.row = tx[x].row
  BY <1>1, <1>3 DEF Transactions, PCs
<1> HIDE DEF v
<1> QED BY <1>1, <1>2, <1>4, TaskMaterial DEF JudgedInv

LEMMA WriteVerdictStatusMaterial ==
    ASSUME LifeInv, MaterialInv, NEW x \in Actors, WriteVerdictStatus(x)
    PROVE  MaterialInv'
<1>1. /\ tx[x] \in Transactions /\ tx[x].app \in Apps /\ Owner[tx[x].app] \in Users
      /\ tx[x].kind = "poll" /\ VerdictInv(x) /\ JudgedInv(x) /\ tx[x].pc = "write_status"
  BY StepKinds, TaskFacts DEF WriteVerdictStatus
<1>2. PICK next : next = IF tx[x].new.value = "FRAUD" THEN "deactivate" ELSE "commit"
  OBVIOUS
<1>3. tx[x].new \in VerdictRow
  BY <1>1 DEF VerdictInv, Transactions
<1>4. PICK v \in Transactions :
         /\ tx' = [tx EXCEPT ![x] = v] /\ v.pc = next
         /\ v.kind = tx[x].kind /\ v.app = tx[x].app
         /\ v.row = tx[x].row /\ v.new = tx[x].new
         /\ v.w.verdict = tx[x].w.verdict /\ v.w.deactivate = tx[x].w.deactivate
         /\ v.w.status \in {Shown(tx[x].new), tx[x].w.status}
  <2>1. WriteStatus(x, Shown(tx[x].new), next)
    BY <1>1, <1>2 DEF WriteVerdictStatus
  <2>2. Shown(tx[x].new) \in Statuses /\ next \in PCs
    BY <1>2, <1>3, ShownIsVerdict DEF Statuses, PCs
  <2> QED BY <2>1, <2>2, WriteStatusMoves
<1>5. UNCHANGED <<db, inbox, sent, ml>>
  BY DEF WriteVerdictStatus
<1> QED BY <1>1, <1>2, <1>3, <1>4, <1>5, ShownIsVerdict, TaskMaterial DEF JudgedInv

LEMMA DeactivateUserMaterial ==
    ASSUME LifeInv, MaterialInv, NEW x \in Actors, DeactivateUser(x)
    PROVE  MaterialInv'
<1> DEFINE v == [tx[x] EXCEPT !.w = [tx[x].w EXCEPT !.deactivate = TRUE], !.pc = "commit"]
<1>1. /\ tx[x] \in Transactions /\ tx[x].w \in Writes /\ tx[x].app \in Apps
      /\ Owner[tx[x].app] \in Users /\ tx[x].kind = "poll" /\ JudgedInv(x)
      /\ tx[x].new.value = "FRAUD"
  BY StepKinds, TaskFacts DEF DeactivateUser, JudgedInv
<1>2. tx' = [tx EXCEPT ![x] = v] /\ UNCHANGED <<db, inbox, sent, ml>>
  BY <1>1, StepKinds DEF DeactivateUser
<1>3. v \in Transactions
  BY <1>1 DEF Transactions, Writes, PCs
<1>4. /\ v.pc = "commit" /\ v.kind = tx[x].kind /\ v.app = tx[x].app
      /\ v.new = tx[x].new /\ v.row = tx[x].row /\ v.w.deactivate
      /\ v.w.verdict = tx[x].w.verdict /\ v.w.status = tx[x].w.status
  BY <1>1 DEF Transactions, Writes
<1> HIDE DEF v
<1> QED BY <1>1, <1>2, <1>3, <1>4, TaskMaterial DEF JudgedInv

LEMMA PollCacheMaterial ==
    ASSUME LifeInv, MaterialInv, NEW x \in Actors, PollCache(x)
    PROVE  MaterialInv'
BY EndMaterial DEF PollCache

LEMMA PollOnceMaterial ==
    ASSUME LifeInv, MaterialInv, NEW p \in Pollers, PollOnce(p)
    PROVE  MaterialInv'
<1>1. UNCHANGED db /\ QueuedInv' /\ sent \subseteq sent'
  BY QueuedLasts DEF PollOnce
<1>2. ASSUME NEW y \in Actors, tx'[y] # tx[y]
      PROVE  JudgedInv(y)'
  <2>1. PICK a \in Apps : /\ tx'[y] = [Begin("poll", "poll_status") EXCEPT !.app = a]
                          /\ status[a] = "ML_PROCESSING"
    BY <1>2 DEF PollOnce, Tasks, Actors
  <2>2. /\ tx'[y].kind = "poll" /\ tx'[y].pc = "poll_status" /\ tx'[y].app = a
        /\ tx'[y].w = NoWrites /\ tx'[y].row = None /\ tx'[y].new = None
    BY <2>1 DEF Begin, Idle
  <2>3. cooled'[a]
    BY <1>1, <2>1 DEF LifeInv, ProcessingWasSent, db
  <2>4. None # "FRAUD"
    BY KindsDiffer DEF Verdicts
  <2> QED BY <2>2, <2>3, <2>4, IdleFields DEF JudgedInv
<1> QED BY <1>1, <1>2, MaterialMoves

LEMMA RestartMaterial ==
    ASSUME LifeInv, MaterialInv, Restart
    PROVE  MaterialInv'
<1>1. UNCHANGED db /\ QueuedInv' /\ sent \subseteq sent'
  BY QueuedLasts DEF Restart
<1>2. \A y \in Actors : JudgedInv(y)'
  BY IdleJudgesNothing DEF Restart
<1> QED BY <1>1, <1>2, MaterialMoves

\* The ML service judges what it took from the queue.
LEMMA MLMaterial ==
    ASSUME LifeInv, MaterialInv, NEW w \in Users, MLTake(w) \/ MLFinish(w) \/ MLError(w)
    PROVE  MaterialInv'
<1>1. UNCHANGED <<db, sent, tx>>
  BY DEF MLTake, MLFinish, MLError
<1>2. /\ inbox \in [Users -> Seq(Apps)] /\ ml \in [Users -> [status : MLStatuses,
                                                           row : Apps \cup VerdictRow \cup {None}]]
  BY DEF LifeInv, TypeOK, ServicesTypeOK
<1>3. ASSUME NEW u \in Users
      PROVE  /\ \A i \in 1..Len(inbox'[u]) : inbox'[u][i] \in sent /\ Owner[inbox'[u][i]] = u
             /\ ml'[u].status = "PROCESSING" => ml'[u].row \in sent /\ Owner[ml'[u].row] = u
             /\ ml'[u].status = "DONE" /\ ml'[u].row.of # "error" =>
                   ml'[u].row.of \in sent /\ Owner[ml'[u].row.of] = u
  <2>1. /\ \A i \in 1..Len(inbox[u]) : inbox[u][i] \in sent /\ Owner[inbox[u][i]] = u
        /\ ml[u].status = "PROCESSING" => ml[u].row \in sent /\ Owner[ml[u].row] = u
        /\ ml[u].status = "DONE" /\ ml[u].row.of # "error" =>
              ml[u].row.of \in sent /\ Owner[ml[u].row.of] = u
    BY DEF MaterialInv, QueuedInv, OnMaterial
  <2>2. CASE u # w
    BY <1>2, <2>1, <2>2 DEF MLTake, MLFinish, MLError
  <2>3. CASE u = w /\ MLTake(u)
    <3>1. inbox[u] \in Seq(Apps) /\ inbox[u] # <<>>
      BY <1>2, <2>3 DEF MLTake
    <3>2. /\ inbox'[u] = Tail(inbox[u])
          /\ ml'[u].status = "PROCESSING" /\ ml'[u].row = Head(inbox[u])
      BY <1>2, <2>3 DEF MLTake
    <3>3. Head(inbox[u]) = inbox[u][1] /\ 1 \in 1..Len(inbox[u])
      BY <3>1
    <3>4. ASSUME NEW i \in 1..Len(Tail(inbox[u]))
          PROVE  Tail(inbox[u])[i] = inbox[u][i + 1] /\ i + 1 \in 1..Len(inbox[u])
      BY <3>1
    <3> QED BY <2>1, <3>2, <3>3, <3>4
  <2>4. CASE u = w /\ MLFinish(u)
    <3>1. /\ inbox'[u] = inbox[u] /\ ml'[u].status = "DONE" /\ ml'[u].row.of = ml[u].row
          /\ ml[u].status = "PROCESSING"
      BY <1>2, <2>4 DEF MLFinish
    <3> QED BY <2>1, <3>1
  <2>5. CASE u = w /\ MLError(u)
    <3>1. inbox'[u] = inbox[u] /\ ml'[u].status = "ERROR"
      BY <1>2, <2>5 DEF MLError
    <3> QED BY <2>1, <3>1
  <2> QED BY <2>2, <2>3, <2>4, <2>5
<1>4. QueuedInv'
  <2> SUFFICES ASSUME NEW u \in Users
               PROVE  /\ \A i \in 1..Len(inbox'[u]) :
                            inbox'[u][i] \in sent' /\ Owner[inbox'[u][i]] = u
                      /\ ml'[u].status = "PROCESSING" => ml'[u].row \in sent' /\ Owner[ml'[u].row] = u
                      /\ ml'[u].status = "DONE" /\ ml'[u].row.of # "error" =>
                            ml'[u].row.of \in sent' /\ Owner[ml'[u].row.of] = u
    BY DEF QueuedInv, OnMaterial
  <2>1. sent' = sent
    BY <1>1
  <2> QED BY <1>3, <2>1
<1> QED BY <1>1, <1>4, MaterialMoves

\* Who commits FRAUD deactivates the owner, or finds that done.
LEMMA CommitMaterial ==
    ASSUME LifeInv, MaterialInv, NEW x \in Actors, Commit(x)
    PROVE  MaterialInv'
<1> DEFINE a == tx[x].app
           w == tx[x].w
<1>1. /\ a \in Apps
      /\ \A b \in Apps :
            /\ status'[b] = IF b = a /\ w.status # None THEN w.status ELSE status[b]
            /\ cooled'[b] = (cooled[b] \/ (b = a /\ w.cooled))
            /\ verdict'[b] = IF b = a /\ w.verdict # None THEN w.verdict ELSE verdict[b]
  BY CommitRows
<1>2. /\ \A y \in Actors \ {x} : tx'[y] = tx[y]
      /\ \/ tx'[x] = Idle
         \/ /\ tx[x].kind = "poll" /\ tx'[x].kind = "poll" /\ tx'[x].pc = "cache"
            /\ tx'[x].app = a /\ tx'[x].w = NoWrites
            /\ tx'[x].new = tx[x].new /\ tx'[x].row = tx[x].row
  BY CommitMoves
<1>3. /\ tx[x].kind \in Kinds /\ StartInv(x) /\ EndInv(x) /\ VerdictInv(x) /\ JudgedInv(x)
      /\ tx[x].pc = "commit" /\ sent' = sent /\ UNCHANGED <<inbox, ml>> /\ w \in Writes
  BY StepKinds DEF MaterialInv, Commit
<1>4. PICK u \in Users : u = Owner[a]
  BY <1>1, OwnerAssumption
<1>5. /\ active \in [Users -> BOOLEAN]
      /\ active' = IF w.deactivate THEN [active EXCEPT ![u] = FALSE] ELSE active
  BY <1>4 DEF Commit, LifeInv, TypeOK, RowsTypeOK
<1>6. /\ w.verdict # None =>
            /\ tx[x].kind = "poll" /\ OnMaterial(w.verdict, u)
            /\ active[u] => (w.verdict.value = "FRAUD" <=> tx[x].new.value = "FRAUD")
      /\ w.status = "FRAUD" => tx[x].kind = "poll" /\ tx[x].new.value = "FRAUD"
      /\ tx[x].kind = "poll" /\ tx[x].new.value = "FRAUD" => w.deactivate
  BY <1>3, <1>4, KindsDiffer DEF StartInv, EndInv, JudgedInv, Kinds, Verdicts
<1>7. (w.verdict # None /\ w.verdict.value = "FRAUD") \/ w.status = "FRAUD" => ~active'[u]
  BY <1>5, <1>6
<1> HIDE DEF a, w
<1>8. Lasts
  BY <1>1, <1>3, <1>5 DEF Lasts
<1>9. QueuedInv'
  BY <1>3, QueuedLasts
<1>10. RecordedInv'
  <2> SUFFICES ASSUME NEW b \in Apps, verdict'[b] # None
               PROVE  /\ verdict'[b].of # "error" =>
                            verdict'[b].of \in sent' /\ Owner[verdict'[b].of] = Owner[b]
                      /\ verdict'[b].value = "FRAUD" => ~active'[Owner[b]]
    BY DEF RecordedInv, Known, OnMaterial
  <2>1. CASE b = a /\ w.verdict # None
    BY <1>1, <1>3, <1>4, <1>6, <1>7, <2>1 DEF OnMaterial
  <2>2. CASE ~(b = a /\ w.verdict # None)
    <3>1. verdict'[b] = verdict[b] /\ Owner[b] \in Users
      BY <1>1, <2>2, OwnerAssumption
    <3>2. Known(verdict[b], Owner[b])
      BY <3>1 DEF MaterialInv, RecordedInv
    <3> QED BY <1>8, <3>1, <3>2 DEF Lasts, Known, OnMaterial
  <2> QED BY <2>1, <2>2
<1>11. FraudBlocksUser'
  <2> SUFFICES ASSUME NEW b \in Apps, status'[b] = "FRAUD"
               PROVE  ~active'[Owner[b]]
    BY DEF FraudBlocksUser
  <2>1. CASE b = a /\ w.status # None
    BY <1>1, <1>4, <1>7, <2>1
  <2>2. CASE ~(b = a /\ w.status # None)
    <3>1. status[b] = "FRAUD" /\ Owner[b] \in Users
      BY <1>1, <2>2, OwnerAssumption
    <3> QED BY <1>8, <3>1 DEF MaterialInv, FraudBlocksUser, Lasts
  <2> QED BY <2>1, <2>2
<1>12. ASSUME NEW y \in Actors
       PROVE  JudgedInv(y)'
  <2>1. CASE y # x
    BY <1>2, <1>8, <2>1, JudgedLasts DEF MaterialInv
  <2>2. CASE y = x /\ tx'[x] = Idle
    BY <2>2, IdleJudgesNothing
  <2>3. CASE y = x /\ tx'[x] # Idle
    <3>0. PICK new, row : new = tx[x].new /\ row = tx[x].row
      OBVIOUS
    <3>1. /\ cooled'[a]
          /\ new # None => OnMaterial(new, u)
          /\ row # None => Known(row, u)
      BY <1>1, <1>2, <1>3, <1>4, <1>8, <2>3, <3>0 DEF JudgedInv, Lasts, a
    <3>2. /\ new # None => OnMaterial(new, u)'
          /\ row # None => Known(row, u)'
      BY <1>8, <3>1 DEF Lasts, OnMaterial, Known
    <3>3. /\ tx'[x].kind = "poll" /\ tx'[x].pc = "cache" /\ tx'[x].app = a
          /\ tx'[x].w = NoWrites /\ tx'[x].new = new /\ tx'[x].row = row
      BY <1>2, <2>3, <3>0
    <3>4. None # "FRAUD"
      BY KindsDiffer DEF Verdicts
    <3> QED BY <1>4, <2>3, <3>1, <3>2, <3>3, <3>4, IdleFields DEF JudgedInv, OnMaterial, Known
  <2> QED BY <2>1, <2>2, <2>3
<1> QED BY <1>9, <1>10, <1>11, <1>12 DEF MaterialInv

LEMMA NextMaterial ==
    Overrides = {} /\ LifeInv /\ MaterialInv /\ [Next]_vars => MaterialInv'
<1> SUFFICES ASSUME Overrides = {}, LifeInv, MaterialInv, [Next]_vars PROVE MaterialInv'
  OBVIOUS
<1>1. ASSUME UNCHANGED <<db, inbox, sent, ml, tx>>
      PROVE  MaterialInv'
  <2>1. UNCHANGED db /\ QueuedInv' /\ sent \subseteq sent'
    BY <1>1, QueuedLasts
  <2> QED BY <1>1, <2>1, MaterialMoves
<1>2. ASSUME NEW r \in Requests,
             \/ \E a \in Apps : StartLoad(r, a)
             \/ \E s \in Sessions : EndLoadSession(r, s)
             \/ \E a \in Apps, v \in Overrides : OverrideLoad(r, a, v)
             \/ EndSendFails(r) \/ EndStatusFails(r)
      PROVE  MaterialInv'
  <2>1. r \in Actors
    BY DEF Actors
  <2> QED BY <1>2, <2>1, LoadMaterial, InterviewMaterial
<1>3. ASSUME NEW p \in Pollers, PollOnce(p)
      PROVE  MaterialInv'
  BY <1>3, PollOnceMaterial
<1>4. ASSUME NEW x \in Actors, Step(x)
      PROVE  MaterialInv'
  BY <1>4, InterviewMaterial, PollStatusMaterial, PollVerdictMaterial, PollAppMaterial,
     DeactivateUserMaterial, PollCacheMaterial, ReadVerdictMaterial, WriteVerdictMaterial,
     WriteVerdictStatusMaterial, CommitMaterial DEF Step
<1>5. ASSUME NEW x \in Actors, Rollback(x) \/ PollVerdictError(x)
      PROVE  MaterialInv'
  BY <1>5, EndMaterial, PollVerdictErrorMaterial DEF Rollback
<1>6. ASSUME NEW a \in Apps, CacheExpires(a)
      PROVE  MaterialInv'
  BY <1>1, <1>6 DEF CacheExpires
<1>7. ASSUME NEW u \in Users, MLTake(u) \/ MLFinish(u) \/ MLError(u)
      PROVE  MaterialInv'
  BY <1>7, MLMaterial
<1>8. CASE UNCHANGED vars
  BY <1>1, <1>8 DEF vars
<1> QED BY <1>2, <1>3, <1>4, <1>5, <1>6, <1>7, <1>8, RestartMaterial DEF Next

\* The inductive invariant holds in every reachable state.
THEOREM LifeIInv == Spec => []IInv
<1>1. Init => IInv
  BY InitLife, InitMaterial DEF IInv
<1>2. IInv /\ [Next]_vars => IInv'
  BY NextLife, NextMaterial DEF IInv
<1> QED BY <1>1, <1>2, PTL DEF Spec

\* FRAUD and the deactivation of the user are committed together.
THEOREM LifeFraudBlocksUser ==
    ASSUME Overrides = {}
    PROVE  Spec => []FraudBlocksUser
<1>1. IInv => FraudBlocksUser
  BY DEF IInv, MaterialInv
<1> QED BY <1>1, LifeIInv, PTL

-----------------------------------------------------------------------------
(***************************************************************************)
(* The refinement of Assessment, where no officer overrides.               *)
(***************************************************************************)
Barred == {u \in Users : ~active[u]}
Cooling == {a \in Apps : cooled[a]}

LEMMA LifeStutters ==
    ASSUME UNCHANGED <<db, sent>>
    PROVE  [Abstract!Next]_(Abstract!avars)
BY DEF db, Abstract!avars

LEMMA LifeSubmits ==
    ASSUME NEW a \in Apps, UNCHANGED db, sent' = sent \cup {a}
    PROVE  [Abstract!Next]_(Abstract!avars)
<1>1. Abstract!Submit(a)
  BY DEF db, Abstract!Submit
<1> QED BY <1>1 DEF Abstract!Next

\* A commit is the end of an interview, or a verdict on sent material of the
\* owner, with the owner's exclusion if the verdict is FRAUD.
LEMMA CommitRefines ==
    ASSUME LifeInv, MaterialInv, NEW x \in Actors, Commit(x)
    PROVE  [Abstract!Next]_(Abstract!avars)
<1> DEFINE a == tx[x].app
           w == tx[x].w
<1>1. /\ tx[x].kind \in Kinds /\ StartInv(x) /\ EndInv(x) /\ VerdictInv(x) /\ JudgedInv(x)
      /\ tx[x].pc = "commit" /\ sent' = sent /\ w \in Writes
  BY StepKinds DEF MaterialInv, Commit
<1>2. a \in Apps
  BY CommitRows
<1>3. PICK u \in Users : u = Owner[a]
  BY <1>2, OwnerAssumption
<1>4. /\ verdict' = IF w.verdict = None THEN verdict ELSE [verdict EXCEPT ![a] = w.verdict]
      /\ cooled' = IF w.cooled THEN [cooled EXCEPT ![a] = TRUE] ELSE cooled
      /\ active' = IF w.deactivate THEN [active EXCEPT ![u] = FALSE] ELSE active
  BY <1>3 DEF Commit
<1>5. active \in [Users -> BOOLEAN] /\ cooled \in [Apps -> BOOLEAN] /\ sent \subseteq Apps
  BY DEF LifeInv, TypeOK, RowsTypeOK, ServicesTypeOK
<1>6. CASE tx[x].kind = "start"
  <2>1. UNCHANGED <<sent, cooled, verdict, active>>
    BY <1>1, <1>4, <1>6 DEF StartInv
  <2> QED BY <2>1 DEF Abstract!avars
<1>7. CASE tx[x].kind = "end"
  <2>1. PICK b \in Apps : b = a
    BY <1>2
  <2>2. UNCHANGED <<sent, verdict, active>> /\ cooled' = [cooled EXCEPT ![b] = TRUE]
    BY <1>1, <1>4, <1>7, <2>1 DEF EndInv
  <2>3. Cooling' = Cooling \cup {b}
    BY <1>5, <2>2 DEF Cooling
  <2>4. Abstract!Interview(b)
    BY <2>2, <2>3 DEF Abstract!Interview, Cooling
  <2> QED BY <2>4 DEF Abstract!Next
<1>8. CASE tx[x].kind = "poll"
  <2>1. /\ w.verdict \in VerdictRow /\ w.verdict # None /\ OnMaterial(w.verdict, u) /\ ~w.cooled
        /\ cooled[a]
        /\ active[u] => (w.verdict.value = "FRAUD" <=> w.deactivate)
    BY <1>1, <1>3, <1>8 DEF VerdictInv, JudgedInv, Writes
  <2>2. PICK v \in Verdicts \cup {None}, m \in Apps \cup {"error"} :
           w.verdict = [value |-> v, of |-> m] /\ (m # "error" => m \in sent /\ Owner[m] = u)
    <3>1. PICK v \in Verdicts \cup {None}, m \in Apps \cup {"admin", "error"} :
             w.verdict = [value |-> v, of |-> m]
      BY <2>1 DEF VerdictRow
    <3>2. m # "error" => m \in sent /\ Owner[m] = u
      BY <2>1, <3>1 DEF OnMaterial
    <3> QED BY <1>5, <3>1, <3>2
  <2>3. verdict' = [verdict EXCEPT ![a] = [value |-> v, of |-> m]] /\ cooled' = cooled
    BY <1>4, <2>1, <2>2
  <2>4. Barred' = IF v = "FRAUD" THEN Barred \cup {u} ELSE Barred
    <3>1. w.verdict.value = v
      BY <2>2
    <3>2. CASE active[u]
      <4>1. w.deactivate = (v = "FRAUD")
        BY <1>1, <2>1, <3>1, <3>2 DEF Writes
      <4> QED BY <1>4, <1>5, <3>2, <4>1 DEF Barred
    <3>3. CASE ~active[u]
      BY <1>4, <1>5, <3>3 DEF Barred
    <3> QED BY <3>2, <3>3
  <2>5. Abstract!Judge(a, m, v)
    BY <1>1, <1>2, <1>3, <2>1, <2>2, <2>3, <2>4 DEF Abstract!Judge, Barred
  <2> QED BY <1>2, <1>5, <2>2, <2>5 DEF Abstract!Next
<1> QED BY <1>1, <1>6, <1>7, <1>8 DEF JudgedInv, Kinds

\* Every step of the life cycle is a step of the assessment, or none.
LEMMA NextRefines ==
    Overrides = {} /\ LifeInv /\ MaterialInv /\ [Next]_vars => [Abstract!Next]_(Abstract!avars)
<1> SUFFICES ASSUME Overrides = {}, LifeInv, MaterialInv, [Next]_vars
             PROVE  [Abstract!Next]_(Abstract!avars)
  OBVIOUS
<1>1. ASSUME NEW r \in Requests,
             \/ \E a \in Apps : StartLoad(r, a)
             \/ \E s \in Sessions : EndLoadSession(r, s)
             \/ \E a \in Apps, v \in Overrides : OverrideLoad(r, a, v)
      PROVE  UNCHANGED <<db, sent>>
  BY <1>1 DEF StartLoad, EndLoadSession
<1>2. ASSUME NEW x \in Actors, EndSend(x) \/ EndSendFails(x) \/ EndStatusFails(x)
      PROVE  [Abstract!Next]_(Abstract!avars)
  <2>1. UNCHANGED db /\ (Deliver(tx[x].app) \/ UNCHANGED sent)
    BY <1>2 DEF EndSend, EndSendFails, EndStatusFails
  <2>2. tx[x].app \in Apps
    BY <1>2, StepKinds DEF EndSend, EndSendFails, EndStatusFails, EndInv
  <2>3. CASE Deliver(tx[x].app)
    BY <2>1, <2>2, <2>3, LifeSubmits DEF Deliver
  <2>4. CASE UNCHANGED sent
    BY <2>1, <2>4, LifeStutters
  <2> QED BY <2>1, <2>3, <2>4
<1>3. ASSUME NEW p \in Pollers, PollOnce(p)
      PROVE  UNCHANGED <<db, sent>>
  BY <1>3 DEF PollOnce
<1>4. ASSUME NEW x \in Actors, Step(x), ~Commit(x), ~EndSend(x)
      PROVE  UNCHANGED <<db, sent>>
  BY <1>4 DEF Step, StartCreate, StartStatus, EndLoadApp, EndComplete, EndCooldown, PollStatus,
              PollVerdict, PollApp, DeactivateUser, PollCache, ReadVerdict, WriteVerdict,
              WriteVerdictStatus
<1>5. ASSUME \/ \E x \in Actors : Rollback(x) \/ PollVerdictError(x)
             \/ Restart
             \/ \E a \in Apps : CacheExpires(a)
             \/ \E u \in Users : MLTake(u) \/ MLFinish(u) \/ MLError(u)
             \/ UNCHANGED vars
      PROVE  UNCHANGED <<db, sent>>
  BY <1>5 DEF Rollback, PollVerdictError, Restart, CacheExpires, MLTake, MLFinish, MLError, vars
<1>6. \A r \in Requests : r \in Actors
  BY DEF Actors
<1> QED BY <1>1, <1>2, <1>3, <1>4, <1>5, <1>6, CommitRefines, LifeStutters DEF Next

\* The life cycle implements the assessment: no verdict before the cooldown of
\* an interview, none but on material of the candidate that was sent, FRAUD and
\* the exclusion in one commit, and none of it undone.
THEOREM LifeImplementsAssessment ==
    ASSUME Overrides = {}
    PROVE  Spec => ImplementsAssessment
<1>1. Init => Abstract!Init
  BY DEF Init, Abstract!Init
<1>2. IInv /\ [Next]_vars => [Abstract!Next]_(Abstract!avars)
  BY NextRefines DEF IInv
<1> QED BY <1>1, <1>2, LifeIInv, PTL DEF Spec, ImplementsAssessment, Abstract!Spec
=============================================================================
