-------------------------- MODULE StatusStreamProofs --------------------------
(***************************************************************************)
(* Proofs about StatusStream, for any number of pollers, officers, streams *)
(* and failures: every verdict a candidate is told was stored or published *)
(* and only a strayed one ever replaces another.                           *)
(***************************************************************************)
EXTENDS StatusStream, TLAPS

USE DefaultAssumption, OutcomesAssumption, FaultsAssumption

LEMMA InitIInv == Init => IInv
<1> SUFFICES ASSUME Init PROVE IInv
  OBVIOUS
<1>1. NotPolling \in Polls /\ NotPolling.pc = "idle" /\ NotPolling.got = None
  BY DEF NotPolling, Polls
<1>2. /\ NoStream \in Connections /\ NoStream.inbox = None /\ NoStream.told = None
  BY DEF NoStream, Connections
<1>3. NoOverride \in OfficerRequests
  BY DEF NoOverride, OfficerRequests
<1>4. /\ poll \in [Pollers -> Polls] /\ \A p \in Pollers : poll[p] = NotPolling
      /\ stream \in [Streams -> Connections] /\ \A s \in Streams : stream[s] = NoStream
      /\ officer \in [Officers -> OfficerRequests]
  BY <1>1, <1>2, <1>3 DEF Init
<1>5. TypeOK
  <2>1. \A p \in Pollers : poll[p].pc \in {"idle", "ask"} /\ poll[p].got = None
    BY <1>1, <1>4
  <2>2. \A s \in Streams : stream[s].inbox = None /\ stream[s].told = None
    BY <1>2, <1>4
  <2>3. published = FALSE /\ strayed = FALSE
    BY DEF Init
  <2>4. /\ published \in BOOLEAN /\ (published => ml \in Verdicts)
        /\ strayed \in BOOLEAN
    BY <2>3, Zenon
  <2> QED BY <1>4, <2>1, <2>2, <2>4 DEF Init, TypeOK
<1>6. VerdictStored /\ CacheFollows
  BY DEF Init, VerdictStored, CacheFollows
<1>7. \A p \in Pollers : PollInv(p)
  BY <1>1, <1>4 DEF PollInv
<1>8. \A s \in Streams : StreamInv(s)
  BY <1>2, <1>4 DEF StreamInv
<1> QED BY <1>5, <1>6, <1>7, <1>8 DEF IInv

-----------------------------------------------------------------------------
(***************************************************************************)
(* One poller moves, or one connection.                                    *)
(***************************************************************************)
PollOK(pc, got) ==
    \/ pc \in {"idle", "ask"} /\ got = None
    \/ pc \in {"cache", "fetch"} /\ got \in {"PROCESSING", "DONE"}
    \/ pc \in {"store", "final"} /\ got \in Verdicts

\* A poller takes a state that is in order; what was decided stays decided, and
\* what strayed stays strayed, so the others are in order as well.
LEMMA PollerMoves ==
    ASSUME IInv, NEW p \in Pollers, NEW pc, NEW got, PollOK(pc, got), PollTo(p, pc, got),
           ml' = ml, other' = other, decided \subseteq decided', strayed => strayed',
           got = "DONE" \/ pc = "fetch" => Answers # {},
           got \in Verdicts /\ ~strayed' => got = ml,
           pc = "final" => got \in decided'
    PROVE  /\ poll' \in [Pollers -> Polls]
           /\ \A q \in Pollers : PollOK(poll'[q].pc, poll'[q].got)
           /\ \A q \in Pollers : PollInv(q)'
<1> DEFINE v == [pc |-> pc, got |-> got]
<1>0. v \in Polls /\ v.pc = pc /\ v.got = got /\ poll' = [poll EXCEPT ![p] = v]
  BY DEF PollOK, Polls, PollTo
<1> HIDE DEF v
<1>1. poll \in [Pollers -> Polls]
  BY DEF IInv, TypeOK
<1>2. poll'[p] = v /\ \A q \in Pollers \ {p} : poll'[q] = poll[q]
  BY <1>0, <1>1
<1>3. poll' \in [Pollers -> Polls]
  BY <1>0, <1>1
<1>4. Answers' = Answers
  BY DEF Answers
<1>5. ASSUME NEW q \in Pollers
      PROVE  PollOK(poll'[q].pc, poll'[q].got) /\ PollInv(q)'
  <2>1. CASE q = p
    BY <1>0, <1>2, <1>4, <2>1 DEF PollInv
  <2>2. CASE q # p
    <3>1. PollInv(q) /\ poll'[q] = poll[q]
      BY <1>2, <2>2 DEF IInv
    <3>2. PollOK(poll[q].pc, poll[q].got)
      BY DEF IInv, TypeOK, PollOK
    <3> QED BY <1>4, <3>1, <3>2 DEF PollInv
  <2> QED BY <2>1, <2>2
<1> QED BY <1>3, <1>5

\* The pollers and the officers leave the streams in order.
LEMMA StreamsStay ==
    ASSUME IInv, UNCHANGED <<ml, published, stream>>, decided \subseteq decided'
    PROVE  \A s \in Streams : StreamInv(s)'
BY DEF IInv, StreamInv

LEMMA ConnectionMoves ==
    ASSUME IInv, NEW s \in Streams, NEW v \in Connections,
           stream' = [stream EXCEPT ![s] = v], UNCHANGED Others,
           v.inbox # None => v.pc = "listen" /\ published /\ v.inbox = ml,
           v.told # None => v.pc = "ended" /\ (v.told \in decided \/ (published /\ v.told = ml))
    PROVE  IInv'
<1>1. stream \in [Streams -> Connections]
  BY DEF IInv, TypeOK
<1>2. stream'[s] = v /\ \A t \in Streams \ {s} : stream'[t] = stream[t]
  BY <1>1
<1>3. stream' \in [Streams -> Connections]
  BY <1>1
<1>4. \A t \in Streams : /\ stream'[t].inbox # None => stream'[t].pc = "listen"
                         /\ stream'[t].told # None => stream'[t].pc = "ended"
  BY <1>2 DEF IInv, TypeOK
<1>5. \A t \in Streams : StreamInv(t)'
  BY <1>2 DEF IInv, StreamInv, Others
<1>6. TypeOK'
  BY <1>3, <1>4 DEF IInv, TypeOK, Others
<1>7. (VerdictStored /\ CacheFollows)'
  BY DEF IInv, Others, VerdictStored, CacheFollows
<1>8. \A p \in Pollers : PollInv(p)'
  BY DEF IInv, Others, PollInv, Answers
<1> QED BY <1>5, <1>6, <1>7, <1>8 DEF IInv

-----------------------------------------------------------------------------
(***************************************************************************)
(* The steps.                                                              *)
(***************************************************************************)
\* Nobody had a verdict of this application that had not strayed.
LEMMA FinishKeeps ==
    ASSUME IInv, NEW v \in Verdicts, MLFinish(v)
    PROVE  IInv'
<1>1. ml = "PROCESSING" /\ published = FALSE
  BY DEF IInv, TypeOK, MLFinish
<1>2. UNCHANGED <<other, published, status, cache, poll, officer, stream, decided, strayed, faults>>
  BY DEF MLFinish
<1>3. ~strayed => decided = {}
  BY <1>1 DEF IInv, TypeOK, VerdictStored
<1>4. TypeOK'
  BY <1>1, <1>2 DEF IInv, TypeOK, MLFinish
<1>5. (VerdictStored /\ CacheFollows)'
  BY <1>2, <1>3 DEF IInv, VerdictStored, CacheFollows
<1>6. \A p \in Pollers : PollInv(p)'
  <2>1. Answers # {} => Answers' # {}
    BY <1>1, <1>2 DEF Answers, MLFinish
  <2>2. \A p \in Pollers : poll[p].got \in Verdicts => strayed
    BY <1>1 DEF IInv, PollInv
  <2> QED BY <1>2, <2>1, <2>2 DEF IInv, PollInv
<1>7. \A s \in Streams : StreamInv(s)'
  BY <1>1, <1>2 DEF IInv, StreamInv
<1> QED BY <1>4, <1>5, <1>6, <1>7 DEF IInv

LEMMA PublishKeeps ==
    ASSUME IInv, MLPublish
    PROVE  IInv'
<1>1. ml \in Verdicts /\ ml' = ml
  BY DEF IInv, TypeOK, MLPublish
<1>2. stream \in [Streams -> Connections]
  BY DEF IInv, TypeOK
<1>3. ASSUME NEW s \in Streams
      PROVE  /\ stream'[s] \in Connections
             /\ stream'[s].inbox # None => stream'[s].pc = "listen"
             /\ stream'[s].told # None => stream'[s].pc = "ended"
             /\ StreamInv(s)'
  <2>1. stream[s] \in Connections
    BY <1>2
  <2>2. /\ stream[s].inbox # None => stream[s].pc = "listen"
        /\ stream[s].told # None => stream[s].pc = "ended"
        /\ StreamInv(s)
    BY DEF IInv, TypeOK
  <2>3. CASE stream[s].pc = "listen"
    <3>1. stream'[s] = [stream[s] EXCEPT !.inbox = ml]
      BY <2>3 DEF MLPublish
    <3>2. stream'[s] \in Connections
      BY <1>1, <2>1, <3>1 DEF Connections
    <3>3. /\ stream'[s].inbox = ml /\ stream'[s].pc = stream[s].pc
          /\ stream'[s].told = stream[s].told
      BY <2>1, <3>1 DEF Connections
    <3>4. ml' = ml /\ published' = TRUE /\ decided' = decided
      BY DEF MLPublish
    <3> QED BY <2>2, <2>3, <3>2, <3>3, <3>4 DEF StreamInv
  <2>4. CASE stream[s].pc # "listen"
    <3>1. stream'[s] = stream[s] /\ ml' = ml /\ published' = TRUE /\ decided' = decided
      BY <2>4 DEF MLPublish
    <3> QED BY <2>1, <2>2, <3>1 DEF StreamInv
  <2> QED BY <2>3, <2>4
<1>4. stream' \in [Streams -> Connections]
  <2>1. stream' = [s \in Streams |-> stream'[s]]
    BY DEF MLPublish
  <2> QED BY <1>3, <2>1
<1>5. TypeOK'
  BY <1>1, <1>3, <1>4 DEF IInv, TypeOK, MLPublish
<1>6. (VerdictStored /\ CacheFollows)'
  BY DEF IInv, MLPublish, VerdictStored, CacheFollows
<1>7. \A p \in Pollers : PollInv(p)'
  BY DEF IInv, MLPublish, PollInv, Answers
<1> QED BY <1>3, <1>5, <1>6, <1>7 DEF IInv

\* The pollers.
LEMMA PollKeeps ==
    ASSUME IInv, NEW p \in Pollers, PollStep(p) \/ PollError(p)
    PROVE  IInv'
<1> USE DEF PollError
<1>1. /\ poll[p] \in Polls /\ PollInv(p)
      /\ \/ poll[p].pc \in {"idle", "ask"} /\ poll[p].got = None
         \/ poll[p].pc \in {"cache", "fetch"} /\ poll[p].got \in {"PROCESSING", "DONE"}
         \/ poll[p].pc \in {"store", "final"} /\ poll[p].got \in Verdicts
  BY DEF IInv, TypeOK
<1>2. Answers \subseteq Verdicts
  BY DEF IInv, TypeOK, Answers
<1>3. UNCHANGED <<ml, other, published, officer, stream>>
  BY DEF PollStep, PollBegin, PollAsk, PollCache, PollFetch, PollStore, PollFinal,
         PollAskError, PollFetchError, PollFetchEmpty, PollFails
<1>4. faults' \in 0..MaxFaults
  BY DEF IInv, TypeOK, PollStep, PollBegin, PollAsk, PollCache, PollFetch, PollStore, PollFinal,
         PollAskError, PollFetchError, PollFetchEmpty, PollFails, Fault
<1>5. /\ strayed' \in BOOLEAN /\ (strayed => strayed')
  <2>1. strayed \in BOOLEAN
    BY DEF IInv, TypeOK
  <2>2. CASE strayed' = strayed
    BY <2>1, <2>2, Zenon
  <2>3. ASSUME NEW v, strayed' = (strayed \/ v # ml)
        PROVE  strayed' \in BOOLEAN /\ (strayed => strayed')
    BY <2>1, <2>3, Zenon
  <2>4. strayed' = strayed \/ \E v : strayed' = (strayed \/ v # ml)
    BY DEF PollStep, PollBegin, PollAsk, PollCache, PollFetch, PollStore, PollFinal,
           PollAskError, PollFetchError, PollFetchEmpty, PollFails
  <2> QED BY <2>2, <2>3, <2>4
<1>6. /\ decided \subseteq decided' /\ decided' \subseteq Verdicts
      /\ status' \in Verdicts \cup {"ML_PROCESSING"}
      /\ VerdictStored'
  <2>1. CASE PollStore(p)
    <3>1. /\ poll[p].got \in Verdicts /\ (~strayed => poll[p].got = ml)
          /\ status' = poll[p].got /\ decided' = decided \cup {poll[p].got}
          /\ strayed' = strayed /\ ml' = ml
      BY <1>1, <2>1 DEF PollStore, PollInv
    <3>2. decided \subseteq Verdicts /\ (~strayed => decided \subseteq {ml})
      BY DEF IInv, TypeOK, VerdictStored
    <3>3. ~strayed' => decided' \subseteq {ml'}
      BY <3>1, <3>2
    <3> QED BY <3>1, <3>2, <3>3 DEF VerdictStored
  <2>2. CASE ~PollStore(p)
    <3>1. status' = status /\ decided' = decided
      BY <2>2 DEF PollStep, PollBegin, PollAsk, PollCache, PollFetch, PollFinal,
                  PollAskError, PollFetchError, PollFetchEmpty, PollFails
    <3> QED BY <1>3, <1>5, <3>1 DEF IInv, TypeOK, VerdictStored
  <2> QED BY <2>1, <2>2
<1>7. /\ cache' \in Verdicts \cup {None, "PROCESSING", "DONE"}
      /\ cache' \in Verdicts => cache' \in decided'
  <2>1. CASE PollCache(p)
    BY <1>1, <2>1 DEF PollCache
  <2>2. CASE PollFinal(p)
    BY <1>1, <2>2 DEF PollFinal, PollInv
  <2>3. CASE ~PollCache(p) /\ ~PollFinal(p)
    <3>1. cache' = cache
      BY <2>3 DEF PollStep, PollBegin, PollAsk, PollFetch, PollStore,
                  PollAskError, PollFetchError, PollFetchEmpty, PollFails
    <3> QED BY <1>6, <3>1 DEF IInv, TypeOK, CacheFollows
  <2> QED BY <2>1, <2>2, <2>3
<1>8. PICK pc, got : /\ PollTo(p, pc, got) /\ PollOK(pc, got)
                     /\ got = "DONE" \/ pc = "fetch" => Answers # {}
                     /\ got \in Verdicts /\ ~strayed' => got = ml
                     /\ pc = "final" => got \in decided'
  <2>1. CASE PollBegin(p)
    <3>1. PollTo(p, "ask", None) /\ PollOK("ask", None)
      BY <2>1 DEF PollBegin, PollOK
    <3> QED BY <3>1
  <2>2. CASE PollAsk(p) \/ PollAskError(p)
    <3>1. CASE PollTo(p, "cache", "PROCESSING")
      <4>1. PollTo(p, "cache", "PROCESSING") /\ PollOK("cache", "PROCESSING")
        BY <3>1 DEF PollOK
      <4> QED BY <4>1
    <3>2. CASE PollTo(p, "cache", "DONE") /\ Answers # {}
      <4>1. PollTo(p, "cache", "DONE") /\ PollOK("cache", "DONE")
        BY <3>2 DEF PollOK
      <4> QED BY <3>2, <4>1
    <3> QED BY <2>2, <3>1, <3>2 DEF PollAsk, PollAskError
  <2>3. CASE PollCache(p) /\ poll[p].got = "DONE"
    <3>1. PollTo(p, "fetch", "DONE") /\ PollOK("fetch", "DONE") /\ Answers # {}
      BY <1>1, <2>3 DEF PollCache, PollOK, PollInv
    <3> QED BY <3>1
  <2>4. ASSUME NEW v \in Verdicts, PollTo(p, "store", v), strayed' = (strayed \/ v # ml)
        PROVE  \E pc, got : /\ PollTo(p, pc, got) /\ PollOK(pc, got)
                            /\ got = "DONE" \/ pc = "fetch" => Answers # {}
                            /\ got \in Verdicts /\ ~strayed' => got = ml
                            /\ pc = "final" => got \in decided'
    <3>1. PollOK("store", v) /\ v # "DONE"
      BY DEF PollOK
    <3>2. ~strayed' => v = ml
      BY <2>4, Zenon
    <3> QED BY <2>4, <3>1, <3>2
  <2>5. CASE (\E v \in Verdicts : PollFetch(p, v)) \/ PollFetchError(p)
    BY <2>4, <2>5 DEF PollFetch, PollFetchError
  <2>6. CASE PollStore(p)
    <3>1. /\ poll[p].got \in Verdicts /\ (~strayed => poll[p].got = ml)
          /\ poll[p].got \in decided' /\ strayed' = strayed
      BY <1>1, <2>6 DEF PollStore, PollInv
    <3>2. PollTo(p, "final", poll[p].got) /\ PollOK("final", poll[p].got)
      BY <2>6, <3>1 DEF PollStore, PollOK
    <3> QED BY <3>1, <3>2
  <2>7. CASE \/ PollCache(p) /\ poll[p].got # "DONE"
             \/ PollFinal(p) \/ PollFetchEmpty(p) \/ PollFails(p)
    <3>1. PollEnds(p)
      BY <2>7 DEF PollCache, PollFinal, PollFetchEmpty, PollFails
    <3>2. PollTo(p, "idle", None) /\ PollOK("idle", None)
      BY <3>1 DEF PollEnds, PollTo, NotPolling, PollOK
    <3> QED BY <3>2
  <2> QED BY <2>1, <2>2, <2>3, <2>5, <2>6, <2>7 DEF PollStep
<1>9. /\ poll' \in [Pollers -> Polls]
      /\ \A q \in Pollers : PollOK(poll'[q].pc, poll'[q].got)
      /\ \A q \in Pollers : PollInv(q)'
  BY <1>3, <1>5, <1>6, <1>8, PollerMoves
<1>10. TypeOK'
  <2>1. published' \in BOOLEAN /\ (published' => ml' \in Verdicts)
    <3>1. published' = published /\ ml' = ml
      BY <1>3
    <3>2. published \in BOOLEAN /\ (published => ml \in Verdicts)
      BY DEF IInv, TypeOK
    <3> QED BY <3>1, <3>2, Zenon
  <2>2. /\ stream' \in [Streams -> Connections]
        /\ \A s \in Streams :
             /\ stream'[s].inbox # None => stream'[s].pc = "listen"
             /\ stream'[s].told # None => stream'[s].pc = "ended"
    BY <1>3 DEF IInv, TypeOK
  <2>3. \A q \in Pollers :
          \/ poll'[q].pc \in {"idle", "ask"} /\ poll'[q].got = None
          \/ poll'[q].pc \in {"cache", "fetch"} /\ poll'[q].got \in {"PROCESSING", "DONE"}
          \/ poll'[q].pc \in {"store", "final"} /\ poll'[q].got \in Verdicts
    BY <1>9 DEF PollOK
  <2>4. /\ ml' \in Verdicts \cup {"PROCESSING"} /\ other' \in Verdicts \cup {None}
        /\ officer' \in [Officers -> OfficerRequests]
    BY <1>3 DEF IInv, TypeOK
  <2> QED BY <1>4, <1>5, <1>6, <1>7, <1>9, <2>1, <2>2, <2>3, <2>4 DEF TypeOK
<1>11. CacheFollows'
  BY <1>7 DEF CacheFollows
<1>12. \A s \in Streams : StreamInv(s)'
  BY <1>3, <1>6, StreamsStay
<1> QED BY <1>6, <1>9, <1>10, <1>11, <1>12 DEF IInv

\* An officer decides.
LEMMA OfficerKeeps ==
    ASSUME IInv, NEW o \in Officers, OfficerStep(o)
    PROVE  IInv'
<1>1. UNCHANGED <<ml, other, published, cache, poll, stream, faults>>
  BY DEF OfficerStep, OverrideLoad, OverrideStore
<1>2. /\ officer' \in [Officers -> OfficerRequests]
  <2>1. officer \in [Officers -> OfficerRequests] /\ status \in Verdicts \cup {"ML_PROCESSING"}
    BY DEF IInv, TypeOK
  <2>2. /\ [pc |-> "loaded", loaded |-> status] \in OfficerRequests
        /\ [pc |-> "done", loaded |-> None] \in OfficerRequests
    BY <2>1 DEF OfficerRequests
  <2> QED BY <2>1, <2>2 DEF OfficerStep, OverrideLoad, OverrideStore
<1>3. /\ decided \subseteq decided' /\ decided' \subseteq Verdicts
      /\ status' \in Verdicts \cup {"ML_PROCESSING"}
      /\ strayed' \in BOOLEAN /\ (strayed => strayed')
      /\ VerdictStored'
  <2>1. strayed \in BOOLEAN
    BY DEF IInv, TypeOK
  <2>2. CASE OverrideLoad(o)
    BY <1>1, <2>1, <2>2 DEF OverrideLoad, IInv, TypeOK, VerdictStored
  <2>3. ASSUME NEW v \in Verdicts, OverrideStore(o, v)
        PROVE  /\ decided \subseteq decided' /\ decided' \subseteq Verdicts
               /\ status' \in Verdicts \cup {"ML_PROCESSING"}
               /\ strayed' \in BOOLEAN /\ (strayed => strayed')
               /\ VerdictStored'
    <3>1. strayed' = (strayed \/ v # ml)
      BY <2>3 DEF OverrideStore
    <3>2. strayed' \in BOOLEAN /\ (strayed => strayed') /\ (~strayed' => v = ml)
      BY <2>1, <3>1, Zenon
    <3>3. \/ status' = status /\ decided' = decided
          \/ status' = v /\ decided' = decided \cup {v}
      BY <2>3 DEF OverrideStore
    <3> QED BY <1>1, <3>2, <3>3 DEF IInv, TypeOK, VerdictStored
  <2> QED BY <2>2, <2>3 DEF OfficerStep
<1>4. TypeOK'
  <2>1. published' \in BOOLEAN /\ (published' => ml' \in Verdicts)
    <3>1. published' = published /\ ml' = ml
      BY <1>1
    <3>2. published \in BOOLEAN /\ (published => ml \in Verdicts)
      BY DEF IInv, TypeOK
    <3> QED BY <3>1, <3>2, Zenon
  <2> QED BY <1>1, <1>2, <1>3, <2>1 DEF IInv, TypeOK
<1>5. CacheFollows'
  BY <1>1, <1>3 DEF IInv, CacheFollows
<1>6. \A p \in Pollers : PollInv(p)'
  BY <1>1, <1>3 DEF IInv, PollInv, Answers
<1>7. \A s \in Streams : StreamInv(s)'
  BY <1>1, <1>3, StreamsStay
<1> QED BY <1>3, <1>4, <1>5, <1>6, <1>7 DEF IInv

\* The key expires.
LEMMA ExpiryKeeps ==
    ASSUME IInv, CacheExpires
    PROVE  IInv'
<1>1. UNCHANGED <<ml, other, published, status, poll, officer, stream, decided, strayed, faults>>
  BY DEF CacheExpires
<1>2. cache' = None
  BY DEF CacheExpires
<1>3. TypeOK'
  BY <1>1, <1>2 DEF IInv, TypeOK
<1>4. (VerdictStored /\ CacheFollows)'
  BY <1>1, <1>2 DEF IInv, VerdictStored, CacheFollows
<1>5. (\A p \in Pollers : PollInv(p)') /\ (\A s \in Streams : StreamInv(s)')
  BY <1>1 DEF IInv, PollInv, StreamInv, Answers
<1> QED BY <1>3, <1>4, <1>5 DEF IInv

\* The connections.
LEMMA StreamKeeps ==
    ASSUME IInv, NEW s \in Streams, Connect(s) \/ StreamStep(s) \/ Disconnect(s)
    PROVE  IInv'
<1>1. /\ stream[s] \in Connections /\ StreamInv(s)
      /\ stream[s].inbox # None => stream[s].pc = "listen"
      /\ stream[s].told # None => stream[s].pc = "ended"
  BY DEF IInv, TypeOK
<1>2. CASE Connect(s) /\ status \in Verdicts
  <2> DEFINE v == [NoStream EXCEPT !.pc = "ended", !.told = status]
  <2>1. stream' = [stream EXCEPT ![s] = v] /\ UNCHANGED Others
    BY <1>2 DEF Connect
  <2>2. v \in Connections /\ v.pc = "ended" /\ v.told = status /\ v.inbox = None
    BY <1>2 DEF NoStream, Connections
  <2>3. status \in decided
    BY <1>2 DEF IInv, VerdictStored
  <2> HIDE DEF v
  <2> QED BY <2>1, <2>2, <2>3, ConnectionMoves
<1>3. CASE Connect(s) /\ status \notin Verdicts
  <2> DEFINE v == [NoStream EXCEPT !.pc = "subscribe"]
  <2>1. stream' = [stream EXCEPT ![s] = v] /\ UNCHANGED Others
    BY <1>3 DEF Connect
  <2>2. v \in Connections /\ v.told = None /\ v.inbox = None
    BY DEF NoStream, Connections
  <2> HIDE DEF v
  <2> QED BY <2>1, <2>2, ConnectionMoves
<1>4. CASE Subscribe(s) \/ Heartbeat(s)
  <2> PICK pc \in {"listen", "ended"} :
              /\ stream' = [stream EXCEPT ![s].pc = pc]
              /\ stream[s].inbox = None /\ stream[s].told = None
    BY <1>1, <1>4 DEF Subscribe, Heartbeat
  <2> DEFINE v == [stream[s] EXCEPT !.pc = pc]
  <2>1. stream' = [stream EXCEPT ![s] = v] /\ UNCHANGED Others
    BY <1>4 DEF Subscribe, Heartbeat
  <2>2. v \in Connections /\ v.told = None /\ v.inbox = None
    BY <1>1 DEF Connections
  <2> HIDE DEF v
  <2> QED BY <2>1, <2>2, ConnectionMoves
<1>5. CASE Deliver(s)
  <2> DEFINE v == [NoStream EXCEPT !.pc = "ended", !.told = stream[s].inbox]
  <2>1. stream' = [stream EXCEPT ![s] = v] /\ UNCHANGED Others
    BY <1>5 DEF Deliver
  <2>2. v \in Connections /\ v.pc = "ended" /\ v.told = stream[s].inbox /\ v.inbox = None
    BY <1>1, <1>5 DEF NoStream, Connections
  <2>3. published /\ stream[s].inbox = ml
    BY <1>1, <1>5 DEF Deliver, StreamInv
  <2> HIDE DEF v
  <2> QED BY <2>1, <2>2, <2>3, ConnectionMoves
<1>6. CASE Disconnect(s)
  <2>1. stream' = [stream EXCEPT ![s] = NoStream] /\ UNCHANGED Others
    BY <1>6 DEF Disconnect
  <2>2. NoStream \in Connections /\ NoStream.inbox = None /\ NoStream.told = None
    BY DEF NoStream, Connections
  <2> QED BY <2>1, <2>2, ConnectionMoves
<1> QED BY <1>2, <1>3, <1>4, <1>5, <1>6 DEF StreamStep

LEMMA NextKeeps == IInv /\ [Next]_vars => IInv'
<1> SUFFICES ASSUME IInv, [Next]_vars PROVE IInv'
  OBVIOUS
<1>1. CASE Next
  BY <1>1, FinishKeeps, PublishKeeps, PollKeeps, OfficerKeeps, ExpiryKeeps, StreamKeeps DEF Next
<1>2. CASE UNCHANGED vars
  <2>1. TypeOK' /\ (VerdictStored /\ CacheFollows)'
    BY <1>2 DEF IInv, vars, TypeOK, VerdictStored, CacheFollows
  <2>2. (\A p \in Pollers : PollInv(p)') /\ (\A s \in Streams : StreamInv(s)')
    BY <1>2 DEF IInv, vars, PollInv, StreamInv, Answers
  <2> QED BY <2>1, <2>2 DEF IInv
<1> QED BY <1>1, <1>2

-----------------------------------------------------------------------------
\* The inductive invariant: whatever pollers and officers overlap, repeat or
\* fail, and whatever error or other application's verdict the ML service
\* answers, a verdict that is cached or told was stored, or published for this
\* application; and as long as none strayed, it is the ML service's.
THEOREM StreamIInv == Spec => []IInv
<1>1. Init => IInv
  BY InitIInv
<1>2. IInv /\ [Next]_vars => IInv'
  BY NextKeeps
<1> QED BY <1>1, <1>2, PTL DEF Spec

\* GET /application/status tells no verdict before the database held it: the
\* cache never runs ahead of a commit.
THEOREM StreamToldVerdictWasStored == Spec => []ToldVerdictWasStored
<1>1. IInv => ToldVerdictWasStored
  BY DEF IInv, TypeOK, ToldVerdictWasStored, GetStatus, VerdictStored, CacheFollows
<1> QED BY <1>1, StreamIInv, PTL

\* Only a verdict that is not the ML service's own of this application (an
\* officer's, an error body's, another application's) parts what is told from
\* what is stored.
THEOREM StreamStreamsAgree == Spec => []StreamsAgree
<1>1. IInv => StreamsAgree
  <2> SUFFICES ASSUME IInv, ~strayed PROVE StreamsAgree
    BY DEF StreamsAgree
  <2>1. decided \subseteq {ml} /\ (status = "ML_PROCESSING" <=> decided = {})
    BY DEF IInv, TypeOK, VerdictStored
  <2>2. status \in {"ML_PROCESSING", ml}
    BY <2>1 DEF IInv, TypeOK, VerdictStored
  <2>3. GetStatus \in Verdicts => status = GetStatus
    BY <2>1, <2>2 DEF IInv, TypeOK, GetStatus, CacheFollows, VerdictStored
  <2>4. \A s \in Streams : stream[s].told # None => stream[s].told = ml
    BY <2>1 DEF IInv, StreamInv
  <2> QED BY <2>2, <2>3, <2>4 DEF StreamsAgree
<1> QED BY <1>1, StreamIInv, PTL

\* No poller, however late, takes a verdict back, and none replaces another
\* unless a verdict strayed.
THEOREM StreamVerdictStays == Spec => VerdictStays
<1>1. IInv /\ [Next]_vars =>
        [status # "ML_PROCESSING" =>
           status' # "ML_PROCESSING" /\ (~strayed' => status' = status)]_vars
  <2> SUFFICES ASSUME IInv, Next, status # "ML_PROCESSING"
               PROVE  status' # "ML_PROCESSING" /\ (~strayed' => status' = status)
    BY DEF vars
  <2>1. IInv' /\ status \in decided
    BY NextKeeps DEF IInv, TypeOK, VerdictStored
  <2>2. decided \subseteq decided'
    BY DEF Next, MLFinish, MLPublish, PollStep, PollBegin, PollAsk, PollCache, PollFetch,
           PollStore, PollFinal, PollError, PollAskError, PollFetchError, PollFetchEmpty,
           PollFails, OfficerStep, OverrideLoad, OverrideStore, CacheExpires, Connect,
           StreamStep, Subscribe, Deliver, Heartbeat, Disconnect, Others
  <2>3. status' # "ML_PROCESSING" /\ status' \in decided'
    BY <2>1, <2>2 DEF IInv, TypeOK, VerdictStored
  <2>4. ~strayed' => decided' \subseteq {ml'}
    BY <2>1 DEF IInv, VerdictStored
  <2> QED BY <2>1, <2>2, <2>3, <2>4
<1> QED BY <1>1, StreamIInv, PTL DEF Spec, VerdictStays
=============================================================================
