-------------------------- MODULE InterviewRoomProofs --------------------------
(***************************************************************************)
(* Proofs about InterviewRoom, for any number of sockets, any target and   *)
(* any number of messages and failures: what was heard is sent, the target *)
(* completes the interview, somebody watches the clock until then, and a   *)
(* session makes no more buffers than its failed end requests explain.     *)
(***************************************************************************)
EXTENDS InterviewRoom, TLAPS

USE BoundsAssumption

\* The records of the module, and what tells them apart.
LEMMA Values ==
    /\ Closed \in SocketStates /\ Closed.pc = "closed" /\ Closed.buf = 0
    /\ Nothing \in SessionBuffers /\ \A m \in Media : Nothing[m] = {}
    /\ NoEnd \in EndStates /\ NoEnd.pc = "idle" /\ NoEnd.unsent = Nothing
    /\ NoEnd.worker = "here"
BY DEF Closed, SocketStates, Nothing, SessionBuffers, Media, NoEnd, EndStates

LEMMA InitIInv == Init => IInv
<1> SUFFICES ASSUME Init PROVE IInv
  OBVIOUS
<1>1. buffers \in Seq(SessionBuffers) /\ Len(buffers) = 0
  BY DEF Init
<1>2. /\ ws \in [Sockets -> SocketStates] /\ \A s \in Sockets : ws[s] = Closed
      /\ end \in EndStates /\ end.pc = "idle"
  BY Values DEF Init
<1>3. TypeOK
  <2>1. seq \in [Media -> Nat] /\ seq["audio"] + seq["video"] <= MaxMessages
    BY DEF Init, Media
  <2>2. chatbot \in BOOLEAN /\ late \in BOOLEAN /\ complete \in BOOLEAN
    BY DEF Init
  <2>3. Len(buffers) <= MaxBuffers /\ registered \in 0..Len(buffers) /\ faults \in 0..MaxFaults
    BY <1>1 DEF Init, MaxBuffers
  <2> QED BY <1>1, <1>2, <2>1, <2>2, <2>3 DEF Init, TypeOK
<1>4. (\A s \in Sockets : SocketInv(s)) /\ WatchdogSleeps
  BY <1>2, Values DEF SocketInv, WatchdogSleeps, Sockets
<1>5. BuffersCounted /\ OneBuffer /\ EndInv /\ HeardIsSent
  BY <1>1, <1>2 DEF Init, BuffersCounted, OneBuffer, EndInv, HeardIsSent, FirstEnd, Media
<1>6. TargetInv
  BY DEF Init, TargetInv
<1> QED BY <1>3, <1>4, <1>5, <1>6 DEF IInv

-----------------------------------------------------------------------------
(***************************************************************************)
(* What a step leaves alone keeps its invariant.                           *)
(***************************************************************************)
\* The conversation stands still.
LEMMA RoomStays ==
    ASSUME IInv, UNCHANGED <<ws, questions, complete, timers>>,
           faults' = faults \/ faults' # 0, Len(buffers) <= Len(buffers'),
           Len(buffers) \in Nat, Len(buffers') \in Nat
    PROVE  TargetInv' /\ WatchdogSleeps' /\ \A s \in Sockets : SocketInv(s)'
<1>1. ASSUME NEW s \in Sockets PROVE SocketInv(s)'
  BY DEF IInv, SocketInv
<1>2. TargetInv'
  BY DEF IInv, TargetInv
<1>3. WatchdogSleeps'
  BY DEF IInv, WatchdogSleeps
<1> QED BY <1>1, <1>2, <1>3

\* The end request and the buffers stand still.
LEMMA EndStays ==
    ASSUME IInv, UNCHANGED <<session, buffers, registered, seq, end, delivered>>,
           faults' = faults \/ faults' = faults + 1
    PROVE  BuffersCounted' /\ OneBuffer' /\ EndInv' /\ HeardIsSent'
<1>0. faults \in Nat /\ Len(buffers) \in Nat /\ registered \in Nat
  BY DEF IInv, TypeOK
<1>1. FirstEnd' => FirstEnd
  BY <1>0 DEF FirstEnd
<1>2. BuffersCounted'
  BY <1>0 DEF IInv, BuffersCounted
<1>3. OneBuffer'
  BY <1>1 DEF IInv, OneBuffer
<1>4. EndInv'
  BY <1>1 DEF IInv, EndInv, Here
<1>5. HeardIsSent'
  BY <1>0 DEF IInv, HeardIsSent, Here
<1> QED BY <1>2, <1>3, <1>4, <1>5

\* A socket's handler takes state v.
LEMMA SocketMoves ==
    ASSUME IInv, NEW s \in Sockets, NEW v \in SocketStates, ws' = [ws EXCEPT ![s] = v],
           IF v.pc \in {"closed", "accept"} THEN v.buf = 0 ELSE v.buf \in 1..Len(buffers'),
           v.pc \in {"pipeline", "reply"} => s \in AudioSockets,
           Len(buffers) <= Len(buffers'), Len(buffers) \in Nat, Len(buffers') \in Nat,
           complete => complete',
           complete' \/ timers \subseteq timers',
           \/ complete' \/ timers' # {} \/ s \notin AudioSockets
           \/ v.pc \in {"closed", "accept"} \/ ws[s].pc \notin {"closed", "accept"},
           \/ faults' # 0 \/ complete' \/ v.pc = "reply" \/ ~(questions' >= TARGET_QUESTIONS)
           \/ faults' = faults /\ questions' = questions /\ ws[s].pc # "reply"
    PROVE  /\ ws' \in [Sockets -> SocketStates]
           /\ \A t \in Sockets : SocketInv(t)'
           /\ TargetInv' /\ WatchdogSleeps'
<1>1. ws \in [Sockets -> SocketStates]
  BY DEF IInv, TypeOK
<1>2. /\ ws' \in [Sockets -> SocketStates] /\ ws'[s] = v
      /\ \A t \in Sockets \ {s} : ws'[t] = ws[t]
  BY <1>1
<1>3. ASSUME NEW t \in Sockets PROVE SocketInv(t)'
  <2>1. CASE t = s
    BY <1>2, <2>1 DEF SocketInv
  <2>2. CASE t # s
    <3>1. SocketInv(t) /\ ws'[t] = ws[t]
      BY <1>2, <2>2 DEF IInv
    <3> QED BY <3>1 DEF SocketInv
  <2> QED BY <2>1, <2>2
<1>4. TargetInv'
  <2> SUFFICES ASSUME faults' = 0, questions' >= TARGET_QUESTIONS, ~complete'
               PROVE  \E t \in AudioSockets : ws'[t].pc = "reply"
    BY DEF TargetInv
  <2>1. CASE v.pc = "reply"
    BY <1>2, <2>1
  <2>2. CASE v.pc # "reply"
    <3>1. faults = 0 /\ questions' = questions /\ ws[s].pc # "reply"
      BY <2>2
    <3>2. PICK t \in AudioSockets : ws[t].pc = "reply"
      BY <3>1 DEF IInv, TargetInv
    <3>3. t \in Sockets \ {s}
      BY <3>1, <3>2 DEF Sockets
    <3> QED BY <1>2, <3>2, <3>3
  <2> QED BY <2>1, <2>2
<1>5. WatchdogSleeps'
  <2> SUFFICES ASSUME ~complete', timers' = {}, NEW t \in AudioSockets
               PROVE  ws'[t].pc \in {"closed", "accept"}
    BY DEF WatchdogSleeps
  <2>1. t \in Sockets /\ ws[t].pc \in {"closed", "accept"}
    BY DEF IInv, WatchdogSleeps, Sockets
  <2> QED BY <1>2, <2>1
<1> QED BY <1>2, <1>3, <1>4, <1>5

-----------------------------------------------------------------------------
(***************************************************************************)
(* The controller.                                                         *)
(***************************************************************************)
LEMMA CheckFacts ==
    ASSUME IInv, CheckAndComplete
    PROVE  /\ complete' \in BOOLEAN /\ (complete => complete')
           /\ timers' \subseteq AudioSockets /\ newest' \in AudioSockets \cup {None}
           /\ complete' \/ timers' = timers
           /\ questions >= TARGET_QUESTIONS => complete'
<1>1. complete \in BOOLEAN /\ timers \subseteq AudioSockets /\ newest \in AudioSockets \cup {None}
  BY DEF IInv, TypeOK
<1>2. CASE ~complete /\ (Exhausted(questions) \/ late)
  BY <1>1, <1>2 DEF CheckAndComplete, Complete
<1>3. CASE ~(~complete /\ (Exhausted(questions) \/ late))
  BY <1>1, <1>3 DEF CheckAndComplete, Exhausted
<1> QED BY <1>2, <1>3

LEMMA TimePassesKeeps ==
    ASSUME IInv, TimePasses
    PROVE  IInv'
<1>1. Len(buffers) \in Nat /\ UNCHANGED <<buffers, faults>>
  BY DEF IInv, TypeOK, TimePasses, media
<1>2. TypeOK'
  BY DEF IInv, TypeOK, TimePasses, media, backend
<1>3. BuffersCounted' /\ OneBuffer' /\ EndInv' /\ HeardIsSent'
  BY EndStays DEF TimePasses, media, backend
<1>4. TargetInv' /\ WatchdogSleeps' /\ \A s \in Sockets : SocketInv(s)'
  BY <1>1, RoomStays DEF TimePasses
<1> QED BY <1>2, <1>3, <1>4 DEF IInv

LEMMA WatchdogKeeps ==
    ASSUME IInv, NEW s \in AudioSockets, Watchdog(s)
    PROVE  IInv'
<1>1. timers' \subseteq AudioSockets /\ newest' \in AudioSockets \cup {None}
  BY DEF IInv, TypeOK, Watchdog
<1>2. TypeOK'
  BY <1>1 DEF IInv, TypeOK, Watchdog, media, backend
<1>3. BuffersCounted' /\ OneBuffer' /\ EndInv' /\ HeardIsSent'
  BY EndStays DEF Watchdog, media, backend
<1>4. TargetInv' /\ WatchdogSleeps'
  BY DEF Watchdog, TargetInv, WatchdogSleeps
<1>5. \A t \in Sockets : SocketInv(t)'
  BY DEF IInv, SocketInv, Watchdog, media
<1> QED BY <1>2, <1>3, <1>4, <1>5 DEF IInv

-----------------------------------------------------------------------------
(***************************************************************************)
(* The buffers.                                                            *)
(***************************************************************************)
\* get_or_create_buffer returns what is registered, or makes an empty one.
LEMMA BufferGot ==
    ASSUME IInv, GetOrCreateBuffer
    PROVE  /\ buffers' \in Seq(SessionBuffers) /\ Len(buffers) \in Nat /\ Len(buffers') \in Nat
           /\ Len(buffers') = Len(buffers) + (IF registered = 0 THEN 1 ELSE 0)
           /\ Got \in 1..Len(buffers') /\ registered' = Got
           /\ \A i \in 1..Len(buffers) : buffers'[i] = buffers[i]
           /\ registered = 0 => buffers'[Len(buffers) + 1] = Nothing
<1>1. buffers \in Seq(SessionBuffers) /\ registered \in 0..Len(buffers) /\ Len(buffers) \in Nat
  BY DEF IInv, TypeOK
<1>2. CASE registered = 0
  BY <1>1, <1>2, Values DEF GetOrCreateBuffer, Got
<1>3. CASE registered # 0
  BY <1>1, <1>3 DEF GetOrCreateBuffer, Got
<1> QED BY <1>2, <1>3

LEMMA GotKeeps ==
    ASSUME IInv, GetOrCreateBuffer, UNCHANGED <<session, seq, delivered, faults>>,
           end'.pc = "commit" <=> end.pc = "commit", FirstEnd' => FirstEnd
    PROVE  /\ buffers' \in Seq(SessionBuffers) /\ Len(buffers') <= MaxBuffers
           /\ registered' \in 0..Len(buffers')
           /\ BuffersCounted' /\ OneBuffer'
<1>1. /\ buffers' \in Seq(SessionBuffers) /\ Len(buffers) \in Nat /\ Len(buffers') \in Nat
      /\ Len(buffers') = Len(buffers) + (IF registered = 0 THEN 1 ELSE 0)
      /\ Got \in 1..Len(buffers') /\ registered' = Got
      /\ \A i \in 1..Len(buffers) : buffers'[i] = buffers[i]
      /\ registered = 0 => buffers'[Len(buffers) + 1] = Nothing
  BY BufferGot
<1>2. faults \in 0..MaxFaults /\ faults \in Nat
  BY DEF IInv, TypeOK
<1>3. BuffersCounted'
  <2>1. Len(buffers') <= faults + (IF end.pc = "commit" \/ session = "COMPLETED" THEN 2 ELSE 1)
    BY <1>1 DEF IInv, BuffersCounted
  <2>2. registered' # 0
    BY <1>1
  <2>3. CASE end.pc = "commit" \/ session = "COMPLETED"
    BY <1>1, <2>1, <2>2, <2>3 DEF BuffersCounted
  <2>4. CASE ~(end.pc = "commit" \/ session = "COMPLETED")
    BY <1>1, <2>1, <2>2, <2>4 DEF BuffersCounted
  <2> QED BY <2>3, <2>4
<1>4. Len(buffers') <= MaxBuffers
  BY <1>1, <1>2 DEF IInv, BuffersCounted, MaxBuffers
<1>5. OneBuffer'
  <2> SUFFICES ASSUME FirstEnd
               PROVE  /\ Len(buffers') = registered' /\ registered' = 1
                      /\ \A m \in Media : buffers'[1][m] = 0..(seq[m] - 1)
    BY DEF IInv, OneBuffer
  <2>1. CASE registered = 0
    <3>1. Len(buffers) = 0 /\ \A m \in Media : seq[m] = 0
      BY <2>1 DEF IInv, OneBuffer
    <3>2. \A m \in Media : buffers'[1][m] = {}
      BY <1>1, <2>1, <3>1, Values
    <3>3. registered' = 1 /\ Len(buffers') = 1
      BY <1>1, <2>1, <3>1 DEF Got
    <3>4. \A m \in Media : 0..(seq[m] - 1) = {}
      BY <3>1
    <3> QED BY <3>2, <3>3, <3>4
  <2>2. CASE registered # 0
    <3>1. /\ registered = 1 /\ Len(buffers) = 1
          /\ \A m \in Media : buffers[1][m] = 0..(seq[m] - 1)
      BY <2>2 DEF IInv, OneBuffer, TypeOK
    <3>2. buffers'[1] = buffers[1] /\ registered' = 1 /\ Len(buffers') = 1
      BY <1>1, <3>1 DEF Got
    <3> QED BY <3>1, <3>2
  <2> QED BY <2>1, <2>2
<1> QED BY <1>1, <1>3, <1>4, <1>5

-----------------------------------------------------------------------------
(***************************************************************************)
(* The sockets.                                                            *)
(***************************************************************************)
LEMMA SocketFacts ==
    ASSUME IInv, NEW s \in Sockets
    PROVE  /\ ws[s] \in SocketStates /\ SocketInv(s)
           /\ Len(buffers) \in Nat /\ registered \in 0..Len(buffers)
           /\ complete \in BOOLEAN /\ timers \subseteq AudioSockets
BY DEF IInv, TypeOK

\* Leaving the loop, and going on in it.
LEMMA LoopFacts ==
    ASSUME NEW s \in Sockets, NEW buf \in Nat, NEW done, Loop(s, buf, done)
    PROVE  \E v :
              /\ v \in SocketStates /\ ws' = [ws EXCEPT ![s] = v]
              /\ v = Closed \/ (v.pc = "receive" /\ v.buf = buf)
<1>1. CASE done
  BY <1>1, Values DEF Loop
<1>2. CASE ~done
  <2> DEFINE v == [pc |-> "receive", buf |-> buf]
  <2>1. v \in SocketStates /\ v.pc = "receive" /\ v.buf = buf
    BY DEF SocketStates
  <2>2. ws' = [ws EXCEPT ![s] = v]
    BY <1>2 DEF Loop
  <2> HIDE DEF v
  <2> QED BY <1>2, <2>1, <2>2
<1> QED BY <1>1, <1>2

LEMMA ConnectKeeps ==
    ASSUME IInv, NEW s \in Sockets, Connect(s)
    PROVE  IInv'
<1>1. ws[s] \in SocketStates /\ ws[s].pc = "closed" /\ ws[s].buf = 0 /\ Len(buffers) \in Nat
  BY SocketFacts DEF Connect, SocketInv
<1> DEFINE v == [ws[s] EXCEPT !.pc = "accept"]
<1>2. v \in SocketStates /\ v.pc = "accept" /\ v.buf = 0
  BY <1>1 DEF SocketStates
<1>3. ws' = [ws EXCEPT ![s] = v]
  BY DEF Connect
<1> HIDE DEF v
<1>4. UNCHANGED <<control, media, backend, faults>>
  BY DEF Connect
<1>5. ws' \in [Sockets -> SocketStates] /\ (\A t \in Sockets : SocketInv(t)') /\ TargetInv' /\ WatchdogSleeps'
  <2>1. /\ buffers' = buffers /\ complete' = complete /\ timers' = timers
        /\ questions' = questions /\ faults' = faults
    BY <1>4 DEF control, media
  <2>2. IF v.pc \in {"closed", "accept"} THEN v.buf = 0 ELSE v.buf \in 1..Len(buffers')
    BY <1>2
  <2>3. /\ v.pc \notin {"pipeline", "reply"} /\ v.pc \in {"closed", "accept"}
        /\ ws[s].pc # "reply" /\ Len(buffers) <= Len(buffers')
    BY <1>1, <1>2, <2>1
  <2> QED BY <1>1, <1>2, <1>3, <2>1, <2>2, <2>3, SocketMoves
<1>6. BuffersCounted' /\ OneBuffer' /\ EndInv' /\ HeardIsSent'
  BY <1>4, EndStays DEF media, backend
<1>7. TypeOK'
  BY <1>4, <1>5 DEF IInv, TypeOK, control, media, backend
<1> QED BY <1>5, <1>6, <1>7 DEF IInv

LEMMA AcceptedKeeps ==
    ASSUME IInv, NEW s \in Sockets, Accepted(s)
    PROVE  IInv'
<1>1. /\ ws[s].pc = "accept" /\ Len(buffers) \in Nat
      /\ complete \in BOOLEAN /\ timers \subseteq AudioSockets
  BY SocketFacts DEF Accepted
<1>2. GetOrCreateBuffer /\ Loop(s, Got, complete) /\ UNCHANGED <<questions, late, complete, seq, faults>>
      /\ UNCHANGED <<session, chatbot, end, delivered>>
  BY DEF Accepted, backend
<1>3. /\ buffers' \in Seq(SessionBuffers) /\ Len(buffers') \in Nat
      /\ Len(buffers') = Len(buffers) + (IF registered = 0 THEN 1 ELSE 0)
      /\ Got \in 1..Len(buffers') /\ registered' = Got
  BY <1>2, BufferGot
<1>4. /\ Len(buffers') <= MaxBuffers /\ registered' \in 0..Len(buffers')
      /\ BuffersCounted' /\ OneBuffer'
  BY <1>2, GotKeeps DEF FirstEnd
<1>5. /\ timers' \subseteq AudioSockets /\ newest' \in AudioSockets \cup {None}
      /\ timers \subseteq timers' /\ (s \in AudioSockets => timers' # {})
  BY <1>1 DEF IInv, TypeOK, Accepted
<1>6. PICK v : /\ v \in SocketStates /\ ws' = [ws EXCEPT ![s] = v]
               /\ v = Closed \/ (v.pc = "receive" /\ v.buf = Got)
  BY <1>2, <1>3, LoopFacts
<1>7. ws' \in [Sockets -> SocketStates]
  <2>1. ws \in [Sockets -> SocketStates]
    BY DEF IInv, TypeOK
  <2> QED BY <1>6, <2>1
<1>8. (\A t \in Sockets : SocketInv(t)') /\ TargetInv' /\ WatchdogSleeps'
  <2>1. v.pc \in {"closed", "receive"} /\ (v.pc = "closed" => v.buf = 0) /\ (v.pc = "receive" => v.buf = Got)
    BY <1>6, Values
  <2>2. IF v.pc \in {"closed", "accept"} THEN v.buf = 0 ELSE v.buf \in 1..Len(buffers')
    BY <1>3, <2>1
  <2>3. Len(buffers) <= Len(buffers')
    BY <1>1, <1>3
  <2>4. complete' = complete /\ questions' = questions /\ faults' = faults
    BY <1>2
  <2> QED BY <1>1, <1>3, <1>5, <1>6, <2>1, <2>2, <2>3, <2>4, SocketMoves
<1>9. EndInv'
  <2>1. FirstEnd' <=> FirstEnd
    BY <1>2 DEF FirstEnd
  <2>2. registered = 1 => registered' = 1
    BY <1>3 DEF Got
  <2> QED BY <1>2, <2>1, <2>2 DEF IInv, EndInv, Here
<1>10. HeardIsSent'
  BY <1>2 DEF IInv, HeardIsSent, Here
<1>11. TypeOK'
  BY <1>2, <1>3, <1>4, <1>5, <1>7 DEF IInv, TypeOK
<1> QED BY <1>4, <1>8, <1>9, <1>10, <1>11 DEF IInv

\* A handler that listens is at the one buffer there is, as long as nothing
\* has been released.
LEMMA AtTheBuffer ==
    ASSUME IInv, NEW s \in Sockets, ws[s].pc \notin {"closed", "accept"}
    PROVE  /\ ws[s].buf \in 1..Len(buffers)
           /\ FirstEnd => ws[s].buf = 1 /\ registered = 1
<1>1. ws[s].buf \in 1..Len(buffers) /\ Len(buffers) \in Nat
  BY SocketFacts DEF SocketInv
<1>2. ASSUME FirstEnd PROVE ws[s].buf = 1 /\ registered = 1
  <2>1. Len(buffers) = registered /\ registered <= 1
    BY <1>2 DEF IInv, OneBuffer
  <2> QED BY <1>1, <2>1
<1> QED BY <1>1, <1>2

LEMMA ReceiveKeeps ==
    ASSUME IInv, NEW s \in Sockets, Receive(s)
    PROVE  IInv'
<1> DEFINE m == Medium(s)
           b == ws[s].buf
<1>1. m \in Media /\ (m = "audio" => s \in AudioSockets)
  BY DEF Medium, Media
<1>2. /\ ws[s] \in SocketStates /\ ws[s].pc = "receive" /\ b \in 1..Len(buffers)
      /\ FirstEnd => b = 1 /\ registered = 1
  BY SocketFacts, AtTheBuffer DEF Receive
<1>3. /\ seq["audio"] + seq["video"] < MaxMessages
      /\ buffers' = [buffers EXCEPT ![b][m] = @ \cup {seq[m]}]
      /\ seq' = [seq EXCEPT ![m] = @ + 1]
      /\ Loop(s, b, complete) \/ (m = "audio" /\ ws' = [ws EXCEPT ![s].pc = "pipeline"])
      /\ UNCHANGED <<control, registered, backend, faults>>
  BY DEF Receive
<1>4. /\ seq \in [Media -> Nat] /\ seq["audio"] \in Nat /\ seq["video"] \in Nat
      /\ buffers \in Seq(SessionBuffers) /\ Len(buffers) \in Nat
  BY DEF IInv, TypeOK, Media
<1> HIDE DEF m, b
<1>5. /\ seq' \in [Media -> Nat] /\ seq'["audio"] + seq'["video"] <= MaxMessages
      /\ seq'[m] = seq[m] + 1 /\ \A n \in Media \ {m} : seq'[n] = seq[n]
  <2>1. seq' \in [Media -> Nat] /\ seq'[m] = seq[m] + 1 /\ \A n \in Media \ {m} : seq'[n] = seq[n]
    BY <1>1, <1>3, <1>4
  <2>2. \/ seq'["audio"] = seq["audio"] + 1 /\ seq'["video"] = seq["video"]
        \/ seq'["audio"] = seq["audio"] /\ seq'["video"] = seq["video"] + 1
    BY <1>1, <2>1 DEF Media
  <2> QED BY <1>3, <1>4, <2>1, <2>2
<1> DEFINE nb == [buffers[b] EXCEPT ![m] = @ \cup {seq[m]}]
<1>6. /\ nb \in SessionBuffers /\ nb[m] = buffers[b][m] \cup {seq[m]}
      /\ \A n \in Media \ {m} : nb[n] = buffers[b][n]
  <2>1. buffers[b] \in [Media -> SUBSET Nat]
    BY <1>2, <1>4 DEF SessionBuffers
  <2>2. buffers[b][m] \in SUBSET Nat /\ seq[m] \in Nat
    BY <1>1, <1>4, <2>1
  <2> QED BY <1>1, <2>1, <2>2 DEF SessionBuffers
<1>7. buffers' = [buffers EXCEPT ![b] = nb]
  BY <1>3
<1> HIDE DEF nb
<1>8. /\ buffers' \in Seq(SessionBuffers) /\ Len(buffers') = Len(buffers) /\ buffers'[b] = nb
      /\ \A i \in 1..Len(buffers) : i # b => buffers'[i] = buffers[i]
  BY <1>2, <1>4, <1>6, <1>7
<1>9. PICK v : /\ v \in SocketStates /\ ws' = [ws EXCEPT ![s] = v]
               /\ \/ v = Closed
                  \/ v.pc = "receive" /\ v.buf = b
                  \/ v.pc = "pipeline" /\ v.buf = b /\ s \in AudioSockets
  <2>1. CASE Loop(s, b, complete)
    <3>1. b \in Nat
      BY <1>2, <1>4
    <3>2. PICK v : /\ v \in SocketStates /\ ws' = [ws EXCEPT ![s] = v]
                   /\ v = Closed \/ (v.pc = "receive" /\ v.buf = b)
      BY ONLY s \in Sockets, <3>1, <2>1, LoopFacts
    <3> QED BY ONLY <3>2
  <2>2. CASE m = "audio" /\ ws' = [ws EXCEPT ![s].pc = "pipeline"]
    <3> DEFINE v == [ws[s] EXCEPT !.pc = "pipeline"]
    <3>1. v \in SocketStates /\ v.pc = "pipeline" /\ v.buf = b
      BY <1>2 DEF SocketStates, b
    <3>2. ws' = [ws EXCEPT ![s] = v]
      BY <2>2
    <3> HIDE DEF v
    <3> QED BY <1>1, <2>2, <3>1, <3>2
  <2> QED BY <1>3, <2>1, <2>2
<1>10. ws' \in [Sockets -> SocketStates] /\ (\A t \in Sockets : SocketInv(t)') /\ TargetInv' /\ WatchdogSleeps'
  <2>1. /\ IF v.pc \in {"closed", "accept"} THEN v.buf = 0 ELSE v.buf \in 1..Len(buffers')
        /\ v.pc \in {"pipeline", "reply"} => s \in AudioSockets
    BY <1>2, <1>8, <1>9, Values
  <2>2. complete' = complete /\ timers' = timers /\ questions' = questions /\ faults' = faults
    BY <1>3 DEF control
  <2>3. Len(buffers) <= Len(buffers') /\ Len(buffers') \in Nat
    BY <1>4, <1>8
  <2> QED BY <1>2, <1>4, <1>9, <2>1, <2>2, <2>3, SocketMoves
<1>11. UNCHANGED <<session, chatbot, end, delivered, registered, faults, questions, late, complete, timers, newest>>
  BY <1>3 DEF control, backend
<1>12. FirstEnd' <=> FirstEnd
  BY <1>11 DEF FirstEnd
<1>13. OneBuffer'
  <2> SUFFICES ASSUME FirstEnd
               PROVE  /\ delivered' = "no" /\ Len(buffers') = registered' /\ registered' = 1
                      /\ \A n \in Media : buffers'[1][n] = 0..(seq'[n] - 1)
    BY <1>12 DEF OneBuffer
  <2>1. /\ b = 1 /\ registered = 1 /\ delivered = "no" /\ Len(buffers) = registered
        /\ \A n \in Media : buffers[1][n] = 0..(seq[n] - 1)
    BY <1>2 DEF IInv, OneBuffer
  <2>2. ASSUME NEW n \in Media PROVE buffers'[1][n] = 0..(seq'[n] - 1)
    <3>1. CASE n = m
      <4>1. buffers'[1][n] = 0..(seq[m] - 1) \cup {seq[m]}
        BY <1>1, <1>6, <1>8, <2>1, <3>1
      <4>2. seq[m] \in Nat /\ seq'[n] = seq[m] + 1
        BY <1>1, <1>4, <1>5, <3>1
      <4> QED BY <4>1, <4>2
    <3>2. CASE n # m
      BY <1>5, <1>6, <1>8, <2>1, <3>2
    <3> QED BY <3>1, <3>2
  <2> QED BY <1>8, <1>11, <2>1, <2>2
<1>14. EndInv'
  <2>1. \A n \in Media : seq[n] \in Nat /\ seq'[n] \in {seq[n], seq[n] + 1}
    BY <1>4, <1>5
  <2>2. \A n \in Media : 0..(seq[n] - 1) \subseteq 0..(seq'[n] - 1)
    BY <2>1
  <2> QED BY <1>11, <1>12, <2>2 DEF IInv, EndInv, Here
<1>15. BuffersCounted' /\ HeardIsSent'
  BY <1>8, <1>11 DEF IInv, BuffersCounted, HeardIsSent, Here
<1>16. TypeOK'
  BY <1>5, <1>8, <1>10, <1>11 DEF IInv, TypeOK
<1> QED BY <1>10, <1>13, <1>14, <1>15, <1>16 DEF IInv

\* The loop ends: nothing else in the room moves.
LEMMA CloseKeeps ==
    ASSUME IInv, NEW s \in Sockets, ws[s].pc = "receive", ws' = [ws EXCEPT ![s] = Closed],
           UNCHANGED <<control, media, backend, faults>>
    PROVE  IInv'
<1>1. Len(buffers) \in Nat /\ buffers' = buffers
  BY SocketFacts DEF media
<1>2. complete' = complete /\ timers' = timers /\ questions' = questions /\ faults' = faults
  BY DEF control
<1>3. ws' \in [Sockets -> SocketStates] /\ (\A t \in Sockets : SocketInv(t)') /\ TargetInv' /\ WatchdogSleeps'
  <2>1. PICK v : v = Closed
    OBVIOUS
  <2>2. /\ v \in SocketStates /\ v.pc = "closed" /\ v.buf = 0 /\ ws' = [ws EXCEPT ![s] = v]
        /\ Len(buffers) <= Len(buffers')
    BY <1>1, <2>1, Values
  <2> QED BY <1>1, <1>2, <2>2, SocketMoves
<1>4. BuffersCounted' /\ OneBuffer' /\ EndInv' /\ HeardIsSent'
  BY EndStays DEF media, backend
<1>5. TypeOK'
  BY <1>3 DEF IInv, TypeOK, control, media, backend
<1> QED BY <1>3, <1>4, <1>5 DEF IInv

LEMMA LeaveKeeps ==
    ASSUME IInv, NEW s \in Sockets, ReceiveTimeout(s) \/ Disconnect(s)
    PROVE  IInv'
<1>1. ws[s].pc = "receive" /\ ws' = [ws EXCEPT ![s] = Closed]
  BY DEF ReceiveTimeout, Disconnect, Loop
<1>2. UNCHANGED <<control, media, backend, faults>>
  BY DEF ReceiveTimeout, Disconnect, Leave, control
<1> QED BY <1>1, <1>2, CloseKeeps

LEMMA ReplyFailsKeeps ==
    ASSUME IInv, NEW s \in Sockets, ReplyFails(s)
    PROVE  IInv'
<1>1. /\ Len(buffers) \in Nat /\ buffers' = buffers
      /\ faults \in 0..MaxFaults /\ faults' = faults + 1 /\ faults' \in 0..MaxFaults
      /\ UNCHANGED <<control, media, backend>> /\ ws' = [ws EXCEPT ![s] = Closed]
  BY DEF IInv, TypeOK, ReplyFails, Fault, media
<1>2. complete' = complete /\ timers' = timers /\ questions' = questions /\ faults' # 0
  BY <1>1 DEF control
<1>3. ws' \in [Sockets -> SocketStates] /\ (\A t \in Sockets : SocketInv(t)') /\ TargetInv' /\ WatchdogSleeps'
  <2>1. PICK v : v = Closed
    OBVIOUS
  <2>2. /\ v \in SocketStates /\ v.pc = "closed" /\ v.buf = 0 /\ ws' = [ws EXCEPT ![s] = v]
        /\ Len(buffers) <= Len(buffers')
    BY <1>1, <2>1, Values
  <2> QED BY <1>1, <1>2, <2>2, SocketMoves
<1>4. BuffersCounted' /\ OneBuffer' /\ EndInv' /\ HeardIsSent'
  BY <1>1, EndStays DEF media, backend
<1>5. TypeOK'
  BY <1>1, <1>3 DEF IInv, TypeOK, control, media, backend
<1> QED BY <1>3, <1>4, <1>5 DEF IInv

LEMMA ExchangeKeeps ==
    ASSUME IInv, NEW s \in Sockets, Exchange(s)
    PROVE  IInv'
<1>1. /\ ws[s] \in SocketStates /\ ws[s].pc = "pipeline" /\ s \in AudioSockets
      /\ ws[s].buf \in 1..Len(buffers) /\ Len(buffers) \in Nat /\ questions \in Nat
  BY SocketFacts, AtTheBuffer DEF Exchange, SocketInv, IInv, TypeOK
<1>2. UNCHANGED <<late, complete, timers, newest, media, backend, faults>>
  BY DEF Exchange
<1>3. PICK v : /\ v \in SocketStates /\ ws' = [ws EXCEPT ![s] = v]
               /\ \/ v = Closed /\ questions' = questions
                  \/ v.pc = "receive" /\ v.buf = ws[s].buf /\ questions' = questions
                  \/ v.pc = "reply" /\ v.buf = ws[s].buf /\ questions' = questions + 1
  <2>1. CASE questions' = questions + 1 /\ ws' = [ws EXCEPT ![s].pc = "reply"]
    <3> DEFINE v == [ws[s] EXCEPT !.pc = "reply"]
    <3>1. v \in SocketStates /\ v.pc = "reply" /\ v.buf = ws[s].buf
      BY <1>1 DEF SocketStates
    <3>2. ws' = [ws EXCEPT ![s] = v]
      BY <2>1
    <3> HIDE DEF v
    <3> QED BY <2>1, <3>1, <3>2
  <2>2. CASE Loop(s, ws[s].buf, complete) /\ UNCHANGED questions
    <3>1. ws[s].buf \in Nat
      BY <1>1
    <3> QED BY <2>2, <3>1, LoopFacts
  <2> QED BY <2>1, <2>2 DEF Exchange
<1>4. questions' \in Nat
  BY <1>1, <1>3
<1>5. ws' \in [Sockets -> SocketStates] /\ (\A t \in Sockets : SocketInv(t)') /\ TargetInv' /\ WatchdogSleeps'
  <2>1. /\ buffers' = buffers /\ complete' = complete /\ timers' = timers /\ faults' = faults
        /\ Len(buffers) <= Len(buffers')
    BY <1>1, <1>2 DEF media
  <2>2. /\ IF v.pc \in {"closed", "accept"} THEN v.buf = 0 ELSE v.buf \in 1..Len(buffers')
        /\ v.pc = "reply" \/ questions' = questions
    BY <1>1, <1>3, <2>1, Values
  <2> QED BY <1>1, <1>3, <2>1, <2>2, SocketMoves
<1>6. BuffersCounted' /\ OneBuffer' /\ EndInv' /\ HeardIsSent'
  BY <1>2, EndStays DEF media, backend
<1>7. TypeOK'
  BY <1>2, <1>4, <1>5 DEF IInv, TypeOK, media, backend
<1> QED BY <1>5, <1>6, <1>7 DEF IInv

LEMMA ReplyKeeps ==
    ASSUME IInv, NEW s \in Sockets, Reply(s)
    PROVE  IInv'
<1>1. /\ ws[s] \in SocketStates /\ ws[s].pc = "reply" /\ ws[s].buf \in 1..Len(buffers)
      /\ Len(buffers) \in Nat /\ questions \in Nat
  BY SocketFacts, AtTheBuffer DEF Reply, IInv, TypeOK
<1>2. /\ complete' \in BOOLEAN /\ (complete => complete')
      /\ timers' \subseteq AudioSockets /\ newest' \in AudioSockets \cup {None}
      /\ complete' \/ timers' = timers
      /\ questions >= TARGET_QUESTIONS => complete'
  BY CheckFacts DEF Reply
<1>3. UNCHANGED <<questions, late, media, backend, faults>>
  BY DEF Reply
<1>4. PICK v : /\ v \in SocketStates /\ ws' = [ws EXCEPT ![s] = v]
               /\ v = Closed \/ (v.pc = "receive" /\ v.buf = ws[s].buf)
  <2>1. ws[s].buf \in Nat /\ Loop(s, ws[s].buf, complete')
    BY <1>1 DEF Reply
  <2> QED BY <2>1, LoopFacts
<1>5. /\ buffers' = buffers /\ faults' = faults /\ questions' = questions
      /\ Len(buffers) <= Len(buffers')
  BY <1>1, <1>3 DEF media
<1>6. ws' \in [Sockets -> SocketStates] /\ (\A t \in Sockets : SocketInv(t)') /\ WatchdogSleeps' /\ TargetInv'
  <2>1. IF v.pc \in {"closed", "accept"} THEN v.buf = 0 ELSE v.buf \in 1..Len(buffers')
    BY <1>1, <1>4, <1>5, Values
  <2>2. v.pc \notin {"pipeline", "reply"} /\ ws[s].pc \notin {"closed", "accept"}
    BY <1>1, <1>4, Values
  <2> QED BY <1>1, <1>2, <1>4, <1>5, <2>1, <2>2, SocketMoves
<1>7. BuffersCounted' /\ OneBuffer' /\ EndInv' /\ HeardIsSent'
  BY <1>3, EndStays DEF media, backend
<1>8. TypeOK'
  BY <1>2, <1>3, <1>6 DEF IInv, TypeOK, media, backend
<1> QED BY <1>6, <1>7, <1>8 DEF IInv

-----------------------------------------------------------------------------
(***************************************************************************)
(* The end request.                                                        *)
(***************************************************************************)
LEMMA EndFacts ==
    ASSUME IInv
    PROVE  /\ end \in EndStates /\ seq \in [Media -> Nat] /\ faults \in 0..MaxFaults /\ faults \in Nat
           /\ buffers \in Seq(SessionBuffers) /\ Len(buffers) \in Nat /\ registered \in 0..Len(buffers)
           /\ session \in {"ACTIVE", "COMPLETED"} /\ delivered \in {"no", "all", "part"}
BY DEF IInv, TypeOK

LEMMA EndBeginKeeps ==
    ASSUME IInv, NEW worker \in {"here", "other"}, EndBegin(worker)
    PROVE  IInv'
<1> DEFINE u == [m \in Media |-> 0..seq[m] - 1]
           e == [pc |-> "buffer", worker |-> worker, buf |-> 0, unsent |-> u]
<1>1. /\ end.pc = "idle" /\ session = "ACTIVE" /\ end' = e
      /\ UNCHANGED <<Room, media, session, chatbot, delivered, faults>>
  BY DEF EndBegin
<1>2. u \in SessionBuffers /\ \A m \in Media : u[m] = 0..(seq[m] - 1)
  BY EndFacts DEF SessionBuffers
<1> HIDE DEF u
<1>3. e \in EndStates /\ e.pc = "buffer" /\ e.unsent = u
  BY <1>2, Values DEF EndStates
<1> HIDE DEF e
<1>4. TargetInv' /\ WatchdogSleeps' /\ \A s \in Sockets : SocketInv(s)'
  BY <1>1, EndFacts, RoomStays DEF Room, control, media
<1>5. BuffersCounted' /\ OneBuffer' /\ HeardIsSent'
  BY <1>1, <1>3 DEF IInv, media, FirstEnd, BuffersCounted, OneBuffer, HeardIsSent
<1>6. EndInv'
  BY <1>1, <1>2, <1>3 DEF media, EndInv
<1>7. TypeOK'
  BY <1>1, <1>3 DEF IInv, TypeOK, Room, control, media
<1> QED BY <1>4, <1>5, <1>6, <1>7 DEF IInv

LEMMA EndBufferKeeps ==
    ASSUME IInv, EndBuffer, Here
    PROVE  IInv'
<1>1. /\ end.pc = "buffer" /\ GetOrCreateBuffer /\ end' = [end EXCEPT !.pc = "audio", !.buf = Got]
      /\ UNCHANGED <<Room, seq, session, chatbot, delivered, faults>>
  BY DEF EndBuffer
<1>2. /\ buffers' \in Seq(SessionBuffers) /\ Len(buffers) \in Nat /\ Len(buffers') \in Nat
      /\ Len(buffers) <= Len(buffers') /\ Got \in 1..Len(buffers') /\ Got \in Nat /\ registered' = Got
  BY <1>1, BufferGot
<1>3. /\ end' \in EndStates /\ end'.pc = "audio" /\ end'.buf = Got /\ end'.unsent = end.unsent
      /\ end'.worker = end.worker /\ (Here <=> Here')
  BY <1>1, <1>2, EndFacts DEF EndStates, Here
<1>4. FirstEnd' <=> FirstEnd
  BY <1>1, <1>3 DEF FirstEnd
<1>5. Len(buffers') <= MaxBuffers /\ registered' \in 0..Len(buffers') /\ BuffersCounted' /\ OneBuffer'
  BY <1>1, <1>3, <1>4, GotKeeps
<1>6. TargetInv' /\ WatchdogSleeps' /\ \A s \in Sockets : SocketInv(s)'
  BY <1>1, <1>2, RoomStays DEF Room, control
<1>7. HeardIsSent'
  BY <1>1, <1>3 DEF IInv, HeardIsSent
<1>8. EndInv'
  <2>1. session' = "ACTIVE"
    BY <1>1 DEF IInv, EndInv
  <2>2. FirstEnd => Got = 1
    <3>1. FirstEnd => Len(buffers) = registered /\ registered <= 1
      BY DEF IInv, OneBuffer
    <3> QED BY <3>1, EndFacts DEF Got
  <2>3. FirstEnd => \A m \in Media : end.unsent[m] \subseteq 0..(seq[m] - 1)
    BY <1>1 DEF IInv, EndInv
  <2> QED BY <1>1, <1>2, <1>3, <1>4, <2>1, <2>2, <2>3 DEF EndInv
<1>9. TypeOK'
  BY <1>1, <1>2, <1>3, <1>5 DEF IInv, TypeOK, Room, control
<1> QED BY <1>5, <1>6, <1>7, <1>8, <1>9 DEF IInv

\* The other worker has nothing to send.
LEMMA EndElsewhereKeeps ==
    ASSUME IInv, EndBuffer, ~Here
    PROVE  IInv'
<1> DEFINE e == [end EXCEPT !.pc = "meta"]
<1>1. /\ end.pc = "buffer" /\ end' = e /\ UNCHANGED <<registered, buffers>>
      /\ UNCHANGED <<Room, seq, session, chatbot, delivered, faults>>
  BY DEF EndBuffer, EndMove
<1>2. /\ e \in EndStates /\ e.pc = "meta" /\ e.unsent = end.unsent /\ e.worker = end.worker
  BY EndFacts DEF EndStates
<1> HIDE DEF e
<1>3. (FirstEnd' <=> FirstEnd) /\ ~Here'
  BY <1>1, <1>2 DEF FirstEnd, Here
<1>4. TargetInv' /\ WatchdogSleeps' /\ \A s \in Sockets : SocketInv(s)'
  BY <1>1, EndFacts, RoomStays DEF Room, control
<1>5. BuffersCounted' /\ OneBuffer' /\ HeardIsSent' /\ EndInv'
  BY <1>1, <1>2, <1>3 DEF IInv, BuffersCounted, OneBuffer, HeardIsSent, EndInv
<1>6. TypeOK'
  BY <1>1, <1>2 DEF IInv, TypeOK, Room, control
<1> QED BY <1>4, <1>5, <1>6 DEF IInv

LEMMA EndSendKeeps ==
    ASSUME IInv, NEW m, NEW next, <<m, next>> \in {<<"audio", "video">>, <<"video", "meta">>},
           EndSend(m, next)
    PROVE  IInv'
<1>1. /\ m \in Media /\ end.pc = m /\ ((m = "audio" /\ next = "video") \/ (m = "video" /\ next = "meta"))
      /\ UNCHANGED <<Room, media, session, chatbot, delivered, faults>>
  BY DEF EndSend, Media
<1> DEFINE b == buffers[end.buf][m]
           u == [end.unsent EXCEPT ![m] = @ \ b]
           e == [end EXCEPT !.unsent = u, !.pc = next]
<1>2. end' = e
  BY EndFacts DEF EndSend, EndStates
<1>3. /\ u \in SessionBuffers /\ u[m] = end.unsent[m] \ b
      /\ \A n \in Media : u[n] \subseteq end.unsent[n]
      /\ \A n \in Media : n # m => u[n] = end.unsent[n]
  BY <1>1, EndFacts DEF EndStates, SessionBuffers
<1>4. FirstEnd => u[m] = {}
  <2> SUFFICES ASSUME FirstEnd PROVE u[m] = {}
    OBVIOUS
  <2>1. end.buf = 1 /\ registered = 1 /\ end.unsent[m] \subseteq 0..(seq[m] - 1)
    BY <1>1 DEF IInv, EndInv, Media
  <2>2. buffers[1][m] = 0..(seq[m] - 1)
    BY <1>1, <2>1 DEF IInv, OneBuffer
  <2> QED BY <1>3, <2>1, <2>2
<1> HIDE DEF u
<1>5. /\ e \in EndStates /\ e.pc = next /\ e.unsent = u /\ e.buf = end.buf
      /\ e.worker = end.worker
  BY <1>1, <1>3, EndFacts DEF EndStates
<1> HIDE DEF e
<1>6. (FirstEnd' <=> FirstEnd) /\ Here /\ Here'
  BY <1>1, <1>2, <1>5 DEF FirstEnd, Here, IInv, EndInv
<1>7. TargetInv' /\ WatchdogSleeps' /\ \A s \in Sockets : SocketInv(s)'
  BY <1>1, EndFacts, RoomStays DEF Room, control, media
<1>8. BuffersCounted' /\ OneBuffer' /\ HeardIsSent'
  BY <1>1, <1>2, <1>5, <1>6 DEF IInv, media, BuffersCounted, OneBuffer, HeardIsSent
<1>9. EndInv'
  <2>1. session' = "ACTIVE" /\ seq' = seq /\ registered' = registered
    BY <1>1 DEF IInv, EndInv, media
  <2>2. ASSUME FirstEnd
        PROVE  /\ \A n \in Media : u[n] \subseteq 0..(seq[n] - 1)
               /\ end.buf = 1 /\ registered = 1
               /\ u["audio"] = {} /\ (next = "meta" => u["video"] = {})
    <3>1. /\ \A n \in Media : end.unsent[n] \subseteq 0..(seq[n] - 1)
          /\ end.buf = 1 /\ registered = 1
          /\ m = "video" => end.unsent["audio"] = {}
      BY <1>1, <1>6, <2>2 DEF IInv, EndInv
    <3>2. \A n \in Media : u[n] \subseteq 0..(seq[n] - 1)
      BY <1>3, <3>1
    <3>3. u["audio"] = {} /\ (next = "meta" => u["video"] = {})
      <4>1. CASE m = "audio"
        BY <1>1, <1>4, <2>2, <4>1
      <4>2. CASE m = "video"
        <5>1. u["audio"] = end.unsent["audio"]
          BY <1>3, <4>2 DEF Media
        <5> QED BY <1>4, <2>2, <3>1, <4>2, <5>1
      <4> QED BY <1>1, <4>1, <4>2
    <3> QED BY <3>1, <3>2, <3>3
  <2> QED BY <1>1, <1>2, <1>5, <1>6, <2>1, <2>2 DEF EndInv
<1>10. TypeOK'
  BY <1>1, <1>2, <1>5 DEF IInv, TypeOK, Room, control, media
<1> QED BY <1>7, <1>8, <1>9, <1>10 DEF IInv

LEMMA EndMetaKeeps ==
    ASSUME IInv, EndMeta
    PROVE  IInv'
<1> DEFINE e == [NoEnd EXCEPT !.pc = "remove", !.worker = end.worker]
<1>1. /\ end.pc = "meta" /\ end' = e
      /\ delivered' = (IF end.unsent = Nothing THEN "all" ELSE "part")
      /\ UNCHANGED <<Room, media, session, chatbot, faults>>
  BY DEF EndMeta, EndOver
<1>2. e \in EndStates /\ e.pc = "remove" /\ e.worker = end.worker
  BY Values, EndFacts DEF EndStates
<1> HIDE DEF e
<1>3. /\ end.unsent \in SessionBuffers /\ session = "ACTIVE"
      /\ faults = 0 /\ Here => \A m \in Media : end.unsent[m] = {}
  <2>1. session = "ACTIVE"
    BY <1>1 DEF IInv, EndInv
  <2>2. faults = 0 /\ Here => end.unsent["audio"] = {} /\ end.unsent["video"] = {}
    BY <1>1, <2>1 DEF IInv, EndInv, FirstEnd
  <2> QED BY <2>1, <2>2, EndFacts DEF EndStates, Media
<1>4. faults = 0 /\ Here => end.unsent = Nothing
  BY <1>3 DEF SessionBuffers, Nothing
<1>5. TargetInv' /\ WatchdogSleeps' /\ \A s \in Sockets : SocketInv(s)'
  BY <1>1, EndFacts, RoomStays DEF Room, control, media
<1>6. ~FirstEnd' /\ (Here' <=> Here)
  BY <1>1, <1>2 DEF FirstEnd, Here
<1>7. BuffersCounted' /\ OneBuffer' /\ HeardIsSent' /\ EndInv'
  BY <1>1, <1>2, <1>3, <1>4, <1>6 DEF IInv, media, BuffersCounted, OneBuffer, HeardIsSent, EndInv
<1>8. TypeOK'
  BY <1>1, <1>2, <1>3 DEF IInv, TypeOK, Room, control, media
<1> QED BY <1>5, <1>7, <1>8 DEF IInv

\* A call of the end request fails.
LEMMA EndFailsKeeps ==
    ASSUME IInv, NEW e \in EndStates, end' = e, Fault, end.pc # "idle",
           UNCHANGED <<Room, media, session, chatbot, delivered>>, e.pc # "commit",
           e.pc \in {"audio", "video"} => e.worker = "here"
    PROVE  IInv'
<1>1. faults' = faults + 1 /\ faults' \in 0..MaxFaults /\ faults' # 0
  BY EndFacts DEF Fault
<1>2. session = "ACTIVE" /\ ~FirstEnd'
  BY <1>1 DEF IInv, EndInv, FirstEnd
<1>3. TargetInv' /\ WatchdogSleeps' /\ \A s \in Sockets : SocketInv(s)'
  BY <1>1, EndFacts, RoomStays DEF Room, control, media
<1>4. BuffersCounted'
  BY <1>1, <1>2, EndFacts DEF IInv, media, BuffersCounted
<1>5. OneBuffer' /\ HeardIsSent' /\ EndInv'
  BY <1>1, <1>2 DEF OneBuffer, HeardIsSent, EndInv, Here
<1>6. TypeOK'
  BY <1>1 DEF IInv, TypeOK, Room, control, media
<1> QED BY <1>3, <1>4, <1>5, <1>6 DEF IInv

LEMMA EndRemoveKeeps ==
    ASSUME IInv, EndRemove
    PROVE  IInv'
<1> DEFINE e == [end EXCEPT !.pc = "commit"]
<1>1. /\ end.pc = "remove" /\ end' = e
      /\ UNCHANGED <<Room, seq, session, delivered, faults>>
  BY DEF EndRemove, EndMove
<1>2. e \in EndStates /\ e.pc = "commit" /\ e.worker = end.worker
  BY EndFacts DEF EndStates
<1> HIDE DEF e
<1>3. /\ buffers' \in Seq(SessionBuffers) /\ Len(buffers') = Len(buffers) /\ Len(buffers) \in Nat
      /\ registered' \in {0, registered} /\ chatbot' \in BOOLEAN
  <2>1. CASE Here
    <3>1. /\ chatbot' = FALSE /\ registered' = 0
          /\ buffers' = IF registered = 0 THEN buffers
                        ELSE [buffers EXCEPT ![registered] = Nothing]
      BY <2>1 DEF EndRemove
    <3>2. buffers' \in Seq(SessionBuffers) /\ Len(buffers') = Len(buffers) /\ Len(buffers) \in Nat
      BY <3>1, EndFacts, Values
    <3> QED BY <3>1, <3>2
  <2>2. CASE ~Here
    <3>1. UNCHANGED <<chatbot, registered, buffers>>
      BY <2>2 DEF EndRemove
    <3>2. chatbot' \in BOOLEAN
      BY <3>1 DEF IInv, TypeOK
    <3> QED BY <3>1, <3>2, EndFacts
  <2> QED BY <2>1, <2>2
<1>4. session = "ACTIVE" /\ ~FirstEnd' /\ (Here' <=> Here)
  BY <1>1, <1>2 DEF IInv, EndInv, FirstEnd, Here
<1>5. TargetInv' /\ WatchdogSleeps' /\ \A s \in Sockets : SocketInv(s)'
  BY <1>1, <1>3, RoomStays DEF Room, control
<1>6. BuffersCounted'
  <2>1. Len(buffers) <= faults + 1
    BY <1>1, <1>4, EndFacts DEF IInv, BuffersCounted
  <2> QED BY <1>1, <1>2, <1>3, <2>1, EndFacts DEF BuffersCounted
<1>7. OneBuffer' /\ HeardIsSent' /\ EndInv'
  BY <1>1, <1>2, <1>4 DEF IInv, OneBuffer, HeardIsSent, EndInv
<1>8. TypeOK'
  <2>1. Len(buffers') <= MaxBuffers /\ registered' \in 0..Len(buffers')
    BY <1>3 DEF IInv, TypeOK
  <2> QED BY <1>1, <1>2, <1>3, <2>1 DEF IInv, TypeOK, Room, control
<1> QED BY <1>5, <1>6, <1>7, <1>8 DEF IInv

LEMMA EndCommitKeeps ==
    ASSUME IInv, EndCommit
    PROVE  IInv'
<1> DEFINE e == [NoEnd EXCEPT !.pc = "idle", !.worker = end.worker]
<1>1. /\ end.pc = "commit" /\ session' = "COMPLETED" /\ end' = e
      /\ UNCHANGED <<Room, media, chatbot, delivered, faults>>
  BY DEF EndCommit, EndOver
<1>0. e \in EndStates /\ e.pc = "idle" /\ e.worker = end.worker
  BY Values, EndFacts DEF EndStates
<1> HIDE DEF e
<1>2. ~FirstEnd' /\ (Here' <=> Here)
  BY <1>0, <1>1 DEF FirstEnd, Here
<1>3. TargetInv' /\ WatchdogSleeps' /\ \A s \in Sockets : SocketInv(s)'
  BY <1>1, EndFacts, RoomStays DEF Room, control, media
<1>4. BuffersCounted' /\ OneBuffer' /\ HeardIsSent' /\ EndInv'
  BY <1>0, <1>1, <1>2 DEF IInv, media, BuffersCounted, OneBuffer, HeardIsSent, EndInv
<1>5. TypeOK'
  BY <1>0, <1>1 DEF IInv, TypeOK, Room, control, media
<1> QED BY <1>3, <1>4, <1>5 DEF IInv

LEMMA EndKeeps ==
    ASSUME IInv,
           \/ \E worker \in {"here", "other"} : EndBegin(worker)
           \/ EndStep
           \/ EndSendFails("audio", "video") \/ EndSendFails("video", "meta")
           \/ EndMetaFails \/ EndFails
    PROVE  IInv'
<1>0. CASE \E worker \in {"here", "other"} : EndBegin(worker)
  BY <1>0, EndBeginKeeps
<1>1. CASE EndBuffer \/ EndMeta \/ EndRemove \/ EndCommit
  BY <1>1, EndBufferKeeps, EndElsewhereKeeps, EndMetaKeeps, EndRemoveKeeps, EndCommitKeeps
<1>2. CASE EndSend("audio", "video")
  BY <1>2, EndSendKeeps
<1>3. CASE EndSend("video", "meta")
  BY <1>3, EndSendKeeps
<1>4. CASE EndSendFails("audio", "video") \/ EndSendFails("video", "meta")
  <2>1. PICK next : /\ next \in {"video", "meta"} /\ end.pc # "idle" /\ EndMove(next) /\ Fault
                    /\ UNCHANGED <<Room, media, session, chatbot, delivered>>
    BY <1>4 DEF EndSendFails
  <2> DEFINE e == [end EXCEPT !.pc = next]
  <2>2. e \in EndStates /\ e.pc # "commit" /\ (e.pc \in {"audio", "video"} => e.worker = "here")
    <3>1. end.worker = "here" \/ next = "meta"
      BY <1>4, <2>1, EndFacts DEF EndSendFails, EndMove, EndStates, IInv, EndInv, Here
    <3> QED BY <2>1, <3>1, EndFacts DEF EndStates
  <2>3. end' = e
    BY <2>1 DEF EndMove
  <2> HIDE DEF e
  <2> QED BY <2>1, <2>2, <2>3, EndFailsKeeps
<1>5. CASE EndMetaFails
  <2> DEFINE e == [NoEnd EXCEPT !.pc = "remove", !.worker = end.worker]
  <2>1. e \in EndStates /\ e.pc = "remove"
    BY Values, EndFacts DEF EndStates
  <2>2. end' = e
    BY <1>5 DEF EndMetaFails, EndOver
  <2> HIDE DEF e
  <2> QED BY <1>5, <2>1, <2>2, EndFailsKeeps DEF EndMetaFails
<1>6. CASE EndFails
  <2>1. PICK e : e = NoEnd
    OBVIOUS
  <2>2. e \in EndStates /\ e.pc = "idle" /\ end' = e
    BY <1>6, <2>1, Values DEF EndFails
  <2> QED BY <1>6, <2>2, EndFailsKeeps DEF EndFails
<1> QED BY <1>0, <1>1, <1>2, <1>3, <1>4, <1>5, <1>6 DEF EndStep

LEMMA NextKeeps == IInv /\ [Next]_vars => IInv'
<1> SUFFICES ASSUME IInv, [Next]_vars PROVE IInv'
  OBVIOUS
<1>1. ASSUME NEW s \in Sockets,
             Connect(s) \/ Receive(s) \/ Disconnect(s) \/ Handle(s) \/ ReplyFails(s)
      PROVE  IInv'
  BY <1>1, ConnectKeeps, AcceptedKeeps, ReceiveKeeps, LeaveKeeps, ExchangeKeeps, ReplyKeeps,
     ReplyFailsKeeps DEF Handle
<1>2. CASE Next
  BY <1>1, <1>2, WatchdogKeeps, TimePassesKeeps, EndKeeps DEF Next, Clock
<1>3. CASE UNCHANGED vars
  <2>1. BuffersCounted' /\ OneBuffer' /\ EndInv' /\ HeardIsSent'
    BY <1>3, EndStays DEF vars
  <2>2. TargetInv' /\ WatchdogSleeps' /\ \A s \in Sockets : SocketInv(s)'
    BY <1>3, EndFacts, RoomStays DEF vars
  <2>3. TypeOK'
    BY <1>3 DEF IInv, TypeOK, vars
  <2> QED BY <2>1, <2>2, <2>3 DEF IInv
<1> QED BY <1>2, <1>3

-----------------------------------------------------------------------------
\* The inductive invariant, for any number of sockets that connect, drop and
\* reconnect, and any failures of the end request.
THEOREM RoomIInv == Spec => []IInv
<1>1. Init => IInv
  BY InitIInv
<1>2. IInv /\ [Next]_vars => IInv'
  BY NextKeeps
<1> QED BY <1>1, <1>2, PTL DEF Spec

\* What had been received when an end request came to the worker that holds
\* the session is what the pipeline gets, through whichever sockets it arrived.
THEOREM RoomHeardIsSent == Spec => []HeardIsSent
<1>1. IInv => HeardIsSent
  BY DEF IInv
<1> QED BY <1>1, RoomIInv, PTL

\* Once the exchange that reached the target is over, the interview is complete,
\* however many handlers ask at once.
THEOREM RoomTargetCompletes == Spec => []TargetCompletes
<1>1. IInv => TargetCompletes
  BY DEF IInv, TargetInv, TargetCompletes
<1> QED BY <1>1, RoomIInv, PTL

\* Until the interview is complete a watchdog sleeps as long as somebody
\* listens: a handler that leaves, or a newer timer, never takes the last one.
THEOREM RoomWatchdogSleeps == Spec => []WatchdogSleeps
<1>1. IInv => WatchdogSleeps
  BY DEF IInv
<1> QED BY <1>1, RoomIInv, PTL

\* A completed interview stays complete.
THEOREM RoomCompleteIsFinal == Spec => [][complete => complete']_vars
<1>1. IInv /\ [Next]_vars => [complete => complete']_vars
  <2> SUFFICES ASSUME IInv, Next, complete PROVE complete'
    BY DEF vars
  <2>1. ASSUME NEW s \in Sockets, Reply(s) PROVE complete'
    BY <2>1, CheckFacts DEF Reply
  <2>2. CASE ~\E s \in Sockets : Reply(s)
    BY <2>2 DEF Next, Handle, EndStep, Connect, Receive, Disconnect, ReplyFails, Accepted,
         ReceiveTimeout, Exchange, Watchdog, TimePasses, EndBegin, EndBuffer, EndSend, EndMeta,
         EndRemove, EndCommit, EndSendFails, EndMetaFails, EndFails, Room, control, Clock
  <2> QED BY <2>1, <2>2
<1> QED BY <1>1, RoomIInv, PTL DEF Spec
=============================================================================
