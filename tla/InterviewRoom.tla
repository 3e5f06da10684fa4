---------------------------- MODULE InterviewRoom ----------------------------
(***************************************************************************)
(* One interview session in the memory of the worker that started it: the  *)
(* audio and video WebSocket handlers (interview/chatbot.py), the          *)
(* controller that counts questions and time (controller.py), the media    *)
(* buffers (media_buffer.py), and the end request that collects and        *)
(* releases them (interview/routes.py).  Only this worker has the chatbot  *)
(* the sockets ask for; the end request may run on another, where nothing  *)
(* of the session is in memory.  What the end does to the database is the  *)
(* subject of ApplicationLifecycle.                                        *)
(*                                                                         *)
(* Handlers run on one event loop: a step here is what a handler does from *)
(* one await to the next.  A client that reconnects has several sockets    *)
(* on the same session while the old handler is still busy.                *)
(***************************************************************************)
EXTENDS Integers, Sequences, FiniteSets

CONSTANTS
    AudioSockets, VideoSockets,
    TARGET_QUESTIONS,   \* 8 in the code
    MaxMessages,        \* bound on the messages received, both media together
    MaxFaults,          \* bound on failed sends and failed end requests
    None

ASSUME BoundsAssumption ==
    /\ TARGET_QUESTIONS \in Nat \ {0}
    /\ MaxMessages \in Nat /\ MaxFaults \in Nat

VARIABLES
    session,    \* interview_sessions.status
    chatbot,    \* the session is in the registry of chatbots
    questions,  \* question_count, and half the length of history
    late,       \* MAX_DURATION_SECONDS have passed since the start
    complete,   \* _completed and _complete_event, set together
    timers,     \* the sockets whose watchdog is asleep
    newest,     \* the socket whose watchdog is _timer_task, while that sleeps
    buffers,    \* every SessionBuffer made: its audio and video messages
    registered, \* the index of the one in _buffers, 0 for none
    seq,        \* _audio_seq and _video_seq
    ws,         \* the WebSocket handlers
    end,        \* the request to /interview/end, or the worker of the last one
    delivered,  \* history: the meta message has gone, with all the media or part
    faults

vars == <<session, chatbot, questions, late, complete, timers, newest, buffers,
          registered, seq, ws, end, delivered, faults>>

control == <<questions, late, complete, timers, newest>>
media == <<buffers, registered, seq>>
backend == <<session, chatbot, end, delivered>>

-----------------------------------------------------------------------------
Sockets == AudioSockets \cup VideoSockets
Medium(s) == IF s \in AudioSockets THEN "audio" ELSE "video"
Media == {"audio", "video"}

Closed == [pc |-> "closed", buf |-> 0]
Nothing == [m \in Media |-> {}]
NoEnd == [pc |-> "idle", worker |-> "here", buf |-> 0, unsent |-> Nothing]
\* One buffer, and one more for each time one has been released.
MaxBuffers == MaxFaults + 2
SessionBuffers == [Media -> SUBSET Nat]

SocketStates == [pc : {"closed", "accept", "receive", "pipeline", "reply"}, buf : Nat]
EndStates == [pc : {"idle", "buffer", "audio", "video", "meta", "remove", "commit"},
              worker : {"here", "other"}, buf : Nat, unsent : SessionBuffers]

TypeOK ==
    /\ session \in {"ACTIVE", "COMPLETED"}
    /\ chatbot \in BOOLEAN /\ late \in BOOLEAN /\ complete \in BOOLEAN
    /\ questions \in Nat
    /\ timers \subseteq AudioSockets /\ newest \in AudioSockets \cup {None}
    /\ buffers \in Seq(SessionBuffers) /\ Len(buffers) <= MaxBuffers
    /\ registered \in 0..Len(buffers)
    /\ seq \in [Media -> Nat] /\ seq["audio"] + seq["video"] <= MaxMessages
    /\ ws \in [Sockets -> SocketStates]
    /\ end \in EndStates
    /\ delivered \in {"no", "all", "part"}
    /\ faults \in 0..MaxFaults

\* /interview/start has created the chatbot session.
Init ==
    /\ session = "ACTIVE"
    /\ chatbot = TRUE
    /\ questions = 0
    /\ late = FALSE /\ complete = FALSE
    /\ timers = {} /\ newest = None
    /\ buffers = <<>> /\ registered = 0
    /\ seq = [m \in Media |-> 0]
    /\ ws = [s \in Sockets |-> Closed]
    /\ end = NoEnd
    /\ delivered = "no"
    /\ faults = 0

Fault == faults < MaxFaults /\ faults' = faults + 1

-----------------------------------------------------------------------------
(***************************************************************************)
(* The controller.                                                         *)
(***************************************************************************)
\* Mutant: the count is expected to stop at the target.
Exhausted_Equal(n) == n = TARGET_QUESTIONS

Exhausted(n) == n >= TARGET_QUESTIONS

\* _trigger_complete: the latest watchdog is cancelled, older ones sleep on.
Complete ==
    /\ complete' = TRUE
    /\ timers' = IF complete THEN timers ELSE timers \ {newest}
    /\ newest' = IF complete THEN newest ELSE None

\* check_and_complete.
CheckAndComplete ==
    IF ~complete /\ (Exhausted(questions) \/ late) THEN Complete
    ELSE UNCHANGED <<complete, timers, newest>>

\* The duration is over.
TimePasses ==
    /\ ~late
    /\ late' = TRUE
    /\ UNCHANGED <<questions, complete, timers, newest, media, ws, backend, faults>>

\* _timeout_watchdog wakes, MAX_DURATION_SECONDS after its socket connected.
Watchdog(s) ==
    /\ s \in timers
    /\ late
    /\ complete' = TRUE
    /\ timers' = timers \ {s, IF complete THEN s ELSE newest}
    /\ newest' = IF newest \in timers' THEN newest ELSE None
    /\ UNCHANGED <<questions, late, media, ws, backend, faults>>

-----------------------------------------------------------------------------
(***************************************************************************)
(* The buffers.                                                            *)
(***************************************************************************)
\* get_or_create_buffer, the index it returns.
Got == IF registered = 0 THEN Len(buffers) + 1 ELSE registered

GetOrCreateBuffer ==
    /\ registered' = Got
    /\ buffers' = IF registered = 0 THEN Append(buffers, Nothing) ELSE buffers

-----------------------------------------------------------------------------
(***************************************************************************)
(* handle_audio_websocket and handle_video_websocket.                      *)
(***************************************************************************)
\* The route finds the chatbot in the registry; ws.accept().
Connect(s) ==
    /\ ws[s].pc = "closed"
    /\ chatbot
    /\ ws' = [ws EXCEPT ![s].pc = "accept"]
    /\ UNCHANGED <<control, media, backend, faults>>

\* while not self.is_complete(): receive, or leave the loop.
Loop(s, buf, done) ==
    ws' = [ws EXCEPT ![s] = IF done THEN Closed ELSE [pc |-> "receive", buf |-> buf]]

\* Mutant: the handler stops its timer when it leaves.
Leave_StopsTimer(s) == timers' = timers \ {s}

\* A handler that returns leaves its watchdog asleep.
Leave(s) == UNCHANGED timers

\* An audio socket starts the timer, also when one is running.
Accepted(s) ==
    /\ ws[s].pc = "accept"
    /\ IF s \in AudioSockets
       THEN timers' = timers \cup {s} /\ newest' = s
       ELSE UNCHANGED <<timers, newest>>
    /\ GetOrCreateBuffer
    /\ Loop(s, Got, complete)
    /\ UNCHANGED <<questions, late, complete, seq, backend, faults>>

\* A message is buffered.  Audio may fill the accumulator, and then a copy of
\* it goes through STT and Groq.
Receive(s) ==
    LET m == Medium(s)
    IN  /\ ws[s].pc = "receive"
        /\ seq["audio"] + seq["video"] < MaxMessages
        /\ buffers' = [buffers EXCEPT ![ws[s].buf][m] = @ \cup {seq[m]}]
        /\ seq' = [seq EXCEPT ![m] = @ + 1]
        /\ \/ Loop(s, ws[s].buf, complete)
           \/ m = "audio" /\ ws' = [ws EXCEPT ![s].pc = "pipeline"]
        /\ UNCHANGED <<control, registered, backend, faults>>

\* Mutant: only the count of questions is asked.
ReceiveTimeout_Count(s) ==
    /\ ws[s].pc = "receive"
    /\ Exhausted(questions)
    /\ Loop(s, 0, TRUE)
    /\ Leave(s)
    /\ UNCHANGED <<questions, late, complete, newest, media, backend, faults>>

\* Five seconds without a message: the audio loop asks the controller too.
ReceiveTimeout(s) ==
    /\ ws[s].pc = "receive"
    /\ complete \/ (s \in AudioSockets /\ (Exhausted(questions) \/ late))
    /\ Loop(s, 0, TRUE)
    /\ Leave(s)
    /\ UNCHANGED <<questions, late, complete, newest, media, backend, faults>>

Disconnect(s) ==
    /\ ws[s].pc = "receive"
    /\ Loop(s, 0, TRUE)
    /\ Leave(s)
    /\ UNCHANGED <<questions, late, complete, newest, media, backend, faults>>

\* STT and Groq have answered, and the exchange is recorded; or there was
\* nothing to hear.
Exchange(s) ==
    /\ ws[s].pc = "pipeline"
    /\ \/ /\ questions' = questions + 1
          /\ ws' = [ws EXCEPT ![s].pc = "reply"]
       \/ /\ Loop(s, ws[s].buf, complete)
          /\ UNCHANGED questions
    /\ UNCHANGED <<late, complete, timers, newest, media, backend, faults>>

\* The reply is sent, then check_and_complete.
Reply(s) ==
    /\ ws[s].pc = "reply"
    /\ CheckAndComplete
    /\ Loop(s, ws[s].buf, complete')
    /\ UNCHANGED <<questions, late, media, backend, faults>>

\* The client has gone: the send raises, and the handler ends there.
ReplyFails(s) ==
    /\ ws[s].pc = "reply"
    /\ Fault
    /\ ws' = [ws EXCEPT ![s] = Closed]
    /\ UNCHANGED <<control, media, backend>>

-----------------------------------------------------------------------------
(***************************************************************************)
(* POST /interview/end.                                                    *)
(***************************************************************************)
EndMove(pc) == end' = [end EXCEPT !.pc = pc]
EndOver(pc) == end' = [NoEnd EXCEPT !.pc = pc, !.worker = end.worker]
Here == end.worker = "here"
Room == <<control, ws>>

\* Either worker finds the session ACTIVE; what has been received by now is
\* to be sent.
EndBegin(worker) ==
    /\ end.pc = "idle"
    /\ session = "ACTIVE"
    /\ end' = [pc |-> "buffer", worker |-> worker, buf |-> 0,
               unsent |-> [m \in Media |-> 0..seq[m] - 1]]
    /\ UNCHANGED <<Room, media, session, chatbot, delivered, faults>>

\* Mutant: a new buffer, whatever is registered.
EndBuffer_New ==
    /\ end.pc = "buffer"
    /\ Len(buffers) < MaxBuffers
    /\ buffers' = Append(buffers, Nothing)
    /\ registered' = Len(buffers) + 1
    /\ end' = [end EXCEPT !.pc = "audio", !.buf = registered']
    /\ UNCHANGED <<Room, seq, session, chatbot, delivered, faults>>

\* The other worker's registry has no buffer of this session: it makes one,
\* empty, of which there is nothing to send.
EndBuffer ==
    /\ end.pc = "buffer"
    /\ \/ Here /\ GetOrCreateBuffer /\ end' = [end EXCEPT !.pc = "audio", !.buf = Got]
       \/ ~Here /\ EndMove("meta") /\ UNCHANGED <<registered, buffers>>
    /\ UNCHANGED <<Room, seq, session, chatbot, delivered, faults>>

\* Audio, then video: the buffer as it is when its turn comes.
EndSend(m, next) ==
    /\ end.pc = m
    /\ end' = [end EXCEPT !.unsent[m] = @ \ buffers[end.buf][m], !.pc = next]
    /\ UNCHANGED <<Room, media, session, chatbot, delivered, faults>>

\* A failed send is logged, and the next medium's turn comes.
EndSendFails(m, next) ==
    /\ end.pc = m
    /\ Fault
    /\ EndMove(next)
    /\ UNCHANGED <<Room, media, session, chatbot, delivered>>

EndMeta ==
    /\ end.pc = "meta"
    /\ delivered' = IF end.unsent = Nothing THEN "all" ELSE "part"
    /\ EndOver("remove")
    /\ UNCHANGED <<Room, media, session, chatbot, faults>>

\* The exception is caught by the route.
EndMetaFails ==
    /\ end.pc = "meta"
    /\ Fault
    /\ EndOver("remove")
    /\ UNCHANGED <<Room, media, session, chatbot, delivered>>

\* remove_chatbot_session, release_buffer: the buffer is emptied.  On the
\* other worker there is no chatbot, and the buffer is its own.
EndRemove ==
    /\ end.pc = "remove"
    /\ \/ /\ Here
          /\ chatbot' = FALSE
          /\ registered' = 0
          /\ buffers' = IF registered = 0 THEN buffers
                        ELSE [buffers EXCEPT ![registered] = Nothing]
       \/ ~Here /\ UNCHANGED <<chatbot, registered, buffers>>
    /\ EndMove("commit")
    /\ UNCHANGED <<Room, seq, session, delivered, faults>>

EndCommit ==
    /\ end.pc = "commit"
    /\ session' = "COMPLETED"
    /\ EndOver("idle")
    /\ UNCHANGED <<Room, media, chatbot, delivered, faults>>

\* A statement or the commit fails; the client may ask again.
EndFails ==
    /\ end.pc \in {"buffer", "commit"}
    /\ Fault
    /\ end' = NoEnd
    /\ UNCHANGED <<Room, media, session, chatbot, delivered>>

-----------------------------------------------------------------------------
Handle(s) ==
    \/ Accepted(s) \/ ReceiveTimeout(s) \/ Exchange(s) \/ Reply(s)

\* What the event loop's timer does.
Clock == TimePasses \/ \E s \in AudioSockets : Watchdog(s)

EndStep ==
    \/ EndBuffer \/ EndSend("audio", "video") \/ EndSend("video", "meta")
    \/ EndMeta \/ EndRemove \/ EndCommit

Next ==
    \/ \E s \in Sockets : Connect(s) \/ Receive(s) \/ Disconnect(s) \/ Handle(s) \/ ReplyFails(s)
    \/ Clock
    \/ \E worker \in {"here", "other"} : EndBegin(worker)
    \/ EndStep
    \/ EndSendFails("audio", "video") \/ EndSendFails("video", "meta")
    \/ EndMetaFails \/ EndFails

Spec == Init /\ [][Next]_vars

\* Time passes, sleeping tasks wake, and a video handler runs on; clients, the
\* audio pipeline and the end request owe nothing.
FairSpec ==
    /\ Spec
    /\ \A s \in VideoSockets : WF_vars(Handle(s))
    /\ WF_vars(Clock)

-----------------------------------------------------------------------------
(***************************************************************************)
(* Properties.                                                             *)
(***************************************************************************)
\* What had been received when the end request came to this worker is what
\* the pipeline gets, through whichever sockets it arrived: the buffer that
\* was filled is the buffer that is sent, and is not emptied before.
HeardIsSent == faults = 0 /\ Here => delivered # "part"

\* Without the condition it is false: the other worker ends the session with
\* none of the media.
HeardIsSentAnywhere == faults = 0 => delivered # "part"

\* "Signals INTERVIEW_COMPLETE when question_count reaches TARGET_QUESTIONS":
\* it has been signalled once the exchange that got there is over.
TargetCompletes ==
    /\ faults = 0
    /\ questions >= TARGET_QUESTIONS
    /\ \A s \in AudioSockets : ws[s].pc # "reply"
    => complete

\* Why, in four parts.  A handler that listens holds a buffer that was made,
\* and only audio handlers ask and answer.
SocketInv(s) ==
    /\ IF ws[s].pc \in {"closed", "accept"} THEN ws[s].buf = 0
                                         ELSE ws[s].buf \in 1..Len(buffers)
    /\ ws[s].pc \in {"pipeline", "reply"} => s \in AudioSockets

\* A buffer is made at first and after a release, and a second release takes
\* an end request that failed.
BuffersCounted ==
    Len(buffers) + (IF registered = 0 THEN 1 ELSE 0)
      <= faults + (IF end.pc = "commit" \/ session = "COMPLETED" THEN 2 ELSE 1)

\* Until the end request has sent everything, one buffer holds all that was
\* received, and what is unsent yet is in it.
FirstEnd == faults = 0 /\ session = "ACTIVE" /\ end.pc \notin {"remove", "commit"}

OneBuffer ==
    FirstEnd =>
        /\ delivered = "no"
        /\ Len(buffers) = registered /\ registered <= 1
        /\ \A m \in Media : IF registered = 0 THEN seq[m] = 0
                                               ELSE buffers[1][m] = 0..(seq[m] - 1)

EndInv ==
    /\ end.pc # "idle" => session = "ACTIVE"
    /\ FirstEnd /\ end.pc # "idle" => \A m \in Media : end.unsent[m] \subseteq 0..(seq[m] - 1)
    /\ end.pc \in {"audio", "video"} => Here
    /\ FirstEnd /\ Here /\ end.pc \in {"audio", "video", "meta"} => end.buf = 1 /\ registered = 1
    /\ FirstEnd /\ Here /\ end.pc \in {"video", "meta"} => end.unsent["audio"] = {}
    /\ FirstEnd /\ Here /\ end.pc = "meta" => end.unsent["video"] = {}

\* The exchange that reached the target is still to be answered, or has been.
TargetInv ==
    faults = 0 /\ questions >= TARGET_QUESTIONS =>
        complete \/ \E s \in AudioSockets : ws[s].pc = "reply"

\* An interview somebody listens in has a watchdog until it is complete.
WatchdogSleeps ==
    complete \/ timers # {} \/ \A s \in AudioSockets : ws[s].pc \in {"closed", "accept"}

IInv ==
    /\ TypeOK
    /\ \A s \in Sockets : SocketInv(s)
    /\ BuffersCounted /\ OneBuffer /\ EndInv /\ HeardIsSent
    /\ TargetInv /\ WatchdogSleeps

\* Once audio has connected the interview completes, whoever disconnects,
\* reconnects or stays silent.
InterviewEnds == (\E s \in AudioSockets : ws[s].pc = "receive") ~> complete

\* The video handler, which the audio side completes without telling it,
\* returns as well.
VideoCloses == \A s \in VideoSockets : complete /\ ws[s].pc # "closed" ~> ws[s].pc = "closed"

\* "Cleanup in-memory resources": an ended session with no socket left holds
\* no buffer.
BufferReleased ==
    session = "COMPLETED" /\ (\A s \in Sockets : ws[s].pc = "closed") => registered = 0

\* "Emit INTERVIEW_COMPLETE signal to backend; Backend triggers Kafka send":
\* a completed interview is delivered.
CompleteIsDelivered == complete ~> delivered # "no"
=============================================================================
