--------------------------- MODULE MCInterviewRoom ---------------------------
(* Small instances of InterviewRoom: a client that reconnects once, and a     *)
(* video socket beside it.                                                    *)
EXTENDS InterviewRoom, TLC

CONSTANTS x1, x2, y1

OneAudio == {x1}
TwoAudio == {x1, x2}
OneVideo == {y1}
NoVideo == {}
=============================================================================
