------------------------------ MODULE MCServer ------------------------------
(* Small instances of Server.                                               *)
EXTENDS Server, TLC

CONSTANTS w1, w2, r1, a1, a2, electrician, plumber

OneWorker == {w1}
TwoWorkers == {w1, w2}
OneRequest == {r1}
OneApp == {a1}
TwoApps == {a1, a2}
TwoSkills == <<electrician, plumber>>
=============================================================================
