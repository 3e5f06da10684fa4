--------------------------- MODULE MCStatusStream ---------------------------
(* Small instances of StatusStream: two verdicts, so that they can disagree.  *)
EXTENDS StatusStream, TLC

CONSTANTS p1, p2, o1, s1, s2, READY, MANUAL

TwoVerdicts == {READY, MANUAL}
OnePoller == {p1}
TwoPollers == {p1, p2}
OneOfficer == {o1}
NoOfficers == {}
OneStream == {s1}
TwoStreams == {s1, s2}
NoStreams == {}

Symmetric == Permutations(Pollers) \cup Permutations(Streams)
=============================================================================
