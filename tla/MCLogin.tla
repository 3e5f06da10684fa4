------------------------------- MODULE MCLogin -------------------------------
(* Small instances of Login: one phone, two or three overlapping requests.   *)
EXTENDS Login, TLC

CONSTANTS r1, r2, r3, c1, c2

OneRequest == {r1}
TwoRequests == {r1, r2}
ThreeRequests == {r1, r2, r3}

OneCode == {c1}
TwoCodes == {c1, c2}

Symmetric == Permutations(Requests) \cup Permutations(Codes)
=============================================================================
