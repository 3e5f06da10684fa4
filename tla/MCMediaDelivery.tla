--------------------------- MODULE MCMediaDelivery ---------------------------
(* Small instances of MediaDelivery: a candidate with two applications, one  *)
(* or two interviews, and one or two work-experience videos; two workers.    *)
EXTENDS MediaDelivery, TLC

CONSTANTS a1, a2, s1, s2, v1, v2, r1, r2, w1, w2

TwoApps == {a1, a2}
OneSession == {s1}
TwoSessions == {s1, s2}
SessionApp == [s \in Sessions |-> IF s = s1 THEN a1 ELSE a2]
TwoWorkers == {w1, w2}
FirstWorker == [s \in Sessions |-> w1]
OneUpload == {v1}
TwoUploads == {v1, v2}
VideoApp == [u \in Uploads |-> IF u = v1 THEN a1 ELSE a2]
OneRequest == {r1}
TwoRequests == {r1, r2}

Symmetric == Permutations(Requests)
=============================================================================
