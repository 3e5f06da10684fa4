------------------------ MODULE MCApplicationLifecycle ------------------------
(* Small instances of ApplicationLifecycle: one candidate, with one or two    *)
(* applications.                                                              *)
EXTENDS ApplicationLifecycle, TLC

CONSTANTS u1, a1, a2, s1, s2, r1, r2, p1, p2

MCUsers == {u1}
OneApp == {a1}
TwoApps == {a1, a2}
MCOwner == [a \in Apps |-> u1]
OneSession == {s1}
TwoSessions == {s1, s2}
NoRequest == {}
OneRequest == {r1}
TwoRequests == {r1, r2}
OnePoller == {p1}
TwoPollers == {p1, p2}
NoOverrides == {}
ReadyOrFraud == {"READY", "FRAUD"}
OnlyReady == {"READY"}
OnlyFraud == {"FRAUD"}

Symmetric ==
    Permutations(Requests) \cup Permutations(Sessions) \cup Permutations(Pollers)
        \cup Permutations(Apps)
=============================================================================
