---------------------------- MODULE AttemptLedger ----------------------------
(***************************************************************************)
(* What skill selection promises, with no requests, no transactions and no *)
(* clock: a ledger of the attempts each user has taken on each skill, from *)
(* which one attempt at a time is granted, in order, at most MAX_ATTEMPTS  *)
(* of them.  SkillChoice, with its overlapping requests, implements it.    *)
(***************************************************************************)
EXTENDS Naturals

CONSTANTS Users, Skills, MAX_ATTEMPTS

VARIABLE taken      \* attempts taken, per user and skill

Init == taken = [p \in Users \X Skills |-> 0]

Grant(u, s) ==
    /\ taken[<<u, s>>] < MAX_ATTEMPTS
    /\ taken' = [taken EXCEPT ![<<u, s>>] = @ + 1]

Next == \E u \in Users, s \in Skills : Grant(u, s)

Spec == Init /\ [][Next]_taken
=============================================================================
