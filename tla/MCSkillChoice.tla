---------------------------- MODULE MCSkillChoice ----------------------------
(* Small instances of SkillChoice.  One skill id is not in the skills table. *)
EXTENDS SkillChoice, TLC

CONSTANTS u1, s1, s2, r1, r2

MCUsers == {u1}
OneSkill == {s1}
TwoSkills == {s1, s2}
TwoRequests == {r1, r2}
OneRequest == {r1}

Symmetric == Permutations(Requests)
=============================================================================
