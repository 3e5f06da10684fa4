--------------------------- MODULE MCRegistration ---------------------------
(* Small instances of Registration: two people, one of whom has two videos.   *)
EXTENDS Registration, TLC

CONSTANTS u1, u2, f1, f2, f3, n1, n2, r1, r2

OneUser == {u1}
TwoUsers == {u1, u2}
OneFace == {f1}
TwoFaces == {f1, f2}
ThreeFaces == {f1, f2, f3}
OneNumber == {n1}
TwoNumbers == {n1, n2}
OneRequest == {r1}
TwoRequests == {r1, r2}

\* f1 and f2 are the same person's.
SameFace == {<<f, f>> : f \in Faces}
OnePerson == SameFace \cup ({<<f1, f2>>, <<f2, f1>>} \cap (Faces \X Faces))

Symmetric == Permutations(Users) \cup Permutations(Requests)
=============================================================================
