---------------------------- MODULE MCVideoUpload ----------------------------
(* Small instances of VideoUpload: three or four chunks, one request at a     *)
(* time (a client that waits for each answer) or two that overlap.            *)
EXTENDS VideoUpload, Integers, TLC

CONSTANTS r1, r2

OneRequest == {r1}
TwoRequests == {r1, r2}

FinalChunk == {TotalChunks - 1}
AnyChunk == 0..(TotalChunks - 1)

Symmetric == Permutations(UploadRequests)
=============================================================================
