--------------------------- MODULE MCRequestPath ----------------------------
(* Small instances of RequestPath for TLC.                                 *)
EXTENDS RequestPath, TLC

CONSTANTS r1, r2, r3, w1, w2

TwoRequests == {r1, r2}
ThreeRequests == {r1, r2, r3}
TwoWorkers == {w1, w2}

Interchangeable == Permutations(Requests) \cup Permutations(WorkerIds)
=============================================================================
