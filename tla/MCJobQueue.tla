----------------------------- MODULE MCJobQueue -----------------------------
(* Small instances of JobQueue. *)
EXTENDS JobQueue, TLC

CONSTANTS w1, w2

TwoWorkers == {w1, w2}
OneWorker == {w1}
Symmetry == Permutations(TwoWorkers)
=============================================================================
