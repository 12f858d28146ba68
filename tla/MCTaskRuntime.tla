--------------------------- MODULE MCTaskRuntime ---------------------------
(* Instances of TaskRuntime for TLC.                                       *)
EXTENDS TaskRuntime, TLC

CONSTANTS w1, w2, c1, x1

TwoWorkers == {w1, w2}
OneWorker == {w1}
OneClient == {c1}
OneReconciler == {x1}
NoReconciler == {}

Symmetry == Permutations(Worker) \cup Permutations(Client)
=============================================================================
