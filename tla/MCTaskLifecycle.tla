-------------------------- MODULE MCTaskLifecycle --------------------------
(* Instances of TaskLifecycle for TLC. *)
EXTENDS TaskLifecycle, TLC

CONSTANTS w1, w2, k1

WorkerSymmetry == Permutations(Workers)
=============================================================================
