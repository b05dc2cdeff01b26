---------------------------- MODULE MCLocalLease ----------------------------
(* Instances of LocalLease for TLC. *)
EXTENDS LocalLease

CONSTANTS r1

AllCodex == [r \in Runs |-> "codex"]
=============================================================================
