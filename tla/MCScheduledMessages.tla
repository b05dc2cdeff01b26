------------------------ MODULE MCScheduledMessages ------------------------
(* Instances of ScheduledMessages for TLC. *)
EXTENDS ScheduledMessages

CONSTANTS k1, k2, a1, a2, c1, c2, c3
=============================================================================
