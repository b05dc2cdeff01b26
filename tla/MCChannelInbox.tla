--------------------------- MODULE MCChannelInbox ---------------------------
(* Instances of ChannelInbox for TLC. *)
EXTENDS ChannelInbox, TLC

CONSTANTS e1, e2, t1, t2, t3, s1

OneScope == [e \in Events |-> s1]
\* e1 is delivered twice.
TwiceAndOnce == [e \in Events |-> IF e = e1 THEN 2 ELSE 1]
Once == [e \in Events |-> 1]
TaskSymmetry == Permutations(Tasks)
=============================================================================
