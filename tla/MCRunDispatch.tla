--------------------------- MODULE MCRunDispatch ---------------------------
(* Instances of RunDispatch for TLC. *)
EXTENDS RunDispatch

CONSTANTS r1, r2, w1, w2, p1, p2, api, d1

OneRun  == {r1}
TwoRuns == {r1, r2}
OneConf  == {1}
TwoConfs == {1, 2}
NoConfs == {}
AllOfR1 == [c \in Confs |-> r1]
=============================================================================
