-------------------------- MODULE MCTaskDelegation --------------------------
\* Instances of TaskDelegation: a root that may delegate, and what it delegates.
EXTENDS TaskDelegation, TLC

B(n, tools, concurrent, deep, many) ==
    [tokens |-> n, calls |-> tools, runs |-> concurrent, depth |-> deep, subtasks |-> many]

MCBudgets == {B(1, 3, 2, 1, 2), B(2, 0, 1, 1, 1)}
MCSymmetry == Permutations(Tasks \ Roots)
=============================================================================
