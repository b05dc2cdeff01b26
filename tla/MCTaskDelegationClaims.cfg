\* Claims that the code violates; leave one line to see its counterexample.
SPECIFICATION TreeSpec
CONSTANTS
    Tasks = {t1, t2, t3}
    Roots = {t1}
    NoTask = NoTask
    AttemptBound = 2
    Budgets <- MCBudgets
    MaxCalls = 1
    MaxFaults = 1
SYMMETRY MCSymmetry
INVARIANT TreeWithinBudget
INVARIANT ChildrenAlwaysWithinBudget
INVARIANT ChildCanBeClosed
CHECK_DEADLOCK FALSE
