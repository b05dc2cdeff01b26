SPECIFICATION TreeSpec
CONSTANTS
    Tasks = {t1, t2, t3}
    Roots = {t1}
    NoTask = NoTask
    AttemptBound = 2
    Budgets <- MCBudgets
    MaxCalls = 1
    MaxFaults = 1
SYMMETRY MCSymmetry
INVARIANTS TreeTypeOK ChildrenWithinBudget UseBounded
CHECK_DEADLOCK FALSE
