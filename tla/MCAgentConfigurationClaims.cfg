\* Claims that the code violates; leave one line to see its counterexample.
SPECIFICATION Spec
CONSTANTS
    Agents = {a}
    Devices = {d}
    None = None
    Runs = {r1, r2}
    Values = {v1, v2}
    MaxConcurrent = 2
    MaxVersion = 2
SYMMETRY MCSymmetry
INVARIANT RunVersionsRecorded
INVARIANT LocalDirectStaysLocal
INVARIANT ApprovedIsPaired
PROPERTY UpdatesKeepQueuedRuns
CHECK_DEADLOCK FALSE
