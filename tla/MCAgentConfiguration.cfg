SPECIFICATION Spec
CONSTANTS
    Agents = {a}
    Devices = {d}
    None = None
    Runs = {r1, r2}
    Values = {v1, v2}
    MaxConcurrent = 2
    MaxVersion = 2
SYMMETRY MCSymmetry
INVARIANTS TypeOK RunsOfAVersionAgree
CHECK_DEADLOCK FALSE
