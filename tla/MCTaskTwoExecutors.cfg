\* Local mode: two attempts, two executing tasks, one crash.
SPECIFICATION Spec
CONSTANTS
  w1 = w1  w2 = w2  k1 = k1
  MaxAttempts = 2
  Workers = {w1, w2}
  Keys = {}
  OneProcess = TRUE
  MaxRounds = 1
  MaxCrashes = 1
SYMMETRY WorkerSymmetry
INVARIANTS TypeOK OneActiveAssignment WaitingIsNotified ClosedHasResult
PROPERTIES TaskMachine AttemptsFinal
