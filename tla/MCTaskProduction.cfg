\* Production: the API process and one worker, two attempts, one crash.
SPECIFICATION Spec
CONSTANTS
  w1 = w1  w2 = w2  k1 = k1
  MaxAttempts = 2
  Workers = {w1}
  Keys = {}
  OneProcess = FALSE
  MaxRounds = 0
  MaxCrashes = 1
INVARIANTS OneActiveAssignment WaitingIsNotified
