\* Production: claims that the code violates; leave one line to see its counterexample.
SPECIFICATION Spec
CONSTANTS
  w1 = w1  w2 = w2  k1 = k1
  MaxAttempts = 2
  Workers = {w1, w2}
  Keys = {}
  OneProcess = FALSE
  MaxRounds = 1
  MaxCrashes = 0
INVARIANT WaitingRunWaits
PROPERTY TerminalTasksStay
PROPERTY AttemptsFinal
