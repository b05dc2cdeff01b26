\* Local mode without crashes: retried commands, confirmations, and what must
\* happen eventually.
SPECIFICATION FairSpec
CONSTANTS
  w1 = w1  w2 = w2  k1 = k1
  MaxAttempts = 2
  Workers = {w1}
  Keys = {k1}
  OneProcess = TRUE
  MaxRounds = 1
  MaxCrashes = 0
INVARIANTS TypeOK OneKeyOneAssignment WaitingRunWaits
PROPERTIES TaskMachine AssignedStarts
