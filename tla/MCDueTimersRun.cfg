\* Two timers, two API processes, two calls of the send tool, two faults: every timer gets its run.
SPECIFICATION FairSpec
CONSTANTS
  k1 = k1  k2 = k2  a1 = a1  a2 = a2  c1 = c1  c2 = c2  c3 = c3
  Keys = {k1, k2}
  Apis = {a1, a2}
  Calls = {c1, c2}
  Attempts = 2
  MaxFaults = 2
PROPERTY DueTimersRun
CHECK_DEADLOCK FALSE
