\* One message, three calls, one of which fails.
SPECIFICATION Spec
CONSTANTS
  k1 = k1  k2 = k2  a1 = a1  a2 = a2  c1 = c1  c2 = c2  c3 = c3
  Keys = {k1}
  Apis = {a1}
  Calls = {c1, c2, c3}
  Attempts = 2
  MaxFaults = 2
PROPERTY SentIsFinal
CHECK_DEADLOCK FALSE
