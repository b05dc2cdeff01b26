\* Claims about the end of a run that the code violates: a claimed run whose
\* lease is lost, and a queued one whose Agent has left the device.
SPECIFICATION FairSpec
CONSTANTS
  r1 = r1
  Runs = {r1}
  Executor <- AllCodex
  MaxEvents = 0
  MaxLeases = 2
  MaxConns = 2
  MaxFaults = 1
PROPERTY LostLeaseEnds
PROPERTY RunsSettleInAnyMode
CHECK_DEADLOCK FALSE
