\* Claims that the code violates; leave one line to see its counterexample.
SPECIFICATION Spec
CONSTANTS
  r1 = r1
  Runs = {r1}
  Executor <- AllCodex
  MaxEvents = 4
  MaxLeases = 1
  MaxConns = 2
  MaxFaults = 1
INVARIANT FailureReported
INVARIANT CompletedHasReply
INVARIANT EventsKept
INVARIANT StoredAlwaysInOrder
INVARIANT OnlineWhileConnected
CHECK_DEADLOCK FALSE
