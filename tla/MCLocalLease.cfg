\* One run of Codex, two faults of any kind.
SPECIFICATION FairSpec
CONSTANTS
  r1 = r1
  Runs = {r1}
  Executor <- AllCodex
  MaxEvents = 1
  MaxLeases = 3
  MaxConns = 3
  MaxFaults = 2
INVARIANTS TypeOK ExecutedOnce StoredInOrder OneReply
PROPERTY RunsSettle
CHECK_DEADLOCK FALSE
