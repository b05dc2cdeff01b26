\* Two events, one outbox pass, one broken connection, one fault of the relay.
SPECIFICATION FairSpec
CONSTANTS
  p1 = p1
  Kinds = {"run", "task", "all"}
  Publishers = {p1}
  MaxEvents = 2
  PageSize = 1
  MaxDrops = 1
  MaxFaults = 1
INVARIANTS TypeOK DeliveredInOrder SkippedOnlyIfExposed
PROPERTY CaughtUp
