\* One event with two deliveries, two agents, two tasks side by side, one fault of any
\* kind.
SPECIFICATION FairSpec
CONSTANTS
  e1 = e1  e2 = e2  t1 = t1  t2 = t2  t3 = t3  s1 = s1
  Events = {e1}
  Scopes = {s1}
  ScopeOf <- OneScope
  NumAgents = 2
  Tasks = {t1, t2}
  MaxSlots = 2
  MaxDeliveries <- TwiceAndOnce
  MaxTakeovers = 1
  MaxFaults = 1
INVARIANTS TypeOK CompletedIsReplied OneReplyInFlight
PROPERTY EventsSettle
CHECK_DEADLOCK FALSE
