\* Claims that the code violates; leave one line to see its counterexample. The two
\* invariants are violated with MaxFaults = 0 as well.
SPECIFICATION FairSpec
CONSTANTS
  e1 = e1  e2 = e2  t1 = t1  t2 = t2  t3 = t3  s1 = s1
  Events = {e1}
  Scopes = {s1}
  ScopeOf <- OneScope
  NumAgents = 2
  Tasks = {t1, t2}
  MaxSlots = 2
  MaxDeliveries <- TwiceAndOnce
  MaxTakeovers = 1
  MaxFaults = 1
INVARIANT OneReplyPerEvent
INVARIANT ScopesApart
PROPERTY EventsAlwaysSettle
CHECK_DEADLOCK FALSE
