\* Two events of one scope, one agent, two tasks side by side, one fault of any kind.
SPECIFICATION Spec
CONSTANTS
  e1 = e1  e2 = e2  t1 = t1  t2 = t2  t3 = t3  s1 = s1
  Events = {e1, e2}
  Scopes = {s1}
  ScopeOf <- OneScope
  NumAgents = 1
  Tasks = {t1, t2}
  MaxSlots = 2
  MaxDeliveries <- TwiceAndOnce
  MaxTakeovers = 1
  MaxFaults = 1
SYMMETRY TaskSymmetry
INVARIANTS TypeOK CompletedIsReplied RepliesBounded RunsBounded ConversationsBounded OneReplyInFlight
CHECK_DEADLOCK FALSE
