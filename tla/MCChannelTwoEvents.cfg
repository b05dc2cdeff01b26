\* Two events of one scope, two agents, two tasks side by side, no fault.
SPECIFICATION Spec
CONSTANTS
  e1 = e1  e2 = e2  t1 = t1  t2 = t2  t3 = t3  s1 = s1
  Events = {e1, e2}
  Scopes = {s1}
  ScopeOf <- OneScope
  NumAgents = 2
  Tasks = {t1, t2}
  MaxSlots = 2
  MaxDeliveries <- Once
  MaxTakeovers = 1
  MaxFaults = 0
SYMMETRY TaskSymmetry
INVARIANTS TypeOK CompletedIsReplied RepliesBounded RunsBounded ConversationsBounded OneReplyInFlight
CHECK_DEADLOCK FALSE
