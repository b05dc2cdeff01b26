\* One run, two events, no fault: an event is overtaken and never delivered.
SPECIFICATION Spec
CONSTANTS
  p1 = p1
  Kinds = {"run"}
  Publishers = {p1}
  MaxEvents = 2
  PageSize = 2
  MaxDrops = 0
  MaxFaults = 0
INVARIANT NothingSkipped
