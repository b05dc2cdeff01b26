\* Three sessions of up to three dispatches; overlapping commands.
\* Claims that the code does not keep: one at a time.
SPECIFICATION FairSpec
CONSTANTS
  MaxSessions = 3
  MaxMessages = 3
  MaxFaults = 3
  MaxCommands = 3
INVARIANT RuntimeHasRow
PROPERTY ReconnectsAlways
CHECK_DEADLOCK FALSE
