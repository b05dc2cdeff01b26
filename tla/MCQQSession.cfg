\* Three sessions of up to three dispatches, three faults, three commands.
SPECIFICATION FairSpec
CONSTANTS
  MaxSessions = 3
  MaxMessages = 3
  MaxFaults = 3
  MaxCommands = 3
INVARIANTS TypeOK SequenceIsSeen
PROPERTIES MessagesArrive Reconnects
CHECK_DEADLOCK FALSE
