\* Two versions, one command at a time beside others, a stream that may fail.
CONSTANTS
  NULL = NULL
  Instants = {i1, i2}
  MaxAttempts = 1
  MaxVersion = 2
  MaxRequests = 3
  MaxCommands = 1
SPECIFICATION Spec
INVARIANTS
  ShownIsAsked
  NoBlindOverwrite
PROPERTIES
  OwnCommandShown
CHECK_DEADLOCK FALSE
