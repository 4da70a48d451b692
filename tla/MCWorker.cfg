\* One worker that is started again, overtaking appends, failures and crashes
CONSTANTS
  Aggregates = {a1, a2}
  Workers = {w1}
  Supervised = {w1}
  Writers = 2
  BatchSize = 2
  MaxRetries = 2
  MaxSequence = 3
  MaxFailures = 3
SPECIFICATION FairSpec
INVARIANTS
  CheckpointCovers
  AnnouncedIsReadable
PROPERTIES
  InOrderIsProjected
CHECK_DEADLOCK FALSE
