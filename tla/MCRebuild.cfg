\* Two workers, two writers and the rebuild script: safety
CONSTANTS
  Aggregates = {a1, a2}
  Workers = {w1, w2}
  Supervised = {}
  Writers = 2
  BatchSize = 1
  MaxRetries = 1
  MaxSequence = 3
  MaxFailures = 1
SPECIFICATION RebuildSpec
VIEW Seen
SYMMETRY Symmetry
INVARIANTS
  ProjectionIsPrefix
PROPERTIES
  TakenBackKnowingly
CHECK_DEADLOCK FALSE
