\* Two events, two waits at a time, one failure of the worker, three things done.
CONSTANTS
  MaxEvents = 2
  MaxFailures = 1
  Syncs = {s1, s2}
  MaxAttempts = 2
  MaxMoves = 3
SPECIFICATION Spec
SYMMETRY Symmetry
INVARIANTS
  SyncIsTrue
CHECK_DEADLOCK FALSE
