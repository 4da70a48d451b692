\* Two tabs, two processes and two starts, one account restored and one seeded.
CONSTANTS
  NULL = NULL
  Clients = {t1, t2}
  Instances = {i1, i2}
  u1 = u1
  u2 = u2
  Authors = {u1, u2}
  Registered <- RestoredAccounts
  DemoAccounts <- SeededAccounts
  Existing = {1}
  MaxAttempts = 2
  MaxId = 3
  MaxStarts = 2
  MaxSent = 4
  MaxFaults = 1
SPECIFICATION Spec
SYMMETRY ApiSymmetry
INVARIANTS
  ConflictIsSupplied
  OneAccount
  IdentityShown
  WritesAreByOperators
CHECK_DEADLOCK FALSE
