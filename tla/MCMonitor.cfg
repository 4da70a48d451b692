\* One monitor process and one shipment: schedule, timers and progress
CONSTANTS
  NULL = NULL
  Shipments = {s1}
  Existing = {}
  Processes = {p1}
  Handles = {1, 2}
  Registrations = {r1}
  Source = "simulated"
  Lags = {0}
  Interval = 2
  FirstDelay = 1
  MaxCatchUp = 2
  MaxTime = 3
  MaxCommands = 2
  MaxFaults = 1
SPECIFICATION FairSpec
INVARIANTS
  TimersAreHeld
PROPERTIES
  DueIsObserved
  OutsideIsReleased
CHECK_DEADLOCK FALSE
