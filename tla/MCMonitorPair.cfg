\* Two monitor processes and operators on one shipment
CONSTANTS
  NULL = NULL
  Shipments = {s1}
  Existing = {s1}
  Processes = {p1,p2}
  Handles = {1, 2}
  Registrations = {}
  Source = "external"
  Lags = {0,1}
  Interval = 1
  FirstDelay = 1
  MaxCatchUp = 1
  MaxTime = 1
  MaxCommands = 2
  MaxFaults = 0
SPECIFICATION Spec
INVARIANTS
  ObservationsAreSpaced
  NothingAfterTheWindow
SYMMETRY Symmetry
CHECK_DEADLOCK FALSE
