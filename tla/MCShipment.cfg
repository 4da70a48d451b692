\* Every command: planning, revising, extending, confirming, amending
CONSTANTS
  NULL = NULL
  Places = {dock}
  Temps <- ShipmentTemps
  Dates <- ShipmentDates
  Details = {}
  MaxDays = 2
  MaxExtension = 2
  TicksPerDay = 2
  Commands <- ShipmentCommands
  Times <- ShipmentTimes
  MaxEvents = 7
SPECIFICATION Spec
INVARIANTS
  TypeOK
  LifecycleOrder
  PlanFitsWindow
  OriginalsAgree
  ConfirmedAgainstPlan
  GrowthIsBooked
  RangeIsWhole
  CalendarIsSound
PROPERTIES
  HistoryIsFrozen
CHECK_DEADLOCK FALSE
