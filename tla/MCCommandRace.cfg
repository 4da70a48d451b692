\* Three requests racing on two shipments.
CONSTANTS
  NULL = NULL
  Places = {p1}
  Temps <- NoTemps
  Dates <- NoDates
  Details = {}
  MaxDays = 1
  MaxExtension = 0
  TicksPerDay = 1
  Aggregates = {a1, a2}
  Commands <- RaceCommands
  Times <- RaceTimes
  Requests = {r1, r2, r3}
  MaxEventsPerQuery = 3
SPECIFICATION Spec
SYMMETRY RequestSymmetry
INVARIANTS
  Gapless
  NoLostUpdate
  ChainLinked
  SequenceFollowsVersion
  AnswerIsTrue
PROPERTIES
  ImplementsLedger
CHECK_DEADLOCK FALSE
