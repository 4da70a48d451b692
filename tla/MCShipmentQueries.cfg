\* Two shipments, up to four events, one query at a time.
CONSTANTS
  NULL = NULL
  Places = {p1}
  Temps <- QueryTemps
  Dates <- QueryDates
  Details = {}
  MaxDays = 1
  MaxExtension = 1
  TicksPerDay = 1
  StaleCreated = 0
  StaleMoving = 0
  Aggregates = {a1, a2}
  Commands <- QueryCommands
  Times <- QueryTimes
  MaxVersion = 5
  PageSize = 1
  MaxEvents = 4
SPECIFICATION QueriesSpec
SYMMETRY Symmetry
INVARIANTS
  TimeTravelIsPrefix
  DocumentIsReplay
  ReplyIsCurrent
  TotalIsTrue
  ViewsAgree
  TamperingIsNoticed
CHECK_DEADLOCK FALSE
