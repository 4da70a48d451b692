--------------------------- MODULE ShipmentReport ---------------------------
(***************************************************************************)
(* What the read side derives from a stream or from folded states: the     *)
(* sensor chart, the report behind the PDF and the CSV, the risk shown     *)
(* beside a shipment, and the figures of the dashboard.  Each of them goes *)
(* over the events in its own way; none has a clock.                       *)
(*                                                                         *)
(* A reading is taken when it is recorded.  Rounded averages, captions and *)
(* free text are left out; every loading names its vessel and voyage, so   *)
(* that the one anomaly of a location left to find is a missing location.  *)
(***************************************************************************)
EXTENDS ShipmentProjection

CONSTANTS
  StaleCreated,  \* instants after which a shipment waits too long for loading
  StaleMoving    \* instants after which one on its way has been quiet too long

ASSUME ReportAssumption == StaleCreated \in Nat /\ StaleMoving \in Nat

-----------------------------------------------------------------------------
(* Readings.                                                               *)

Readings(events) == OfTypes(events, {"TEMPERATURE_RECORDED", "TEMPERATURE_SPIKE"})

Alerts(events) == OfTypes(Readings(events), {"TEMPERATURE_SPIKE"})

(* The extremes and the end points of the readings, as the chart and the   *)
(* report both give them.                                                  *)
Figures(events) ==
  LET readings == Readings(events)
      values   == {reading.payload.value : reading \in ToSet(readings)}
  IN  [count   |-> Len(readings),
       alerts  |-> Len(Alerts(events)),
       lowest  |-> IF values = {} THEN NULL ELSE Min(values),
       highest |-> IF values = {} THEN NULL ELSE Max(values),
       firstAt |-> IF values = {} THEN NULL ELSE Head(readings).at,
       lastAt  |-> IF values = {} THEN NULL ELSE Last(readings).at]

(* The chart at an instant: the readings and the movements up to then,     *)
(* beside the range the container was created with, whatever has been      *)
(* amended since.                                                          *)
Chart(events, instant) ==
  LET visible  == EventsUntil(events, instant)
      creation == Head(events)
  IN  [range    |-> [min |-> creation.payload.minT, max |-> creation.payload.maxT],
       readings |-> Readings(visible),
       markers  |-> OfTypes(visible, MovementEvents \cup {"CONTAINER_CREATED"}),
       summary  |-> Figures(visible)]

-----------------------------------------------------------------------------
(* The report.                                                             *)

ScheduleEvents ==
  {"SHIPMENT_SCHEDULE_PLANNED", "SHIPMENT_SCHEDULE_REVISED", "SHIPMENT_SCHEDULE_EXTENDED"}

(* Mutant: every date is compared with the one planned first.              *)
ShiftsFromOriginal(event) ==
  IF "previous" \notin DOMAIN event.payload THEN {}
  ELSE {[stage |-> stage, from |-> event.payload.plan[stage].original,
         to |-> event.payload.plan[stage].date] : stage \in
          {t \in Stages : event.payload.plan[t].original # event.payload.plan[t].date}}

(* The lines of one change: each stage whose date it moved.                *)
Shifts(event) ==
  IF "previous" \notin DOMAIN event.payload THEN {}
  ELSE {[stage |-> stage, from |-> event.payload.previous[stage].date,
         to |-> event.payload.plan[stage].date] : stage \in
          {t \in Stages : event.payload.previous[t].date # event.payload.plan[t].date}}

ScheduleChange(event) ==
  [kind   |-> event.type,
   by     |-> IF "by" \in DOMAIN event.payload THEN event.payload.by ELSE NULL,
   shifts |-> Shifts(event)]

ScheduleChanges(events) ==
  LET changes == OfTypes(events, ScheduleEvents)
  IN  [i \in DOMAIN changes |-> ScheduleChange(changes[i])]

Lifecycle(s, schedule) ==
  [stage \in Stages |->
     IF schedule = NULL THEN [status |-> "UNPLANNED", rescheduled |-> FALSE]
     ELSE [status      |-> schedule.stages[stage].status,
           rescheduled |-> schedule.stages[stage].original # schedule.stages[stage].date]]

Report(events, today) ==
  LET s        == Replay(events)
      schedule == IF s.plan = NULL THEN NULL ELSE Summary(s, today)
      duration == IF schedule = NULL THEN NULL ELSE schedule.duration
  IN  [status        |-> s.currentState,
       archived      |-> s.archived,
       version       |-> s.version,
       lastAt        |-> s.lastEventAt,
       originalDays  |-> s.originalDays,
       days          |-> s.days,
       extendedBy    |-> s.extendedBy,
       finishedEarly |-> IF duration = NULL THEN NULL ELSE s.originalDays - duration,
       lifecycle     |-> Lifecycle(s, schedule),
       overdue       |-> schedule # NULL /\ schedule.overdue # {},
       changes       |-> ScheduleChanges(events),
       range         |-> [min |-> s.minT, max |-> s.maxT],
       figures       |-> Figures(events)]

-----------------------------------------------------------------------------
(* Risk.                                                                   *)

Delayed(d) == d.schedule.plan # NULL /\ d.schedule.overdue # {}

LongInCurrentState(d, instant) ==
  /\ d.currentState # "UNLOADED"
  /\ instant - d.lastEventAt > (IF d.currentState = "CREATED" THEN StaleCreated
                                                              ELSE StaleMoving)

LocationAnomaly(d) ==
  d.location = NULL /\ d.currentState \in {"IN_TRANSIT", "AT_PORT", "UNLOADED"}

RiskScore(d, instant, damaged) ==
  LET points(holds, n) == IF holds THEN n ELSE 0
  IN  points(d.breaches > 0, 30) + points(Delayed(d), 25)
        + points(LongInCurrentState(d, instant), 15)
        + points(LocationAnomaly(d), 20) + points(damaged, 10)

RiskLevel(score) ==
  CASE score >= 70               -> "High"
    [] score >= 35 /\ score < 70 -> "Medium"
    [] score < 35                -> "Low"

Risk(d, instant, damaged) ==
  LET score == RiskScore(d, instant, damaged)
  IN  [score |-> score, level |-> RiskLevel(score)]

(* Mutant: the risk is that of the stored document.                        *)
ServedStoredRisk(d, instant, damaged) ==
  [shipment |-> Live(d, DayOf(instant)), risk |-> Risk(d, instant, damaged)]

(* A document as a query serves it at an instant: with the schedule of that*)
(* day, and the risk of the two together.                                  *)
Served(d, instant, damaged) ==
  LET live == Live(d, DayOf(instant))
  IN  [shipment |-> live, risk |-> Risk(live, instant, damaged)]

-----------------------------------------------------------------------------
(* The dashboard, over the shipments a read of the whole model found.      *)

(* The document keeps the instant of unloading as a field of its own.      *)
UnloadedAt(s) == IF s.confirmed[LastStage] = NULL THEN NULL ELSE s.confirmed[LastStage].at

Completed(s) == UnloadedAt(s) # NULL

(* Counted in instants, not days, against the duration in force.           *)
OnTime(s) == UnloadedAt(s) - s.createdAt <= s.days * TicksPerDay

ByState(shipments) ==
  [state \in ShipmentStates |->
     Cardinality({a \in DOMAIN shipments : shipments[a].currentState = state})]

Metrics(shipments) ==
  LET ids       == DOMAIN shipments
      completed == {a \in ids : Completed(shipments[a])}
  IN  [total        |-> Cardinality(ids),
       active       |-> Cardinality({a \in ids : ~shipments[a].archived}),
       archived     |-> Cardinality({a \in ids : shipments[a].archived}),
       byState      |-> ByState(shipments),
       withBreaches |-> Cardinality({a \in ids : shipments[a].breaches > 0}),
       breaches     |-> SumFunction([a \in ids |-> shipments[a].breaches]),
       completed    |-> Cardinality(completed),
       onTime       |-> Cardinality({a \in completed : OnTime(shipments[a])})]
=============================================================================
