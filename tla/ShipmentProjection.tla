------------------------- MODULE ShipmentProjection -------------------------
(***************************************************************************)
(* The read model's document of one shipment: what is stored of a folded   *)
(* state, how the state is restored from it before the next event is       *)
(* applied, how a query brings its schedule up to date, and what a drift   *)
(* report compares.  Nothing here has a clock: `today' is the UTC day the  *)
(* source would read from one.                                             *)
(*                                                                         *)
(* Every stage of a stored plan carries a date, so the status UNPLANNED of *)
(* the source is that of a shipment without a schedule.                    *)
(***************************************************************************)
EXTENDS ShipmentDomain

(* The first stage not confirmed, NULL once all are.                       *)
NextStage(confirmed) ==
  LET open == {stage \in Stages : confirmed[stage] = NULL}
  IN  IF open = {} THEN NULL
      ELSE CHOOSE stage \in open : \A t \in open : StageRank[stage] <= StageRank[t]

(* What one stage of a planned shipment looks like on a given day.  Of a   *)
(* confirmed stage nothing depends on the day, and its variance is counted *)
(* again from the plan in force.                                           *)
StageStatus(s, stage, today) ==
  LET entry     == s.plan[stage]
      done      == s.confirmed[stage]
      isNext    == stage = NextStage(s.confirmed)
      overdueBy == IF done = NULL /\ entry.date < today THEN today - entry.date ELSE 0
  IN  [status    |-> CASE done # NULL                -> "CONFIRMED"
                       [] isNext /\ overdueBy > 0    -> "OVERDUE"
                       [] isNext /\ overdueBy = 0    -> "IN_PROGRESS"
                       [] done = NULL /\ ~isNext     -> "PLANNED",
       date      |-> entry.date,
       original  |-> entry.original,
       details   |-> entry.details,
       at        |-> IF done = NULL THEN NULL ELSE done.at,
       variance  |-> IF done = NULL THEN NULL ELSE DayOf(done.at) - entry.date,
       overdueBy |-> overdueBy]

(* The schedule as the read model, the API and the reports all show it.    *)
Summary(s, today) ==
  LET stages   == [stage \in Stages |-> StageStatus(s, stage, today)]
      overdue  == {stage \in Stages : stages[stage].status = "OVERDUE"}
      next     == NextStage(s.confirmed)
      finished == IF next = NULL THEN stages[LastStage].at ELSE NULL
  IN  [stages             |-> stages,
       plan               |-> s.plan,
       originalPlan       |-> s.originalPlan,
       nextStage          |-> next,
       nextDate           |-> IF next = NULL THEN NULL ELSE s.plan[next].date,
       completion         |-> WindowCloses(s),
       originalCompletion |-> DayOf(s.createdAt) + s.originalDays,
       finishedAt         |-> finished,
       duration           |-> IF finished = NULL THEN NULL
                              ELSE DayOf(finished) - DayOf(s.createdAt),
       overdue            |-> overdue,
       maxOverdue         |-> Max({0} \cup {stages[stage].overdueBy : stage \in overdue})]

(* What is stored instead of a summary when nothing was planned.           *)
NoSchedule == [plan |-> NULL, originalPlan |-> NULL]

(* The document written on a given day.                                    *)
Document(s, today) ==
  [version |-> s.version, currentState |-> s.currentState,
   archived |-> s.archived, origin |-> s.origin,
   originPair |-> s.originPair, location |-> s.location, minT |-> s.minT,
   maxT |-> s.maxT, latest |-> s.latest, breaches |-> s.breaches,
   createdAt |-> s.createdAt, lastEventAt |-> s.lastEventAt,
   days |-> s.days, originalDays |-> s.originalDays,
   extendedBy |-> s.extendedBy,
   schedule |-> IF s.plan = NULL THEN NoSchedule ELSE Summary(s, today)]

(* Mutant: the confirmed stages are not restored.                          *)
RestoredWithoutStages(d) == [stage \in Stages |-> NULL]

(* The confirmations a document still tells: those of a planned shipment.  *)
RestoredStages(d) ==
  [stage \in Stages |->
     IF d.schedule.plan = NULL THEN NULL
     ELSE LET entry == d.schedule.stages[stage]
          IN  IF entry.status # "CONFIRMED" THEN NULL
              ELSE [at |-> entry.at, planned |-> entry.date,
                    variance |-> entry.variance]]

(* The state an incremental update starts from.                            *)
StateFrom(d) ==
  [version |-> d.version, currentState |-> d.currentState,
   archived |-> d.archived, origin |-> d.origin,
   originPair |-> d.originPair, location |-> d.location, minT |-> d.minT,
   maxT |-> d.maxT, latest |-> d.latest, breaches |-> d.breaches,
   createdAt |-> d.createdAt, lastEventAt |-> d.lastEventAt,
   days |-> d.days, originalDays |-> d.originalDays,
   extendedBy |-> d.extendedBy,
   plan |-> d.schedule.plan, originalPlan |-> d.schedule.originalPlan,
   confirmed |-> RestoredStages(d)]

(* A query answers with the stored plan and the status it has today.       *)
Live(d, today) ==
  IF d.schedule.plan = NULL THEN d
  ELSE [d EXCEPT !.schedule = Summary(StateFrom(d), today)]

(* What a drift report lists: the fields in which the stored document      *)
(* differs from a replay projected today.                                  *)
Differences(expected, d) == {field \in DOMAIN expected : expected[field] # d[field]}

-----------------------------------------------------------------------------
(* The schedule query.                                                     *)

(* The earliest date the query offers for a stage: the latest of those     *)
(* before it, a confirmed one counting with the day it happened, a planned *)
(* one with its date.  (Confirmed stages come first and in order, so the   *)
(* running floor of the source is this maximum.)                           *)
Floor(s, stage) ==
  LET before == {t \in Stages : StageRank[t] < StageRank[stage]}
  IN  Max({WindowOpens(s)}
          \cup {DayOf(s.confirmed[t].at) : t \in {u \in before : s.confirmed[u] # NULL}}
          \cup {s.plan[t].date : t \in {u \in before : /\ s.confirmed[u] = NULL
                                                      /\ s.plan # NULL}})

(* The dates offered for a stage; one that was confirmed is history.       *)
Bounds(s, stage) ==
  IF s.confirmed[stage] # NULL THEN NULL
  ELSE [min |-> Floor(s, stage), max |-> WindowCloses(s)]

(* GET /shipment/:id/schedule: the plan, where every stage stands today,   *)
(* and what the calendar may offer.  A shipment without a plan has no      *)
(* stages to show.                                                         *)
ScheduleReply(s, today) ==
  LET stages == IF s.plan = NULL THEN NULL ELSE Summary(s, today).stages
  IN  [version  |-> s.version,
       opens    |-> WindowOpens(s),
       closes   |-> WindowCloses(s),
       plan     |-> s.plan,
       stages   |-> stages,
       overdue  |-> stages # NULL /\ Summary(s, today).overdue # {},
       complete |-> stages # NULL /\ NextStage(s.confirmed) = NULL,
       bounds   |-> [stage \in Stages |-> Bounds(s, stage)]]

(* Mutant: the planner shows what the query offers.                        *)
OfferedByQuery(reply, stage) ==
  IF reply.bounds[stage] = NULL THEN {}
  ELSE reply.bounds[stage].min .. reply.bounds[stage].max

(* The dates the planner offers: none for a stage that was confirmed, and  *)
(* none before the date its draft, which starts as the plan of the reply,  *)
(* has for the stage before.                                               *)
Offered(reply, stage) ==
  LET preceding == {t \in Stages : StageRank[t] + 1 = StageRank[stage] /\ reply.plan # NULL}
  IN  IF reply.bounds[stage] = NULL THEN {}
      ELSE Max({reply.bounds[stage].min} \cup {reply.plan[t].date : t \in preceding})
             .. reply.bounds[stage].max

=============================================================================
