-------------------------- MODULE ShipmentCalendar --------------------------
(***************************************************************************)
(* What the planner's calendar offers in every state a shipment can be in. *)
(***************************************************************************)
EXTENDS Shipment, ShipmentProjection

(* The plan a user arrives at who picks one date: earlier stages keep      *)
(* theirs, later ones follow as far as they have to.                       *)
PlanWith(s, stage, date) ==
  [t \in Stages |->
     [date    |-> IF StageRank[t] < StageRank[stage]
                    THEN IF s.plan = NULL THEN WindowOpens(s) ELSE s.plan[t].date
                    ELSE IF t = stage \/ s.plan = NULL \/ s.plan[t].date < date
                           THEN date ELSE s.plan[t].date,
      details |-> NULL]]

(* "The calendar cannot offer a date the backend would then refuse": every *)
(* offered date belongs to a plan the policy accepts, in every state in    *)
(* which a plan can be sent, whichever stages were confirmed early or late.*)
CalendarIsSound ==
  Active(shipment) /\ (shipment.plan = NULL => shipment.currentState = "CREATED") =>
    LET reply == ScheduleReply(shipment, DayOf(shipment.lastEventAt))
    IN  \A stage \in Stages : \A date \in Offered(reply, stage) :
          ValidPlannedDates(shipment, PlanWith(shipment, stage, date))
=============================================================================
