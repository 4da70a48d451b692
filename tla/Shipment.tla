------------------------------ MODULE Shipment ------------------------------
(***************************************************************************)
(* One shipment taken through any sequence of accepted commands, one at a  *)
(* time.  `shipment' is the folded state the aggregate decides on.  The    *)
(* source folds the whole stream again before every command; folding it    *)
(* one event at a time is the same function.  Ledger.tla keeps the streams *)
(* and states what holds of them.                                          *)
(***************************************************************************)
EXTENDS ShipmentDomain

CONSTANTS
  Commands,    \* commands clients may send
  Times,       \* instants at which events may be stamped
  MaxEvents    \* bound on the number of events

ASSUME ShipmentAssumption ==
  /\ \A c \in Commands : c \in ValidCommands
  /\ Times \subseteq Int /\ MaxEvents \in Nat

VARIABLE shipment

Init == shipment = InitialShipment

(* A command is decided on the current state, stamped no earlier than the  *)
(* last event, and if accepted its one event is folded in.                 *)
Handle(c) ==
  \E at \in Times :
    /\ InOrder(shipment, at)
    /\ \E event \in Decide(shipment, c, at) :
         shipment' = ApplyEvent(shipment, event)

Room == shipment.version < MaxEvents

Sent(kind) == {c \in Commands : c.kind = kind}

CreateShipment       == Room /\ \E c \in Sent("create") : Handle(c)
MoveShipment         == Room /\ \E c \in Sent("move") : Handle(c)
TakeReading          == Room /\ \E c \in Sent("temperature") : Handle(c)
AmendShipmentDetails == Room /\ \E c \in Sent("amend") : Handle(c)
PlanFirstSchedule    == Room /\ \E c \in Sent("plan") : Handle(c)
RevisePlan           == Room /\ \E c \in Sent("revise") : Handle(c)
ExtendPlan           == Room /\ \E c \in Sent("extend") : Handle(c)
ArchiveShipment      == Room /\ \E c \in Sent("archive") : Handle(c)
RestoreShipment      == Room /\ \E c \in Sent("restore") : Handle(c)

Next ==
  \/ CreateShipment \/ MoveShipment \/ TakeReading \/ AmendShipmentDetails
  \/ PlanFirstSchedule \/ RevisePlan \/ ExtendPlan
  \/ ArchiveShipment \/ RestoreShipment

Spec == Init /\ [][Next]_shipment

-----------------------------------------------------------------------------
(* Type correctness: the folded state has the shape the reducer promises.  *)

ShipmentType ==
  [version : Nat, currentState : ShipmentStates \cup {NULL},
   archived : BOOLEAN,
   origin : OptionalPlaces, originPair : OptionalPlaces,
   location : OptionalPlaces,
   minT : OptionalInts, maxT : OptionalInts, latest : OptionalInts,
   breaches : Nat, createdAt : OptionalInts, lastEventAt : OptionalInts,
   days : OptionalInts, originalDays : OptionalInts, extendedBy : Int,
   plan : PlanEntries \cup {NULL}, originalPlan : PlanEntries \cup {NULL},
   confirmed : [Stages -> Confirmations \cup {NULL}]]

TypeOK ==
  /\ shipment \in ShipmentType
  /\ Exists(shipment) <=> shipment.version > 0

-----------------------------------------------------------------------------
(* Safety.                                                                 *)

Confirmed(stage) == shipment.confirmed[stage] # NULL

(* The confirmed stages are always a prefix of the lifecycle, they carry   *)
(* non-decreasing instants, and the last of them is what currentState      *)
(* says: no history describes a container that arrived before it was       *)
(* loaded, or a state no movement event accounts for.                      *)
LifecycleOrder ==
  /\ \A s, t \in Stages :
       StageRank[s] < StageRank[t] /\ Confirmed(t) =>
         Confirmed(s) /\ shipment.confirmed[s].at <= shipment.confirmed[t].at
  /\ \A s \in Stages : Confirmed(s) <=>
       \E t \in Stages : /\ StageRank[s] <= StageRank[t]
                         /\ shipment.currentState = ReachedState[t]

(* Whatever sequence of plans, revisions and extensions was recorded, and  *)
(* however they interleaved with confirmations, the plan in force follows  *)
(* the lifecycle order and lies inside the window of the duration in force.*)
PlanFitsWindow ==
  shipment.plan # NULL =>
    /\ \A stage \in Stages :
         /\ WindowOpens(shipment) <= shipment.plan[stage].date
         /\ shipment.plan[stage].date <= WindowCloses(shipment)
    /\ \A s, t \in Stages : StageRank[s] < StageRank[t] =>
         shipment.plan[s].date <= shipment.plan[t].date

(* "What was originally promised" has two answers in the state, the        *)
(* original plan and the original date each stage carries; revisions and   *)
(* extensions never let them drift apart.                                  *)
OriginalsAgree ==
  /\ shipment.plan = NULL <=> shipment.originalPlan = NULL
  /\ shipment.plan # NULL => \A stage \in Stages :
       shipment.plan[stage].original = shipment.originalPlan[stage].date

(* A confirmed stage of a planned shipment was confirmed against exactly   *)
(* the date the plan still shows for it.  It needs two rules together: a   *)
(* confirmed stage is never re-planned, and no plan can be made once a     *)
(* stage was confirmed without one.  The read model rebuilds its           *)
(* confirmations from the plan, so it relies on this.                      *)
ConfirmedAgainstPlan ==
  shipment.plan # NULL => \A stage \in Stages : Confirmed(stage) =>
    shipment.confirmed[stage].planned = shipment.plan[stage].date

(* The duration never shrinks below what was first estimated, and never    *)
(* grows by more than the days formally booked by extensions.              *)
GrowthIsBooked ==
  Exists(shipment) =>
    /\ shipment.originalDays <= shipment.days
    /\ shipment.days <= shipment.originalDays + shipment.extendedBy

(* A declared range is whole: both bounds or neither, in order, however    *)
(* amendments were combined with what creation declared.                   *)
RangeIsWhole ==
  /\ shipment.minT = NULL <=> shipment.maxT = NULL
  /\ shipment.minT # NULL => shipment.minT <= shipment.maxT

KeepsHistory ==
  /\ \A stage \in Stages : Confirmed(stage) =>
       /\ shipment'.confirmed[stage] = shipment.confirmed[stage]
       /\ shipment.plan # NULL =>
            shipment'.plan[stage].date = shipment.plan[stage].date
  /\ shipment.originalPlan # NULL =>
       shipment'.originalPlan = shipment.originalPlan
  /\ Exists(shipment) =>
       /\ shipment'.originalDays = shipment.originalDays
       /\ shipment'.createdAt = shipment.createdAt

(* Facts about the past never change: a confirmation, the original plan,   *)
(* the original duration and the planned date of a confirmed stage are the *)
(* same after every later step.                                            *)
HistoryIsFrozen == [][KeepsHistory]_shipment
=============================================================================
