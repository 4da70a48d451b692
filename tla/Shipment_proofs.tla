-------------------------- MODULE Shipment_proofs --------------------------
(***************************************************************************)
(* The rules of Shipment.tla hold for every set of commands, places,       *)
(* temperatures, dates and instants.                                       *)
(***************************************************************************)
EXTENDS ShipmentCalendar, TLAPS

-----------------------------------------------------------------------------
(* The inductive invariant.                                                *)

(* What the folded state of a shipment that exists always carries, and     *)
(* what one that does not exist never carries.                             *)
Shape ==
  IF Exists(shipment)
    THEN /\ shipment.createdAt \in Int /\ shipment.lastEventAt \in Int
         /\ shipment.days \in Int /\ shipment.originalDays \in Int
         /\ shipment.extendedBy \in Nat
         /\ \A stage \in Stages : Confirmed(stage) =>
              shipment.confirmed[stage].at <= shipment.lastEventAt
    ELSE shipment = InitialShipment

Inv ==
  /\ TypeOK
  /\ Shape
  /\ LifecycleOrder
  /\ PlanFitsWindow
  /\ OriginalsAgree
  /\ ConfirmedAgainstPlan
  /\ GrowthIsBooked
  /\ RangeIsWhole

-----------------------------------------------------------------------------
(* The vocabulary.                                                         *)

(* A calendar day is an integer.                                           *)
LEMMA DayIsInt ==
  ASSUME NEW instant \in Int
  PROVE  DayOf(instant) \in Int
BY DomainAssumption DEF DayOf

(* The tables over the three stages.                                       *)
LEMMA StageTables ==
  /\ StageRank["LOAD_ON_SHIP"] = 1 /\ StageRank["ARRIVE_AT_PORT"] = 2
  /\ StageRank["UNLOAD_FROM_SHIP"] = 3
  /\ ReachedState["LOAD_ON_SHIP"] = "IN_TRANSIT"
  /\ ReachedState["ARRIVE_AT_PORT"] = "AT_PORT"
  /\ ReachedState["UNLOAD_FROM_SHIP"] = "UNLOADED"
  /\ RequiredState["LOAD_ON_SHIP"] = "CREATED"
  /\ RequiredState["ARRIVE_AT_PORT"] = "IN_TRANSIT"
  /\ RequiredState["UNLOAD_FROM_SHIP"] = "AT_PORT"
  /\ \A stage \in Stages : ConfirmingEvent[stage] \in MovementEvents
BY DEF StageRank, ReachedState, RequiredState, ConfirmingEvent, Stages, MovementEvents

(* No other event is taken for a movement.                                 *)
LEMMA MovementTypes ==
  MovementEvents = {"LOADED_ON_SHIP", "ARRIVED_AT_PORT", "UNLOADED_FROM_SHIP"}
<1>. ConfirmingEvent["LOAD_ON_SHIP"] = "LOADED_ON_SHIP"
     /\ ConfirmingEvent["ARRIVE_AT_PORT"] = "ARRIVED_AT_PORT"
     /\ ConfirmingEvent["UNLOAD_FROM_SHIP"] = "UNLOADED_FROM_SHIP"
  BY DEF ConfirmingEvent, Stages
<1>. QED
  BY DEF MovementEvents, Stages

(* A command of a kind has the fields the validator of that kind requires. *)
LEMMA CommandOfKind ==
  ASSUME NEW c \in Commands
  PROVE  /\ c.kind = "create" => c \in CreateCommands
         /\ c.kind = "move" => c \in MoveCommands
         /\ c.kind = "temperature" => c \in TemperatureCommands
         /\ c.kind = "amend" => c \in AmendCommands
         /\ c.kind = "plan" => c \in PlanCommands
         /\ c.kind = "revise" => c \in ReviseCommands
         /\ c.kind = "extend" => c \in ExtendCommands
BY ShipmentAssumption
   DEF ValidCommands, CreateCommands, MoveCommands, TemperatureCommands, AmendCommands,
       PlanCommands, ReviseCommands, ExtendCommands, ArchiveCommands, RestoreCommands

-----------------------------------------------------------------------------
(* What each command does to the state, read off the aggregate and the     *)
(* reducer together.                                                       *)

LEMMA CreateEffect ==
  ASSUME NEW c, c.kind = "create", NEW at, NEW event \in Decide(shipment, c, at)
  PROVE  /\ ~Exists(shipment)
         /\ ApplyEvent(shipment, event) =
              [shipment EXCEPT !.version = shipment.version + 1, !.lastEventAt = at,
                 !.currentState = "CREATED", !.origin = c.origin,
                 !.originPair = PairOf(c), !.location = c.origin,
                 !.minT = c.minT, !.maxT = c.maxT,
                 !.days = c.days, !.originalDays = c.days, !.createdAt = at]
<1>. DEFINE base == [shipment EXCEPT !.version = shipment.version + 1, !.lastEventAt = at]
<1>1. /\ ~Exists(shipment)
      /\ event = Event(shipment, "CONTAINER_CREATED", at,
                       [origin |-> c.origin, originPair |-> PairOf(c),
                        minT |-> c.minT, maxT |-> c.maxT, days |-> c.days])
  BY DEF Decide, Create
<1>2. ApplyEvent(shipment, event) = Created(base, event)
  BY <1>1, MovementTypes DEF ApplyEvent, Event
<1>. QED
  BY <1>1, <1>2 DEF Created, Event

LEMMA MoveEffect ==
  ASSUME NEW c, c.kind = "move", c.stage \in Stages,
         NEW at, NEW event \in Decide(shipment, c, at)
  PROVE  /\ Active(shipment) /\ shipment.currentState = RequiredState[c.stage]
         /\ \E variance \in {NULL, DayOf(at) - PlannedDate(shipment, c.stage)} :
              /\ PlannedDate(shipment, c.stage) = NULL => variance = NULL
              /\ ApplyEvent(shipment, event) =
                   [shipment EXCEPT !.version = shipment.version + 1, !.lastEventAt = at,
                      !.currentState = ReachedState[c.stage], !.location = c.location,
                      !.confirmed = [shipment.confirmed EXCEPT ![c.stage] =
                        [at |-> at, planned |-> PlannedDate(shipment, c.stage),
                         variance |-> variance, version |-> shipment.version + 1]]]
<1>. DEFINE planned == PlannedDate(shipment, c.stage)
            variance == IF planned = NULL THEN NULL ELSE DayOf(at) - planned
            base == [shipment EXCEPT !.version = shipment.version + 1, !.lastEventAt = at]
<1>1. /\ Active(shipment) /\ shipment.currentState = RequiredState[c.stage]
      /\ event = [type |-> ConfirmingEvent[c.stage], version |-> shipment.version + 1,
                  at |-> at,
                  payload |-> [stage |-> c.stage, location |-> c.location,
                               planned |-> planned, variance |-> variance]]
  BY DEF Decide, Move, Event
<1>2. ApplyEvent(shipment, event) = Moved(base, event)
  BY <1>1, StageTables, MovementTypes DEF ApplyEvent
<1>3. ConfirmStage(base, c.stage, event) =
        [shipment.confirmed EXCEPT ![c.stage] =
           [at |-> at, planned |-> planned, variance |-> variance,
            version |-> shipment.version + 1]]
  BY <1>1 DEF ConfirmStage, Or, PlannedDate
<1>. QED
  BY <1>1, <1>2, <1>3 DEF Moved

LEMMA ReadingEffect ==
  ASSUME TypeOK, NEW c, c.kind = "temperature", NEW at, NEW event \in Decide(shipment, c, at)
  PROVE  /\ Active(shipment)
         /\ \E breach \in {0, 1} : ApplyEvent(shipment, event) =
              [shipment EXCEPT !.version = shipment.version + 1, !.lastEventAt = at,
                 !.latest = c.value, !.breaches = shipment.breaches + breach]
<1>. DEFINE base == [shipment EXCEPT !.version = shipment.version + 1, !.lastEventAt = at]
            breach == IF event.type = "TEMPERATURE_SPIKE" THEN 1 ELSE 0
<1>1. Active(shipment) /\ \E type \in {"TEMPERATURE_RECORDED", "TEMPERATURE_SPIKE"} :
        event = Event(shipment, type, at, [value |-> c.value])
  BY DEF Decide, RecordTemperature
<1>2. ApplyEvent(shipment, event) = Sampled(base, event)
  BY <1>1, MovementTypes DEF ApplyEvent, Event, Flagged
<1>3. base.breaches = shipment.breaches
  BY DEF TypeOK, ShipmentType
<1>4. event.payload.value = c.value
  BY <1>1 DEF Event
<1>5. Sampled(base, event) =
        [shipment EXCEPT !.version = shipment.version + 1, !.lastEventAt = at,
           !.latest = c.value, !.breaches = shipment.breaches + breach]
  BY <1>3, <1>4 DEF Sampled, TypeOK, ShipmentType
<1>. breach \in {0, 1}
  OBVIOUS
<1>. QED
  BY <1>1, <1>2, <1>5

(* What an amendment leaves: each field as it was or as the command says,  *)
(* and the two bounds as they were or both written.                        *)
AmendedTo(state, c, at, origin, location, minT, maxT) ==
  /\ origin \in {c.origin, shipment.origin}
  /\ origin = NULL => shipment.origin = NULL
  /\ location \in {origin, shipment.location}
  /\ \/ minT = shipment.minT /\ maxT = shipment.maxT
     \/ /\ minT = Or(c.minT, shipment.minT)
        /\ maxT = Or(c.maxT, shipment.maxT)
        /\ WholeRange(minT, maxT)
  /\ state =
       [shipment EXCEPT !.version = shipment.version + 1, !.lastEventAt = at,
          !.origin = origin, !.originPair = Or(PairOf(c), shipment.originPair),
          !.minT = minT, !.maxT = maxT, !.location = location]

LEMMA AmendEffect ==
  ASSUME TypeOK, NEW c, c.kind = "amend", NEW at, NEW event \in Decide(shipment, c, at)
  PROVE  /\ Active(shipment)
         /\ \E origin, location, minT, maxT :
              AmendedTo(ApplyEvent(shipment, event), c, at, origin, location, minT, maxT)
<1>. DEFINE change(proposed, current) == IF proposed = current THEN NULL ELSE proposed
            base == [shipment EXCEPT !.version = shipment.version + 1, !.lastEventAt = at]
            origin == change(c.origin, shipment.origin)
            touched == \/ change(c.minT, shipment.minT) # NULL
                       \/ change(c.maxT, shipment.maxT) # NULL
            minT == Or(c.minT, shipment.minT)
            maxT == Or(c.maxT, shipment.maxT)
            written(bound) == IF touched THEN bound ELSE NULL
<1>1. /\ Active(shipment) /\ (touched => WholeRange(minT, maxT))
      /\ event = Event(shipment, "SHIPMENT_DETAILS_AMENDED", at,
                       [origin |-> origin, originPair |-> PairOf(c),
                        minT |-> written(minT), maxT |-> written(maxT)])
  BY DEF Decide, Amend
<1>2. ApplyEvent(shipment, event) = Amended(base, event)
  BY <1>1, MovementTypes DEF ApplyEvent, Event
<1>3. Amended(base, event) =
        [shipment EXCEPT !.version = shipment.version + 1, !.lastEventAt = at,
           !.origin = Or(origin, base.origin), !.originPair = Or(PairOf(c), base.originPair),
           !.minT = Or(written(minT), base.minT), !.maxT = Or(written(maxT), base.maxT),
           !.location = IF base.currentState = "CREATED"
                          THEN Or(origin, base.location) ELSE base.location]
  BY <1>1 DEF Amended, Event
<1>4. /\ base.origin = shipment.origin /\ base.originPair = shipment.originPair
      /\ base.minT = shipment.minT /\ base.maxT = shipment.maxT
      /\ base.location = shipment.location
  BY DEF TypeOK, ShipmentType
<1>. DEFINE toOrigin == Or(origin, base.origin)
            toMin == Or(written(minT), base.minT)
            toMax == Or(written(maxT), base.maxT)
            toLocation == IF base.currentState = "CREATED"
                            THEN Or(origin, base.location) ELSE base.location
<1>5. /\ toOrigin \in {c.origin, shipment.origin}
      /\ toOrigin = NULL => shipment.origin = NULL
      /\ toLocation \in {toOrigin, shipment.location}
  BY <1>4 DEF Or
<1>6. \/ toMin = shipment.minT /\ toMax = shipment.maxT
      \/ toMin = minT /\ toMax = maxT /\ WholeRange(minT, maxT)
  BY <1>1, <1>4 DEF Or, WholeRange
<1>7. Or(PairOf(c), base.originPair) = Or(PairOf(c), shipment.originPair)
  BY <1>4
<1>. HIDE DEF toOrigin, toMin, toMax, toLocation, minT, maxT
<1>8. ApplyEvent(shipment, event) =
        [shipment EXCEPT !.version = shipment.version + 1, !.lastEventAt = at,
           !.origin = toOrigin, !.originPair = Or(PairOf(c), shipment.originPair),
           !.minT = toMin, !.maxT = toMax, !.location = toLocation]
  BY <1>2, <1>3, <1>7 DEF toOrigin, toMin, toMax, toLocation, minT, maxT
<1>9. \/ toMin = shipment.minT /\ toMax = shipment.maxT
      \/ /\ toMin = Or(c.minT, shipment.minT)
         /\ toMax = Or(c.maxT, shipment.maxT)
         /\ WholeRange(toMin, toMax)
  BY <1>6, Zenon DEF minT, maxT
<1>10. AmendedTo(ApplyEvent(shipment, event), c, at, toOrigin, toLocation, toMin, toMax)
  BY <1>5, <1>8, <1>9, Zenon DEF AmendedTo
<1>. QED
  BY <1>1, <1>10, Zenon

LEMMA PlanEffect ==
  ASSUME NEW c, c.kind = "plan", NEW at, NEW event \in Decide(shipment, c, at)
  PROVE  /\ Active(shipment) /\ shipment.plan = NULL
         /\ ValidPlannedDates(shipment, c.proposal)
         /\ ApplyEvent(shipment, event) =
              [shipment EXCEPT !.version = shipment.version + 1, !.lastEventAt = at,
                 !.plan = Normalised(shipment, c.proposal),
                 !.originalPlan = Or(shipment.originalPlan,
                                     Normalised(shipment, c.proposal))]
<1>. DEFINE base == [shipment EXCEPT !.version = shipment.version + 1, !.lastEventAt = at]
<1>1. /\ Active(shipment) /\ shipment.plan = NULL
      /\ ValidPlannedDates(shipment, c.proposal)
      /\ event = Event(shipment, "SHIPMENT_SCHEDULE_PLANNED", at,
                       [plan |-> Normalised(shipment, c.proposal)])
  BY DEF Decide, PlanSchedule
<1>2. ApplyEvent(shipment, event) = Planned(base, event)
  BY <1>1, MovementTypes DEF ApplyEvent, Event
<1>. QED
  BY <1>1, <1>2 DEF Planned, Event, Or

LEMMA ReviseEffect ==
  ASSUME NEW c, c.kind = "revise", NEW at, NEW event \in Decide(shipment, c, at)
  PROVE  /\ Active(shipment) /\ shipment.plan # NULL
         /\ ValidPlannedDates(shipment, c.proposal)
         /\ ApplyEvent(shipment, event) =
              [shipment EXCEPT !.version = shipment.version + 1, !.lastEventAt = at,
                 !.plan = Normalised(shipment, c.proposal)]
<1>. DEFINE base == [shipment EXCEPT !.version = shipment.version + 1, !.lastEventAt = at]
<1>1. /\ Active(shipment) /\ shipment.plan # NULL
      /\ ValidPlannedDates(shipment, c.proposal)
      /\ event = Event(shipment, "SHIPMENT_SCHEDULE_REVISED", at,
                       [plan |-> Normalised(shipment, c.proposal),
                        previous |-> shipment.plan])
  BY DEF Decide, ReviseSchedule
<1>2. ApplyEvent(shipment, event) = Revised(base, event)
  BY <1>1, MovementTypes DEF ApplyEvent, Event
<1>. QED
  BY <1>1, <1>2 DEF Revised, Event

LEMMA ExtendEffect ==
  ASSUME NEW c, c.kind = "extend", NEW at, NEW event \in Decide(shipment, c, at)
  PROVE  LET plan == ExtendedPlan(shipment, c.stage, c.days)
         IN  /\ Active(shipment) /\ shipment.plan # NULL
             /\ shipment.confirmed[c.stage] = NULL
             /\ ApplyEvent(shipment, event) =
                  [shipment EXCEPT !.version = shipment.version + 1, !.lastEventAt = at,
                     !.plan = plan, !.days = ExtendedDays(shipment, plan),
                     !.extendedBy = shipment.extendedBy + c.days]
<1>. DEFINE base == [shipment EXCEPT !.version = shipment.version + 1, !.lastEventAt = at]
            plan == ExtendedPlan(shipment, c.stage, c.days)
<1>1. /\ Active(shipment) /\ shipment.plan # NULL
      /\ shipment.confirmed[c.stage] = NULL
      /\ event = Event(shipment, "SHIPMENT_SCHEDULE_EXTENDED", at,
                       [stage |-> c.stage, by |-> c.days, plan |-> plan,
                        previous |-> shipment.plan,
                        days |-> ExtendedDays(shipment, plan)])
  BY DEF Decide, ExtendSchedule
<1>2. ApplyEvent(shipment, event) = Extended(base, event)
  BY <1>1, MovementTypes DEF ApplyEvent, Event
<1>. QED
  BY <1>1, <1>2 DEF Extended, Event

(* What an archival or a restoration leaves: only the flag differs.        *)
FlaggedAs(state, at, archived) ==
  state = [shipment EXCEPT !.version = shipment.version + 1, !.lastEventAt = at,
             !.archived = archived]

LEMMA ArchivalEffect ==
  ASSUME NEW c, c.kind \in {"archive", "restore"},
         NEW at, NEW event \in Decide(shipment, c, at)
  PROVE  /\ Exists(shipment)
         /\ \E archived \in BOOLEAN : FlaggedAs(ApplyEvent(shipment, event), at, archived)
<1>. DEFINE base == [shipment EXCEPT !.version = shipment.version + 1, !.lastEventAt = at]
<1>1. Exists(shipment) /\ \E type \in {"SHIPMENT_ARCHIVED", "SHIPMENT_RESTORED"} :
        event = Event(shipment, type, at, [reason |-> NULL])
  BY DEF Decide, Archive, Restore, Active
<1>2. CASE event = Event(shipment, "SHIPMENT_ARCHIVED", at, [reason |-> NULL])
  <2>1. ApplyEvent(shipment, event) = [base EXCEPT !.archived = TRUE]
    BY <1>2, MovementTypes DEF ApplyEvent, Event, Flagged
  <2>. QED
    BY <1>1, <2>1 DEF FlaggedAs
<1>3. CASE event = Event(shipment, "SHIPMENT_RESTORED", at, [reason |-> NULL])
  <2>1. ApplyEvent(shipment, event) = [base EXCEPT !.archived = FALSE]
    BY <1>3, MovementTypes DEF ApplyEvent, Event, Flagged
  <2>. QED
    BY <1>1, <2>1 DEF FlaggedAs
<1>. QED
  BY <1>1, <1>2, <1>3

-----------------------------------------------------------------------------
(* Preservation.                                                           *)

(* A step that leaves the stages, the plans and the duration alone leaves  *)
(* alone whatever is said of them.                                         *)
LEMMA ScheduleStands ==
  ASSUME Inv, Exists(shipment), TypeOK',
         shipment'.lastEventAt \in Int,
         shipment.lastEventAt <= shipment'.lastEventAt,
         shipment'.currentState = shipment.currentState,
         shipment'.confirmed = shipment.confirmed,
         shipment'.plan = shipment.plan,
         shipment'.originalPlan = shipment.originalPlan,
         shipment'.days = shipment.days,
         shipment'.originalDays = shipment.originalDays,
         shipment'.extendedBy = shipment.extendedBy,
         shipment'.createdAt = shipment.createdAt,
         RangeIsWhole'
  PROVE  Inv'
<1>1. Shape'
  <2>1. \A stage \in Stages : Confirmed(stage) => shipment.confirmed[stage].at \in Int
    BY DEF Inv, TypeOK, ShipmentType, Confirmations, Confirmed
  <2>. QED
    BY <2>1 DEF Inv, Shape, Exists, Confirmed
<1>2. LifecycleOrder'
  BY DEF Inv, LifecycleOrder, Confirmed
<1>3. PlanFitsWindow' /\ OriginalsAgree' /\ ConfirmedAgainstPlan'
  BY DEF Inv, PlanFitsWindow, OriginalsAgree, ConfirmedAgainstPlan, Confirmed,
         WindowOpens, WindowCloses
<1>4. GrowthIsBooked'
  BY DEF Inv, GrowthIsBooked, Exists
<1>. QED
  BY <1>1, <1>2, <1>3, <1>4 DEF Inv

(* Initially there is no shipment, and nothing is said of it.              *)
LEMMA InvInit ==
  ASSUME Init
  PROVE  Inv
<1>1. TypeOK
  BY DEF Init, InitialShipment, TypeOK, ShipmentType, Exists, OptionalPlaces, OptionalInts
<1>2. ~Exists(shipment) /\ shipment.plan = NULL /\ shipment.originalPlan = NULL
      /\ (\A stage \in Stages : ~Confirmed(stage))
      /\ shipment.minT = NULL /\ shipment.maxT = NULL /\ shipment.currentState = NULL
  BY DEF Init, InitialShipment, Exists, Confirmed
<1>3. \A stage \in Stages : ReachedState[stage] # NULL
  BY NullAssumption, StageTables DEF Stages, ShipmentStates
<1>4. LifecycleOrder
  BY <1>2, <1>3 DEF LifecycleOrder
<1>5. Shape
  BY <1>2 DEF Shape, Init
<1>. QED
  BY <1>1, <1>2, <1>4, <1>5
     DEF Inv, PlanFitsWindow, OriginalsAgree, ConfirmedAgainstPlan, GrowthIsBooked,
         RangeIsWhole

(* A first command that creates the shipment.                              *)
LEMMA CreatePreserves ==
  ASSUME Inv, NEW c \in CreateCommands, NEW at \in Times, ~Exists(shipment),
         shipment' =
           [shipment EXCEPT !.version = shipment.version + 1, !.lastEventAt = at,
              !.currentState = "CREATED", !.origin = c.origin,
              !.originPair = PairOf(c), !.location = c.origin,
              !.minT = c.minT, !.maxT = c.maxT,
              !.days = c.days, !.originalDays = c.days, !.createdAt = at]
  PROVE  Inv'
<1>1. /\ c.origin \in Places /\ c.structured \in BOOLEAN /\ c.days \in Int
      /\ c.minT \in OptionalInts /\ c.maxT \in OptionalInts
      /\ \/ c.minT = NULL /\ c.maxT = NULL
         \/ c.minT # NULL /\ c.maxT # NULL /\ c.minT <= c.maxT
  BY DomainAssumption DEF CreateCommands, WholeDays, OptionalInts
<1>2. at \in Int
  BY ShipmentAssumption
<1>3. shipment \in ShipmentType
  BY DEF Inv, TypeOK
<1>4. TypeOK'
  <2>1. PairOf(c) \in OptionalPlaces /\ c.origin \in OptionalPlaces
        /\ at \in OptionalInts /\ c.days \in OptionalInts
    BY <1>1, <1>2 DEF PairOf, OptionalPlaces, OptionalInts
  <2>2. shipment.version + 1 \in Nat
    BY <1>3 DEF ShipmentType
  <2>3. shipment' \in ShipmentType
    BY <1>1, <1>3, <2>1, <2>2 DEF ShipmentType, ShipmentStates
  <2>4. shipment'.version = shipment.version + 1 /\ shipment'.currentState = "CREATED"
        /\ shipment.version \in Nat
    BY <1>3 DEF ShipmentType
  <2>. QED
    BY <2>3, <2>4, NullAssumption DEF TypeOK, Exists, ShipmentStates
<1>. shipment = InitialShipment
  BY DEF Inv, Shape
<1>5. /\ shipment'.plan = NULL /\ shipment'.originalPlan = NULL
      /\ \A stage \in Stages : shipment'.confirmed[stage] = NULL
      /\ shipment'.currentState = "CREATED" /\ shipment'.extendedBy = 0
      /\ shipment'.createdAt = at /\ shipment'.lastEventAt = at
      /\ shipment'.days = c.days /\ shipment'.originalDays = c.days
      /\ shipment'.minT = c.minT /\ shipment'.maxT = c.maxT
  BY <1>3 DEF InitialShipment
<1>6. LifecycleOrder'
  <2>1. \A stage \in Stages : ReachedState[stage] # "CREATED"
    BY StageTables DEF Stages
  <2>. QED
    BY <1>5, <2>1 DEF LifecycleOrder, Confirmed
<1>7. Shape'
  BY <1>1, <1>2, <1>5, NullAssumption DEF Shape, Exists, Confirmed, ShipmentStates
<1>8. PlanFitsWindow' /\ OriginalsAgree' /\ ConfirmedAgainstPlan'
  BY <1>5 DEF PlanFitsWindow, OriginalsAgree, ConfirmedAgainstPlan
<1>9. GrowthIsBooked'
  BY <1>1, <1>5 DEF GrowthIsBooked
<1>10. RangeIsWhole'
  BY <1>1, <1>5 DEF RangeIsWhole
<1>. QED
  BY <1>4, <1>6, <1>7, <1>8, <1>9, <1>10 DEF Inv

(* The stages confirmed before a movement are exactly those before its own.*)
LEMMA MovesInOrder ==
  ASSUME Inv, NEW stage \in Stages, shipment.currentState = RequiredState[stage]
  PROVE  \A t \in Stages : Confirmed(t) <=> StageRank[t] < StageRank[stage]
BY StageTables DEF Inv, LifecycleOrder, Stages

(* What a confirmation records has the type of one.                        *)
LEMMA ConfirmationTyped ==
  ASSUME shipment \in ShipmentType, NEW stage \in Stages, NEW at \in Times,
         NEW variance \in {NULL, DayOf(at) - PlannedDate(shipment, stage)},
         PlannedDate(shipment, stage) = NULL => variance = NULL
  PROVE  [at |-> at, planned |-> PlannedDate(shipment, stage),
          variance |-> variance, version |-> shipment.version + 1] \in Confirmations
<1>1. at \in Int /\ DayOf(at) \in Int
  BY ShipmentAssumption, DayIsInt
<1>2. shipment.version + 1 \in Nat
  BY DEF ShipmentType
<1>3. shipment.plan = NULL \/ shipment.plan \in PlanEntries
  BY DEF ShipmentType
<1>4. PlannedDate(shipment, stage) \in OptionalInts
  BY <1>3 DEF PlannedDate, PlanEntries, OptionalInts
<1>5. variance \in OptionalInts
  BY <1>1, <1>4 DEF OptionalInts
<1>. QED
  BY <1>1, <1>2, <1>4, <1>5 DEF Confirmations

(* A movement confirms the first stage not yet confirmed.                  *)
LEMMA MovePreserves ==
  ASSUME Inv, Exists(shipment), NEW stage \in Stages, NEW location \in Places,
         NEW at \in Times, InOrder(shipment, at),
         shipment.currentState = RequiredState[stage],
         NEW entry \in Confirmations,
         entry.at = at, entry.planned = PlannedDate(shipment, stage),
         shipment' =
           [shipment EXCEPT !.version = shipment.version + 1, !.lastEventAt = at,
              !.currentState = ReachedState[stage], !.location = location,
              !.confirmed = [shipment.confirmed EXCEPT ![stage] = entry]]
  PROVE  Inv'
<1>1. at \in Int /\ shipment \in ShipmentType
  BY ShipmentAssumption DEF Inv, TypeOK
<1>2. /\ shipment'.lastEventAt = at /\ shipment'.currentState = ReachedState[stage]
      /\ shipment'.confirmed = [shipment.confirmed EXCEPT ![stage] = entry]
      /\ shipment'.plan = shipment.plan /\ shipment'.originalPlan = shipment.originalPlan
      /\ shipment'.days = shipment.days /\ shipment'.originalDays = shipment.originalDays
      /\ shipment'.extendedBy = shipment.extendedBy
      /\ shipment'.createdAt = shipment.createdAt
      /\ shipment'.minT = shipment.minT /\ shipment'.maxT = shipment.maxT
      /\ shipment'.version = shipment.version + 1
  BY <1>1 DEF ShipmentType
<1>3. shipment.confirmed \in [Stages -> Confirmations \cup {NULL}]
      /\ shipment.version \in Nat
  BY <1>1 DEF ShipmentType
<1>4. /\ shipment'.confirmed[stage] = entry
      /\ \A t \in Stages \ {stage} : shipment'.confirmed[t] = shipment.confirmed[t]
      /\ entry # NULL
  BY <1>2, <1>3, NullAssumption
<1>5. ReachedState[stage] \in ShipmentStates /\ Exists(shipment)'
  BY <1>2, StageTables, NullAssumption DEF Stages, ShipmentStates, Exists
<1>6. TypeOK'
  <2>1. location \in OptionalPlaces /\ at \in OptionalInts
        /\ shipment.version + 1 \in Nat
        /\ [shipment.confirmed EXCEPT ![stage] = entry]
             \in [Stages -> Confirmations \cup {NULL}]
    BY <1>1, <1>3 DEF OptionalPlaces, OptionalInts
  <2>2. shipment' \in ShipmentType
    BY <1>1, <1>5, <2>1 DEF ShipmentType
  <2>. QED
    BY <1>2, <1>3, <1>5, <2>2 DEF TypeOK
<1>7. /\ shipment.lastEventAt \in Int /\ shipment.lastEventAt <= at
      /\ \A t \in Stages : Confirmed(t) =>
           /\ shipment.confirmed[t].at \in Int
           /\ shipment.confirmed[t].at <= shipment.lastEventAt
  BY <1>3, DomainAssumption DEF Inv, Shape, InOrder, Confirmations, Confirmed
<1>8. Shape'
  BY <1>1, <1>2, <1>4, <1>5, <1>7 DEF Inv, Shape, Exists, Confirmed
<1>9. LifecycleOrder'
  <2>1. \A t \in Stages : Confirmed(t)' <=> StageRank[t] <= StageRank[stage]
    <3>1. \A t \in Stages : StageRank[t] \in Int
      BY StageTables DEF Stages
    <3>2. \A t \in Stages : StageRank[t] = StageRank[stage] => t = stage
      BY StageTables DEF Stages
    <3>. QED
      BY <1>4, <3>1, <3>2, MovesInOrder DEF Confirmed
  <2>2. \A s, t \in Stages : StageRank[s] < StageRank[t] /\ Confirmed(t)' =>
          shipment'.confirmed[s].at <= shipment'.confirmed[t].at
    <3>1. SUFFICES ASSUME NEW s \in Stages, NEW t \in Stages,
                          StageRank[s] < StageRank[t], Confirmed(t)'
                   PROVE  shipment'.confirmed[s].at <= shipment'.confirmed[t].at
      OBVIOUS
    <3>2. StageRank[s] < StageRank[stage] /\ s # stage /\ Confirmed(s)
      BY <2>1, <3>1, MovesInOrder, StageTables DEF Stages
    <3>3. CASE t = stage
      BY <1>1, <1>4, <1>7, <3>2, <3>3
    <3>4. CASE t # stage
      <4>1. Confirmed(t)
        BY <1>4, <3>1, <3>4 DEF Confirmed
      <4>. QED
        BY <1>4, <3>1, <3>2, <3>4, <4>1 DEF Inv, LifecycleOrder
    <3>. QED
      BY <3>3, <3>4
  <2>3. \A t, u \in Stages : ReachedState[t] = ReachedState[u] => t = u
    BY StageTables DEF Stages
  <2>4. \A s \in Stages : Confirmed(s)' <=>
          \E t \in Stages : /\ StageRank[s] <= StageRank[t]
                            /\ shipment'.currentState = ReachedState[t]
    BY <1>2, <2>1, <2>3
  <2>5. \A s, t \in Stages : StageRank[s] < StageRank[t] /\ Confirmed(t)' => Confirmed(s)'
    BY <2>1, StageTables DEF Stages
  <2>. QED
    BY <2>2, <2>4, <2>5 DEF LifecycleOrder
<1>10. PlanFitsWindow' /\ OriginalsAgree'
  BY <1>2 DEF Inv, PlanFitsWindow, OriginalsAgree, WindowOpens, WindowCloses
<1>11. ConfirmedAgainstPlan'
  BY <1>2, <1>4 DEF Inv, ConfirmedAgainstPlan, Confirmed, PlannedDate
<1>12. GrowthIsBooked' /\ RangeIsWhole'
  BY <1>2 DEF Inv, GrowthIsBooked, RangeIsWhole
<1>. QED
  BY <1>6, <1>8, <1>9, <1>10, <1>11, <1>12 DEF Inv

(* A reading changes nothing the rules speak of.                           *)
LEMMA ReadingPreserves ==
  ASSUME Inv, Exists(shipment), NEW value \in Int, NEW breach \in {0, 1},
         NEW at \in Times, InOrder(shipment, at),
         shipment' =
           [shipment EXCEPT !.version = shipment.version + 1, !.lastEventAt = at,
              !.latest = value, !.breaches = shipment.breaches + breach]
  PROVE  Inv'
<1>1. at \in Int /\ shipment \in ShipmentType
  BY ShipmentAssumption DEF Inv, TypeOK
<1>2. at \in OptionalInts /\ value \in OptionalInts
      /\ shipment.version + 1 \in Nat /\ shipment.breaches + breach \in Nat
  BY <1>1 DEF OptionalInts, ShipmentType
<1>3. shipment' \in ShipmentType
  BY <1>1, <1>2 DEF ShipmentType
<1>4. TypeOK'
  BY <1>1, <1>3 DEF TypeOK, Exists, ShipmentType
<1>5. shipment.lastEventAt <= at
  BY DomainAssumption DEF Inv, Shape, InOrder
<1>. QED
  BY <1>1, <1>4, <1>5, ScheduleStands DEF ShipmentType, Inv, RangeIsWhole

(* Nor does an archival or a restoration.                                  *)
LEMMA ArchivalPreserves ==
  ASSUME Inv, Exists(shipment), NEW archived \in BOOLEAN,
         NEW at \in Times, InOrder(shipment, at),
         shipment' =
           [shipment EXCEPT !.version = shipment.version + 1, !.lastEventAt = at,
              !.archived = archived]
  PROVE  Inv'
<1>1. at \in Int /\ shipment \in ShipmentType
  BY ShipmentAssumption DEF Inv, TypeOK
<1>2. at \in OptionalInts /\ shipment.version + 1 \in Nat
  BY <1>1 DEF OptionalInts, ShipmentType
<1>3. shipment' \in ShipmentType
  BY <1>1, <1>2 DEF ShipmentType
<1>4. TypeOK'
  BY <1>1, <1>3 DEF TypeOK, Exists, ShipmentType
<1>5. shipment.lastEventAt <= at
  BY DomainAssumption DEF Inv, Shape, InOrder
<1>. QED
  BY <1>1, <1>4, <1>5, ScheduleStands DEF ShipmentType, Inv, RangeIsWhole

(* An amendment that writes the range writes a whole one.                  *)
LEMMA AmendPreserves ==
  ASSUME Inv, Exists(shipment), NEW c \in AmendCommands,
         NEW at \in Times, InOrder(shipment, at),
         NEW origin, NEW location, NEW minT, NEW maxT,
         AmendedTo(shipment', c, at, origin, location, minT, maxT)
  PROVE  Inv'
<1>1. at \in Int /\ shipment \in ShipmentType
  BY ShipmentAssumption DEF Inv, TypeOK
<1>2. /\ c.origin \in OptionalPlaces /\ c.minT \in OptionalInts
      /\ c.maxT \in OptionalInts /\ PairOf(c) \in OptionalPlaces
  BY DomainAssumption DEF AmendCommands, OptionalPlaces, OptionalInts, PairOf
<1>3. /\ at \in OptionalInts /\ shipment.version + 1 \in Nat
      /\ origin \in OptionalPlaces /\ location \in OptionalPlaces
      /\ minT \in OptionalInts /\ maxT \in OptionalInts
      /\ Or(PairOf(c), shipment.originPair) \in OptionalPlaces
  BY <1>1, <1>2 DEF AmendedTo, OptionalInts, ShipmentType, Or
<1>4. shipment' =
        [shipment EXCEPT !.version = shipment.version + 1, !.lastEventAt = at,
           !.origin = origin, !.originPair = Or(PairOf(c), shipment.originPair),
           !.minT = minT, !.maxT = maxT, !.location = location]
  BY DEF AmendedTo
<1>5. shipment' \in ShipmentType
  BY <1>1, <1>3, <1>4 DEF ShipmentType
<1>6. TypeOK'
  BY <1>1, <1>4, <1>5 DEF TypeOK, Exists, ShipmentType
<1>7. RangeIsWhole'
  <2>1. shipment'.minT = minT /\ shipment'.maxT = maxT
    BY <1>1, <1>4 DEF ShipmentType
  <2>. QED
    BY <2>1 DEF AmendedTo, WholeRange, Inv, RangeIsWhole
<1>8. shipment.lastEventAt <= at
  BY DomainAssumption DEF Inv, Shape, InOrder
<1>. QED
  BY <1>1, <1>4, <1>6, <1>7, <1>8, ScheduleStands DEF ShipmentType

(* The stored form of a proposal: the proposed dates, and the originals    *)
(* already on record where there are any.                                  *)
LEMMA NormalisedPlan ==
  ASSUME shipment \in ShipmentType, NEW proposal \in Proposals
  PROVE  /\ Normalised(shipment, proposal) \in PlanEntries
         /\ \A stage \in Stages :
              /\ Normalised(shipment, proposal)[stage].date = proposal[stage].date
              /\ Normalised(shipment, proposal)[stage].original =
                   IF shipment.plan = NULL THEN proposal[stage].date
                                           ELSE shipment.plan[stage].original
<1>1. \A stage \in Stages : proposal[stage].date \in Int
                           /\ proposal[stage].details \in Details \cup {NULL}
  BY DomainAssumption DEF Proposals
<1>2. shipment.plan = NULL \/ shipment.plan \in PlanEntries
  BY DEF ShipmentType
<1>3. \A stage \in Stages : shipment.plan # NULL =>
        shipment.plan[stage].original \in Int
        /\ shipment.plan[stage].details \in Details \cup {NULL}
  BY <1>2 DEF PlanEntries
<1>. QED
  BY <1>1, <1>3 DEF Normalised, PlanEntries, Or

(* Any plan that passes the schedule policy, first or revised, fits, keeps *)
(* the originals, and agrees with what was confirmed.                      *)
LEMMA PlanningPreserves ==
  ASSUME Inv, Exists(shipment), TypeOK',
         NEW proposal \in Proposals, ValidPlannedDates(shipment, proposal),
         shipment'.lastEventAt \in Int,
         shipment.lastEventAt <= shipment'.lastEventAt,
         shipment'.currentState = shipment.currentState,
         shipment'.confirmed = shipment.confirmed,
         shipment'.days = shipment.days,
         shipment'.originalDays = shipment.originalDays,
         shipment'.extendedBy = shipment.extendedBy,
         shipment'.createdAt = shipment.createdAt,
         shipment'.minT = shipment.minT,
         shipment'.maxT = shipment.maxT,
         shipment'.plan = Normalised(shipment, proposal),
         shipment'.originalPlan = IF shipment.plan = NULL
                                    THEN Normalised(shipment, proposal)
                                    ELSE shipment.originalPlan
  PROVE  Inv'
<1>1. shipment \in ShipmentType /\ shipment'.plan \in PlanEntries
  BY NormalisedPlan DEF Inv, TypeOK
<1>2. shipment'.plan # NULL
  BY <1>1, NullAssumption
<1>3. \A stage \in Stages :
        /\ shipment'.plan[stage].date = proposal[stage].date
        /\ shipment'.plan[stage].original =
             IF shipment.plan = NULL THEN proposal[stage].date
                                     ELSE shipment.plan[stage].original
  BY <1>1, NormalisedPlan
<1>4. \A stage \in Stages : Confirmed(stage) => shipment.confirmed[stage].at \in Int
  BY <1>1 DEF ShipmentType, Confirmations, Confirmed
<1>5. Shape'
  BY <1>4 DEF Inv, Shape, Exists, Confirmed
<1>6. LifecycleOrder'
  BY DEF Inv, LifecycleOrder, Confirmed
<1>7. PlanFitsWindow'
  <2>1. \A stage \in Stages : /\ WindowOpens(shipment) <= proposal[stage].date
                              /\ proposal[stage].date <= WindowCloses(shipment)
    BY DEF ValidPlannedDates
  <2>2. \A stage \in Stages : proposal[stage].date \in Int
    BY DomainAssumption DEF Proposals
  <2>3. \A s, t \in Stages : StageRank[s] < StageRank[t] =>
          proposal[s].date <= proposal[t].date
    BY <2>2, StageTables DEF ValidPlannedDates, Stages
  <2>. QED
    BY <1>3, <2>1, <2>3 DEF PlanFitsWindow, WindowOpens, WindowCloses
<1>8. OriginalsAgree'
  <2>1. CASE shipment.plan = NULL
    BY <1>2, <1>3, <2>1 DEF OriginalsAgree
  <2>2. CASE shipment.plan # NULL
    BY <1>2, <1>3, <2>2 DEF Inv, OriginalsAgree
  <2>. QED
    BY <2>1, <2>2
<1>9. ConfirmedAgainstPlan'
  BY <1>3 DEF ConfirmedAgainstPlan, Confirmed, ValidPlannedDates, KeepsConfirmedDates
<1>10. GrowthIsBooked' /\ RangeIsWhole'
  BY DEF Inv, GrowthIsBooked, RangeIsWhole, Exists
<1>. QED
  BY <1>5, <1>6, <1>7, <1>8, <1>9, <1>10 DEF Inv

(* The moved plan: unconfirmed stages from the named one on move together, *)
(* the rest stay, and no original changes.                                 *)
LEMMA ExtendedPlanShape ==
  ASSUME shipment \in ShipmentType, shipment.plan # NULL,
         NEW stage \in Stages, NEW by \in Int
  PROVE  LET plan == ExtendedPlan(shipment, stage, by)
         IN  /\ plan \in PlanEntries
             /\ \A t \in Stages :
                  /\ plan[t].original = shipment.plan[t].original
                  /\ plan[t].date =
                       IF ~Confirmed(t) /\ StageRank[t] >= StageRank[stage]
                         THEN shipment.plan[t].date + by
                         ELSE shipment.plan[t].date
<1>1. shipment.plan \in PlanEntries
  BY DEF ShipmentType
<1>2. \A t \in Stages : shipment.plan[t] \in
        [date : Int, original : Int, details : Details \cup {NULL}]
  BY <1>1 DEF PlanEntries
<1>. DEFINE moved(t) == [shipment.plan[t] EXCEPT !.date = @ + by]
<1>3. \A t \in Stages :
        /\ moved(t) \in [date : Int, original : Int, details : Details \cup {NULL}]
        /\ moved(t).date = shipment.plan[t].date + by
        /\ moved(t).original = shipment.plan[t].original
  BY <1>2
<1>. HIDE DEF moved
<1>4. ExtendedPlan(shipment, stage, by) =
        [t \in Stages |->
           IF shipment.confirmed[t] = NULL /\ StageRank[t] >= StageRank[stage]
             THEN moved(t) ELSE shipment.plan[t]]
  BY DEF ExtendedPlan, moved
<1>. QED
  BY <1>2, <1>3, <1>4 DEF PlanEntries, Confirmed

(* An extension keeps the plan in order because the confirmed stages come  *)
(* first, and grows the duration by no more than the days booked.          *)
LEMMA ExtendPreserves ==
  ASSUME Inv, Exists(shipment), TypeOK', shipment.plan # NULL,
         NEW stage \in Stages, NEW by \in Nat,
         shipment'.lastEventAt \in Int,
         shipment.lastEventAt <= shipment'.lastEventAt,
         shipment'.currentState = shipment.currentState,
         shipment'.confirmed = shipment.confirmed,
         shipment'.originalPlan = shipment.originalPlan,
         shipment'.originalDays = shipment.originalDays,
         shipment'.createdAt = shipment.createdAt,
         shipment'.minT = shipment.minT,
         shipment'.maxT = shipment.maxT,
         shipment'.plan = ExtendedPlan(shipment, stage, by),
         shipment'.days = ExtendedDays(shipment, ExtendedPlan(shipment, stage, by)),
         shipment'.extendedBy = shipment.extendedBy + by
  PROVE  Inv'
<1>. DEFINE opens == DayOf(shipment.createdAt)
            last == shipment'.plan[LastStage].date
<1>1. shipment \in ShipmentType /\ shipment'.plan \in PlanEntries
      /\ shipment.plan \in PlanEntries
  <2>1. shipment \in ShipmentType
    BY DEF Inv, TypeOK
  <2>. QED
    BY <2>1, ExtendedPlanShape DEF ShipmentType
<1>2. shipment'.plan # NULL
  BY <1>1, NullAssumption
<1>3. \A t \in Stages :
        /\ shipment'.plan[t].original = shipment.plan[t].original
        /\ shipment'.plan[t].date =
             IF ~Confirmed(t) /\ StageRank[t] >= StageRank[stage]
               THEN shipment.plan[t].date + by
               ELSE shipment.plan[t].date
  BY <1>1, ExtendedPlanShape
<1>4. \A t \in Stages : /\ shipment.plan[t].date \in Int
                        /\ shipment'.plan[t].date \in Int
                        /\ StageRank[t] \in Int
  BY <1>1, StageTables DEF PlanEntries, Stages
<1>5. /\ shipment.days \in Int /\ shipment.originalDays \in Int
      /\ shipment.extendedBy \in Nat /\ opens \in Int
  BY DayIsInt DEF Inv, Shape
<1>6. \A t \in Stages : Confirmed(t) => shipment.confirmed[t].at \in Int
  BY <1>1 DEF ShipmentType, Confirmations, Confirmed
<1>7. Shape'
  <2>1. shipment'.days \in Int
    BY <1>4, <1>5 DEF ExtendedDays, LastStage, Stages
  <2>. QED
    BY <1>5, <1>6, <2>1 DEF Inv, Shape, Exists, Confirmed
<1>8. LifecycleOrder'
  BY DEF Inv, LifecycleOrder, Confirmed
<1>. LastStage \in Stages
  BY DEF LastStage, Stages
<1>9. shipment'.days = IF last - opens > shipment.days THEN last - opens ELSE shipment.days
  BY DEF ExtendedDays
<1>10. \A s, t \in Stages : StageRank[s] < StageRank[t] =>
         shipment'.plan[s].date <= shipment'.plan[t].date
  <2>1. SUFFICES ASSUME NEW s \in Stages, NEW t \in Stages, StageRank[s] < StageRank[t]
                 PROVE  shipment'.plan[s].date <= shipment'.plan[t].date
    OBVIOUS
  <2>2. shipment.plan[s].date <= shipment.plan[t].date
    BY <2>1 DEF Inv, PlanFitsWindow
  <2>3. Confirmed(t) => Confirmed(s)
    BY <2>1 DEF Inv, LifecycleOrder
  <2>4. StageRank[s] >= StageRank[stage] => StageRank[t] >= StageRank[stage]
    BY <1>4, <2>1
  <2>. QED
    BY <1>3, <1>4, <2>2, <2>3, <2>4
<1>11. PlanFitsWindow'
  <2>1. \A t \in Stages : opens <= shipment'.plan[t].date
    BY <1>3, <1>4, <1>5 DEF Inv, PlanFitsWindow, WindowOpens
  <2>2. \A t \in Stages : shipment'.plan[t].date <= last
    <3>1. \A t \in Stages : t = LastStage \/ StageRank[t] < StageRank[LastStage]
      BY StageTables DEF Stages, LastStage
    <3>. QED
      BY <1>4, <1>10, <3>1
  <2>3. last <= opens + shipment'.days
    BY <1>4, <1>5, <1>9
  <2>4. \A t \in Stages : shipment'.plan[t].date <= opens + shipment'.days
    BY <1>4, <1>5, <1>9, <2>2, <2>3
  <2>. QED
    BY <1>10, <2>1, <2>4 DEF PlanFitsWindow, WindowOpens, WindowCloses
<1>12. OriginalsAgree'
  BY <1>2, <1>3 DEF Inv, OriginalsAgree
<1>13. ConfirmedAgainstPlan'
  BY <1>3 DEF Inv, ConfirmedAgainstPlan, Confirmed
<1>14. GrowthIsBooked'
  <2>1. last <= shipment.plan[LastStage].date + by
    BY <1>3, <1>4
  <2>2. shipment.plan[LastStage].date <= opens + shipment.days
    BY DEF Inv, PlanFitsWindow, WindowCloses
  <2>3. /\ shipment.originalDays <= shipment.days
        /\ shipment.days <= shipment.originalDays + shipment.extendedBy
    BY DEF Inv, GrowthIsBooked
  <2>4. /\ shipment.originalDays <= shipment'.days
        /\ shipment'.days <= shipment.originalDays + (shipment.extendedBy + by)
    BY <1>4, <1>5, <1>9, <2>1, <2>2, <2>3
  <2>. QED
    BY <2>4 DEF GrowthIsBooked
<1>15. RangeIsWhole'
  BY DEF Inv, RangeIsWhole
<1>. QED
  BY <1>7, <1>8, <1>11, <1>12, <1>13, <1>14, <1>15 DEF Inv

-----------------------------------------------------------------------------
(* Every step preserves the invariant and rewrites nothing already         *)
(* recorded: one lemma per action.                                         *)

(* A command is stamped with an instant no earlier than the last event.    *)
LEMMA Stamped ==
  ASSUME Inv, Exists(shipment), NEW at \in Times, InOrder(shipment, at)
  PROVE  /\ at \in Int /\ at \in OptionalInts /\ shipment.lastEventAt <= at
         /\ shipment \in ShipmentType /\ shipment.version + 1 \in Nat
<1>1. at \in Int
  BY ShipmentAssumption
<1>2. shipment.lastEventAt <= at
  BY DomainAssumption DEF Inv, Shape, InOrder
<1>3. shipment \in ShipmentType
  BY DEF Inv, TypeOK
<1>. QED
  BY <1>1, <1>2, <1>3 DEF OptionalInts, ShipmentType

LEMMA CreateStep ==
  ASSUME Inv, CreateShipment
  PROVE  Inv' /\ KeepsHistory
<1>1. PICK c \in Sent("create") : Handle(c)
  BY DEF CreateShipment
<1>2. PICK at \in Times :
        InOrder(shipment, at) /\ \E event \in Decide(shipment, c, at) :
          shipment' = ApplyEvent(shipment, event)
  BY <1>1 DEF Handle
<1>3. PICK event \in Decide(shipment, c, at) : shipment' = ApplyEvent(shipment, event)
  BY <1>2
<1>4. c.kind = "create" /\ c \in CreateCommands
  BY CommandOfKind DEF Sent
<1>5. ~Exists(shipment) /\ shipment' =
        [shipment EXCEPT !.version = shipment.version + 1, !.lastEventAt = at,
           !.currentState = "CREATED", !.origin = c.origin,
           !.originPair = PairOf(c), !.location = c.origin,
           !.minT = c.minT, !.maxT = c.maxT,
           !.days = c.days, !.originalDays = c.days, !.createdAt = at]
  BY <1>3, <1>4, CreateEffect
<1>6. KeepsHistory
  <2>1. shipment = InitialShipment
    BY <1>5 DEF Inv, Shape
  <2>2. shipment.originalPlan = NULL /\ \A stage \in Stages : ~Confirmed(stage)
    BY <2>1 DEF InitialShipment, Confirmed
  <2>. QED
    BY <1>5, <2>2 DEF KeepsHistory
<1>. QED
  BY <1>4, <1>5, <1>6, CreatePreserves

LEMMA MoveStep ==
  ASSUME Inv, MoveShipment
  PROVE  Inv' /\ KeepsHistory
<1>1. PICK c \in Sent("move") : Handle(c)
  BY DEF MoveShipment
<1>2. PICK at \in Times :
        InOrder(shipment, at) /\ \E event \in Decide(shipment, c, at) :
          shipment' = ApplyEvent(shipment, event)
  BY <1>1 DEF Handle
<1>3. PICK event \in Decide(shipment, c, at) : shipment' = ApplyEvent(shipment, event)
  BY <1>2
<1>4. c.kind = "move" /\ c.stage \in Stages /\ c.location \in Places
  BY CommandOfKind DEF Sent, MoveCommands
<1>5. /\ Active(shipment) /\ shipment.currentState = RequiredState[c.stage]
      /\ \E variance \in {NULL, DayOf(at) - PlannedDate(shipment, c.stage)} :
           /\ PlannedDate(shipment, c.stage) = NULL => variance = NULL
           /\ ApplyEvent(shipment, event) =
                [shipment EXCEPT !.version = shipment.version + 1, !.lastEventAt = at,
                   !.currentState = ReachedState[c.stage], !.location = c.location,
                   !.confirmed = [shipment.confirmed EXCEPT ![c.stage] =
                     [at |-> at, planned |-> PlannedDate(shipment, c.stage),
                      variance |-> variance, version |-> shipment.version + 1]]]
  BY <1>4, MoveEffect
<1>6. PICK variance \in {NULL, DayOf(at) - PlannedDate(shipment, c.stage)} :
        /\ PlannedDate(shipment, c.stage) = NULL => variance = NULL
        /\ ApplyEvent(shipment, event) =
             [shipment EXCEPT !.version = shipment.version + 1, !.lastEventAt = at,
                !.currentState = ReachedState[c.stage], !.location = c.location,
                !.confirmed = [shipment.confirmed EXCEPT ![c.stage] =
                  [at |-> at, planned |-> PlannedDate(shipment, c.stage),
                   variance |-> variance, version |-> shipment.version + 1]]]
  BY <1>5
<1>. DEFINE entry == [at |-> at, planned |-> PlannedDate(shipment, c.stage),
                      variance |-> variance, version |-> shipment.version + 1]
<1>7. entry \in Confirmations
  BY <1>4, <1>6, ConfirmationTyped DEF Inv, TypeOK
<1>8. entry.at = at /\ entry.planned = PlannedDate(shipment, c.stage)
  OBVIOUS
<1>9. shipment' =
        [shipment EXCEPT !.version = shipment.version + 1, !.lastEventAt = at,
           !.currentState = ReachedState[c.stage], !.location = c.location,
           !.confirmed = [shipment.confirmed EXCEPT ![c.stage] = entry]]
  BY <1>3, <1>6
<1>. HIDE DEF entry
<1>10. KeepsHistory
  <2>1. shipment \in ShipmentType /\ ~Confirmed(c.stage)
    BY <1>4, <1>5, MovesInOrder, StageTables DEF Inv, TypeOK, Stages
  <2>2. /\ shipment'.plan = shipment.plan
        /\ shipment'.originalPlan = shipment.originalPlan
        /\ shipment'.originalDays = shipment.originalDays
        /\ shipment'.createdAt = shipment.createdAt
        /\ shipment'.confirmed = [shipment.confirmed EXCEPT ![c.stage] = entry]
    BY <1>9, <2>1 DEF ShipmentType
  <2>3. \A t \in Stages \ {c.stage} : shipment'.confirmed[t] = shipment.confirmed[t]
    BY <2>1, <2>2 DEF ShipmentType
  <2>. QED
    BY <2>1, <2>2, <2>3 DEF KeepsHistory
<1>. QED
  BY <1>2, <1>4, <1>5, <1>7, <1>8, <1>9, <1>10, MovePreserves DEF Active

LEMMA ReadingStep ==
  ASSUME Inv, TakeReading
  PROVE  Inv' /\ KeepsHistory
<1>1. PICK c \in Sent("temperature") : Handle(c)
  BY DEF TakeReading
<1>2. PICK at \in Times :
        InOrder(shipment, at) /\ \E event \in Decide(shipment, c, at) :
          shipment' = ApplyEvent(shipment, event)
  BY <1>1 DEF Handle
<1>3. PICK event \in Decide(shipment, c, at) : shipment' = ApplyEvent(shipment, event)
  BY <1>2
<1>4. c.kind = "temperature" /\ c.value \in Int
  BY CommandOfKind, DomainAssumption DEF Sent, TemperatureCommands
<1>5. Active(shipment) /\ \E breach \in {0, 1} : ApplyEvent(shipment, event) =
        [shipment EXCEPT !.version = shipment.version + 1, !.lastEventAt = at,
           !.latest = c.value, !.breaches = shipment.breaches + breach]
  BY <1>4, ReadingEffect DEF Inv
<1>6. KeepsHistory
  BY <1>3, <1>5 DEF KeepsHistory, Inv, TypeOK, ShipmentType
<1>. QED
  BY <1>2, <1>3, <1>4, <1>5, <1>6, ReadingPreserves DEF Active

LEMMA AmendStep ==
  ASSUME Inv, AmendShipmentDetails
  PROVE  Inv' /\ KeepsHistory
<1>1. PICK c \in Sent("amend") : Handle(c)
  BY DEF AmendShipmentDetails
<1>2. PICK at \in Times :
        InOrder(shipment, at) /\ \E event \in Decide(shipment, c, at) :
          shipment' = ApplyEvent(shipment, event)
  BY <1>1 DEF Handle
<1>3. PICK event \in Decide(shipment, c, at) : shipment' = ApplyEvent(shipment, event)
  BY <1>2
<1>4. c.kind = "amend" /\ c \in AmendCommands
  BY CommandOfKind DEF Sent
<1>5. Active(shipment) /\ \E origin, location, minT, maxT :
        AmendedTo(ApplyEvent(shipment, event), c, at, origin, location, minT, maxT)
  BY <1>4, AmendEffect DEF Inv
<1>6. PICK origin, location, minT, maxT :
        AmendedTo(shipment', c, at, origin, location, minT, maxT)
  BY <1>3, <1>5
<1>7. KeepsHistory
  BY <1>6 DEF AmendedTo, KeepsHistory, Inv, TypeOK, ShipmentType
<1>. QED
  BY <1>2, <1>4, <1>5, <1>6, <1>7, AmendPreserves DEF Active

LEMMA PlanStep ==
  ASSUME Inv, PlanFirstSchedule
  PROVE  Inv' /\ KeepsHistory
<1>1. PICK c \in Sent("plan") : Handle(c)
  BY DEF PlanFirstSchedule
<1>2. PICK at \in Times :
        InOrder(shipment, at) /\ \E event \in Decide(shipment, c, at) :
          shipment' = ApplyEvent(shipment, event)
  BY <1>1 DEF Handle
<1>3. PICK event \in Decide(shipment, c, at) : shipment' = ApplyEvent(shipment, event)
  BY <1>2
<1>4. c.kind = "plan" /\ c.proposal \in Proposals
  BY CommandOfKind DEF Sent, PlanCommands
<1>. DEFINE plan == Normalised(shipment, c.proposal)
<1>5. /\ Exists(shipment) /\ shipment.plan = NULL
      /\ ValidPlannedDates(shipment, c.proposal)
      /\ shipment' =
           [shipment EXCEPT !.version = shipment.version + 1, !.lastEventAt = at,
              !.plan = plan, !.originalPlan = Or(shipment.originalPlan, plan)]
  BY <1>3, <1>4, PlanEffect DEF Active
<1>6. /\ at \in Int /\ at \in OptionalInts /\ shipment.lastEventAt <= at
      /\ shipment \in ShipmentType /\ shipment.version + 1 \in Nat
  BY <1>2, <1>5, Stamped
<1>7. plan \in PlanEntries
  BY <1>4, <1>6, NormalisedPlan
<1>8. Or(shipment.originalPlan, plan) = plan
  BY <1>5 DEF Inv, OriginalsAgree, Or
<1>. HIDE DEF plan
<1>9. shipment' \in ShipmentType
  BY <1>5, <1>6, <1>7, <1>8 DEF ShipmentType
<1>10. TypeOK'
  BY <1>5, <1>6, <1>9 DEF TypeOK, Exists, ShipmentType
<1>11. /\ shipment'.lastEventAt = at /\ shipment'.currentState = shipment.currentState
       /\ shipment'.confirmed = shipment.confirmed /\ shipment'.days = shipment.days
       /\ shipment'.originalDays = shipment.originalDays
       /\ shipment'.extendedBy = shipment.extendedBy
       /\ shipment'.createdAt = shipment.createdAt
       /\ shipment'.minT = shipment.minT /\ shipment'.maxT = shipment.maxT
       /\ shipment'.plan = plan /\ shipment'.originalPlan = plan
  BY <1>5, <1>6, <1>8 DEF ShipmentType
<1>12. KeepsHistory
  BY <1>5, <1>11 DEF Inv, OriginalsAgree, KeepsHistory
<1>. QED
  BY <1>4, <1>5, <1>6, <1>10, <1>11, <1>12, PlanningPreserves DEF plan

LEMMA ReviseStep ==
  ASSUME Inv, RevisePlan
  PROVE  Inv' /\ KeepsHistory
<1>1. PICK c \in Sent("revise") : Handle(c)
  BY DEF RevisePlan
<1>2. PICK at \in Times :
        InOrder(shipment, at) /\ \E event \in Decide(shipment, c, at) :
          shipment' = ApplyEvent(shipment, event)
  BY <1>1 DEF Handle
<1>3. PICK event \in Decide(shipment, c, at) : shipment' = ApplyEvent(shipment, event)
  BY <1>2
<1>4. c.kind = "revise" /\ c.proposal \in Proposals
  BY CommandOfKind DEF Sent, ReviseCommands
<1>. DEFINE plan == Normalised(shipment, c.proposal)
<1>5. /\ Exists(shipment) /\ shipment.plan # NULL
      /\ ValidPlannedDates(shipment, c.proposal)
      /\ shipment' =
           [shipment EXCEPT !.version = shipment.version + 1, !.lastEventAt = at,
              !.plan = plan]
  BY <1>3, <1>4, ReviseEffect DEF Active
<1>6. /\ at \in Int /\ at \in OptionalInts /\ shipment.lastEventAt <= at
      /\ shipment \in ShipmentType /\ shipment.version + 1 \in Nat
  BY <1>2, <1>5, Stamped
<1>7. plan \in PlanEntries
  BY <1>4, <1>6, NormalisedPlan
<1>. HIDE DEF plan
<1>8. shipment' \in ShipmentType
  BY <1>5, <1>6, <1>7 DEF ShipmentType
<1>9. TypeOK'
  BY <1>5, <1>6, <1>8 DEF TypeOK, Exists, ShipmentType
<1>10. /\ shipment'.lastEventAt = at /\ shipment'.currentState = shipment.currentState
       /\ shipment'.confirmed = shipment.confirmed /\ shipment'.days = shipment.days
       /\ shipment'.originalDays = shipment.originalDays
       /\ shipment'.extendedBy = shipment.extendedBy
       /\ shipment'.createdAt = shipment.createdAt
       /\ shipment'.minT = shipment.minT /\ shipment'.maxT = shipment.maxT
       /\ shipment'.plan = plan /\ shipment'.originalPlan = shipment.originalPlan
  BY <1>5, <1>6 DEF ShipmentType
<1>11. KeepsHistory
  <2>1. \A stage \in Stages : plan[stage].date = c.proposal[stage].date
    BY <1>4, <1>6, NormalisedPlan DEF plan
  <2>2. \A stage \in Stages : Confirmed(stage) =>
          shipment.plan[stage].date = c.proposal[stage].date
    BY <1>5 DEF ValidPlannedDates, KeepsConfirmedDates, Inv, ConfirmedAgainstPlan, Confirmed
  <2>. QED
    BY <1>10, <2>1, <2>2 DEF KeepsHistory
<1>. QED
  BY <1>4, <1>5, <1>6, <1>9, <1>10, <1>11, PlanningPreserves DEF plan

LEMMA ExtendStep ==
  ASSUME Inv, ExtendPlan
  PROVE  Inv' /\ KeepsHistory
<1>1. PICK c \in Sent("extend") : Handle(c)
  BY DEF ExtendPlan
<1>2. PICK at \in Times :
        InOrder(shipment, at) /\ \E event \in Decide(shipment, c, at) :
          shipment' = ApplyEvent(shipment, event)
  BY <1>1 DEF Handle
<1>3. PICK event \in Decide(shipment, c, at) : shipment' = ApplyEvent(shipment, event)
  BY <1>2
<1>4. c.kind = "extend" /\ c.stage \in Stages /\ c.days \in Nat
  BY CommandOfKind, DomainAssumption DEF Sent, ExtendCommands, WholeDays
<1>. DEFINE plan == ExtendedPlan(shipment, c.stage, c.days)
            days == ExtendedDays(shipment, plan)
<1>5. /\ Exists(shipment) /\ shipment.plan # NULL
      /\ shipment' =
           [shipment EXCEPT !.version = shipment.version + 1, !.lastEventAt = at,
              !.plan = plan, !.days = days,
              !.extendedBy = shipment.extendedBy + c.days]
  BY <1>3, <1>4, ExtendEffect DEF Active
<1>6. /\ at \in Int /\ at \in OptionalInts /\ shipment.lastEventAt <= at
      /\ shipment \in ShipmentType /\ shipment.version + 1 \in Nat
  BY <1>2, <1>5, Stamped
<1>7. plan \in PlanEntries
  BY <1>4, <1>5, <1>6, ExtendedPlanShape
<1>8. days \in OptionalInts /\ shipment.extendedBy + c.days \in Int
  <2>1. plan[LastStage].date \in Int /\ DayOf(shipment.createdAt) \in Int
        /\ shipment.days \in Int /\ shipment.extendedBy \in Int
    BY <1>5, <1>7, DayIsInt DEF Inv, Shape, PlanEntries, LastStage, Stages
  <2>. HIDE DEF plan
  <2>. QED
    BY <1>4, <2>1 DEF ExtendedDays, OptionalInts
<1>. HIDE DEF plan, days
<1>9. shipment' \in ShipmentType
  BY <1>5, <1>6, <1>7, <1>8 DEF ShipmentType
<1>10. TypeOK'
  BY <1>5, <1>6, <1>9 DEF TypeOK, Exists, ShipmentType
<1>11. /\ shipment'.lastEventAt = at /\ shipment'.currentState = shipment.currentState
       /\ shipment'.confirmed = shipment.confirmed
       /\ shipment'.originalPlan = shipment.originalPlan
       /\ shipment'.originalDays = shipment.originalDays
       /\ shipment'.createdAt = shipment.createdAt
       /\ shipment'.minT = shipment.minT /\ shipment'.maxT = shipment.maxT
       /\ shipment'.plan = plan /\ shipment'.days = days
       /\ shipment'.extendedBy = shipment.extendedBy + c.days
  BY <1>5, <1>6 DEF ShipmentType
<1>12. KeepsHistory
  <2>1. \A stage \in Stages : Confirmed(stage) =>
          plan[stage].date = shipment.plan[stage].date
    BY <1>4, <1>5, <1>6, ExtendedPlanShape DEF plan
  <2>. QED
    BY <1>11, <2>1 DEF KeepsHistory
<1>. QED
  BY <1>4, <1>5, <1>6, <1>10, <1>11, <1>12, ExtendPreserves DEF plan, days

LEMMA ArchivalStep ==
  ASSUME Inv, ArchiveShipment \/ RestoreShipment
  PROVE  Inv' /\ KeepsHistory
<1>1. PICK c \in Sent("archive") \cup Sent("restore") : Handle(c)
  BY DEF ArchiveShipment, RestoreShipment
<1>2. PICK at \in Times :
        InOrder(shipment, at) /\ \E event \in Decide(shipment, c, at) :
          shipment' = ApplyEvent(shipment, event)
  BY <1>1 DEF Handle
<1>3. PICK event \in Decide(shipment, c, at) : shipment' = ApplyEvent(shipment, event)
  BY <1>2
<1>4. c.kind \in {"archive", "restore"}
  BY DEF Sent
<1>5. Exists(shipment) /\ \E archived \in BOOLEAN :
        FlaggedAs(ApplyEvent(shipment, event), at, archived)
  BY <1>4, ArchivalEffect
<1>6. PICK archived \in BOOLEAN : FlaggedAs(shipment', at, archived)
  BY <1>3, <1>5
<1>7. KeepsHistory
  BY <1>6 DEF FlaggedAs, KeepsHistory, Inv, TypeOK, ShipmentType
<1>. QED
  BY <1>2, <1>5, <1>6, <1>7, ArchivalPreserves DEF FlaggedAs

LEMMA Step ==
  ASSUME Inv, Next
  PROVE  Inv' /\ KeepsHistory
BY CreateStep, MoveStep, ReadingStep, AmendStep, PlanStep, ReviseStep, ExtendStep,
   ArchivalStep DEF Next

LEMMA InvNext ==
  ASSUME Inv, [Next]_shipment
  PROVE  Inv'
<1>1. CASE Next
  BY <1>1, Step
<1>2. CASE UNCHANGED shipment
  BY <1>2 DEF Inv, TypeOK, Shape, LifecycleOrder, PlanFitsWindow, OriginalsAgree,
     ConfirmedAgainstPlan, GrowthIsBooked, RangeIsWhole, Confirmed, Exists,
     WindowOpens, WindowCloses, ShipmentType
<1>. QED
  BY <1>1, <1>2

-----------------------------------------------------------------------------
(* The theorems.                                                           *)

(* The invariant holds of every state any sequence of accepted commands    *)
(* reaches.                                                                *)
THEOREM Invariance == Spec => []Inv
<1>1. Init => Inv
  BY InvInit
<1>2. Inv /\ [Next]_shipment => Inv'
  BY InvNext
<1>. QED
  BY <1>1, <1>2, PTL DEF Spec

(* The folded state always has the shape the reducer promises.             *)
THEOREM TypeCorrect == Spec => []TypeOK
<1>1. Inv => TypeOK
  BY DEF Inv
<1>. QED
  BY <1>1, Invariance, PTL

(* Stages are only ever confirmed in the order of the lifecycle, and the   *)
(* current state is the one the last confirmation left.                    *)
THEOREM StagesInOrder == Spec => []LifecycleOrder
<1>1. Inv => LifecycleOrder
  BY DEF Inv
<1>. QED
  BY <1>1, Invariance, PTL

(* The plan in force follows the lifecycle and lies inside the window of   *)
(* the duration in force.                                                  *)
THEOREM PlanAlwaysFits == Spec => []PlanFitsWindow
<1>1. Inv => PlanFitsWindow
  BY DEF Inv
<1>. QED
  BY <1>1, Invariance, PTL

(* The original plan and the original date each stage carries agree.       *)
THEOREM OriginalsAlwaysAgree == Spec => []OriginalsAgree
<1>1. Inv => OriginalsAgree
  BY DEF Inv
<1>. QED
  BY <1>1, Invariance, PTL

(* A confirmed stage was confirmed against the date the plan still shows.  *)
THEOREM ConfirmationsMatchPlan == Spec => []ConfirmedAgainstPlan
<1>1. Inv => ConfirmedAgainstPlan
  BY DEF Inv
<1>. QED
  BY <1>1, Invariance, PTL

(* The duration grows only by what extensions booked.                      *)
THEOREM GrowthAlwaysBooked == Spec => []GrowthIsBooked
<1>1. Inv => GrowthIsBooked
  BY DEF Inv
<1>. QED
  BY <1>1, Invariance, PTL

(* A declared temperature range has both bounds, in order.                 *)
THEOREM RangeAlwaysWhole == Spec => []RangeIsWhole
<1>1. Inv => RangeIsWhole
  BY DEF Inv
<1>. QED
  BY <1>1, Invariance, PTL

(* No step rewrites a confirmation, the original plan, the original        *)
(* duration or the date of a confirmed stage.                              *)
THEOREM HistoryStaysFrozen == Spec => HistoryIsFrozen
<1>1. Inv /\ [Next]_shipment => [KeepsHistory]_shipment
  BY Step
<1>. QED
  BY <1>1, Invariance, PTL DEF Spec, HistoryIsFrozen
-----------------------------------------------------------------------------
(* The calendar.                                                           *)

(* The greatest of at most three integers is one of them and none is       *)
(* greater.                                                                *)
LEMMA GreatestOfThree ==
  ASSUME NEW a \in Int, NEW b \in Int, NEW c \in Int,
         NEW S, S = {a, b, c}
  PROVE  Max(S) \in Int /\ \A x \in S : x <= Max(S)
<1>1. \E x \in S : \A y \in S : x >= y
  <2>1. CASE a >= b /\ a >= c
    BY <2>1
  <2>2. CASE b >= a /\ b >= c
    BY <2>2
  <2>3. CASE c >= a /\ c >= b
    BY <2>3
  <2>. QED
    BY <2>1, <2>2, <2>3
<1>2. Max(S) \in S /\ \A y \in S : Max(S) >= y
  BY <1>1 DEF Max
<1>. QED
  BY <1>2

(* The day that counts as a floor for the stages after this one.           *)
FloorOf(s, t) ==
  IF s.confirmed[t] # NULL THEN DayOf(s.confirmed[t].at)
  ELSE IF s.plan # NULL THEN s.plan[t].date ELSE WindowOpens(s)

(* The query offers no date before the day the shipment was created.       *)
LEMMA FloorInWindow ==
  ASSUME Inv, Exists(shipment), NEW stage \in Stages
  PROVE  /\ Floor(shipment, stage) \in Int
         /\ WindowOpens(shipment) <= Floor(shipment, stage)
<1>. DEFINE before == {t \in Stages : StageRank[t] < StageRank[stage]}
            floors == {WindowOpens(shipment)}
              \cup {DayOf(shipment.confirmed[t].at) :
                       t \in {u \in before : shipment.confirmed[u] # NULL}}
              \cup {shipment.plan[t].date :
                       t \in {u \in before : /\ shipment.confirmed[u] = NULL
                                            /\ shipment.plan # NULL}}
            day(t) == IF t \in before THEN FloorOf(shipment, t) ELSE WindowOpens(shipment)
<1>1. WindowOpens(shipment) \in Int
  BY DayIsInt DEF Inv, Shape, WindowOpens
<1>2. ASSUME NEW t \in Stages
      PROVE  day(t) \in Int
  <2>1. shipment.confirmed[t] # NULL => shipment.confirmed[t].at \in Int
    BY DEF Inv, TypeOK, ShipmentType, Confirmations
  <2>2. shipment.plan # NULL => shipment.plan[t].date \in Int
    BY DEF Inv, TypeOK, ShipmentType, PlanEntries
  <2>. QED
    BY <1>1, <2>1, <2>2, DayIsInt DEF FloorOf
<1>3. floors = {WindowOpens(shipment)} \cup {day(t) : t \in before}
  BY DEF FloorOf
<1>4. before \in {{}, {"LOAD_ON_SHIP"}, {"LOAD_ON_SHIP", "ARRIVE_AT_PORT"}}
  BY StageTables DEF Stages
<1>5. floors = {WindowOpens(shipment), day("LOAD_ON_SHIP"), day("ARRIVE_AT_PORT")}
  <2>1. floors = {WindowOpens(shipment)} \cup {day(t) : t \in Stages \ {"UNLOAD_FROM_SHIP"}}
    BY <1>3, <1>4 DEF Stages
  <2>2. Stages \ {"UNLOAD_FROM_SHIP"} = {"LOAD_ON_SHIP", "ARRIVE_AT_PORT"}
    BY DEF Stages
  <2>. HIDE DEF floors, day
  <2>. QED
    BY <2>1, <2>2
<1>6. Floor(shipment, stage) = Max(floors)
  BY DEF Floor
<1>7. /\ day("LOAD_ON_SHIP") \in Int /\ day("ARRIVE_AT_PORT") \in Int
      /\ WindowOpens(shipment) \in floors
  BY <1>2 DEF Stages
<1>. HIDE DEF floors, day
<1>. QED
  BY <1>1, <1>5, <1>6, <1>7, GreatestOfThree

(* What the planner offers for a stage lies inside the window, not before  *)
(* the date the plan has for the stage before; for a confirmed stage it    *)
(* offers nothing.                                                         *)
LEMMA OfferedDates ==
  ASSUME Inv, Exists(shipment), NEW today, NEW stage \in Stages,
         NEW date \in Offered(ScheduleReply(shipment, today), stage)
  PROVE  /\ date \in Int /\ ~Confirmed(stage)
         /\ WindowOpens(shipment) <= date /\ date <= WindowCloses(shipment)
         /\ shipment.plan # NULL => \A t \in Stages :
              StageRank[t] + 1 = StageRank[stage] => shipment.plan[t].date <= date
<1>. DEFINE reply == ScheduleReply(shipment, today)
            preceding == {t \in Stages : StageRank[t] + 1 = StageRank[stage] /\ reply.plan # NULL}
            dates == {shipment.plan[t].date : t \in preceding}
            floor == Floor(shipment, stage)
<1>1. reply.bounds[stage] = Bounds(shipment, stage) /\ reply.plan = shipment.plan
  BY DEF ScheduleReply
<1>. HIDE DEF reply
<1>2. Bounds(shipment, stage) # NULL
  BY <1>1 DEF Offered, reply
<1>3. /\ ~Confirmed(stage)
      /\ Bounds(shipment, stage) = [min |-> floor, max |-> WindowCloses(shipment)]
  BY <1>2 DEF Bounds, Confirmed
<1>4. date \in Max({floor} \cup dates) .. WindowCloses(shipment)
  BY <1>1, <1>2, <1>3 DEF Offered, reply
<1>5. floor \in Int /\ WindowOpens(shipment) <= floor /\ WindowOpens(shipment) \in Int
      /\ WindowCloses(shipment) \in Int
  BY FloorInWindow, DayIsInt DEF Inv, Shape, WindowOpens, WindowCloses
<1>6. \A t \in preceding : shipment.plan[t].date \in Int
  BY <1>1 DEF Inv, TypeOK, ShipmentType, PlanEntries
<1>7. \E d \in Int : {floor} \cup dates = {floor, d, d}
  <2>1. CASE preceding = {}
    BY <1>5, <2>1
  <2>2. CASE preceding # {}
    <3>1. PICK t \in preceding : TRUE
      BY <2>2
    <3>2. preceding = {t}
      BY <3>1, StageTables DEF Stages
    <3>. QED
      BY <1>6, <3>1, <3>2
  <2>. QED
    BY <2>1, <2>2
<1>8. /\ Max({floor} \cup dates) \in Int
      /\ \A x \in {floor} \cup dates : x <= Max({floor} \cup dates)
  <2>1. PICK d \in Int : {floor} \cup dates = {floor, d, d}
    BY <1>7
  <2>. HIDE DEF dates, floor
  <2>. QED
    BY <1>5, <2>1, GreatestOfThree
<1>9. date \in Int /\ Max({floor} \cup dates) <= date /\ date <= WindowCloses(shipment)
  <2>. HIDE DEF dates, floor
  <2>. QED
    BY <1>4, <1>5, <1>8
<1>10. WindowOpens(shipment) <= date
  <2>. HIDE DEF dates, floor
  <2>. QED
    BY <1>5, <1>8, <1>9
<1>11. ASSUME shipment.plan # NULL, NEW t \in Stages, StageRank[t] + 1 = StageRank[stage]
       PROVE  shipment.plan[t].date <= date
  <2>1. t \in preceding
    BY <1>1, <1>11
  <2>2. shipment.plan[t].date \in dates /\ shipment.plan[t].date \in Int
    BY <1>6, <2>1
  <2>. HIDE DEF dates, floor, preceding
  <2>. QED
    BY <1>8, <1>9, <2>2
<1>. QED
  BY <1>3, <1>9, <1>10, <1>11

(* Every date the planner offers belongs to a plan the policy accepts, of  *)
(* any shipment that can be planned at all.                                *)
THEOREM CalendarOffersNothingRefused == Spec => []CalendarIsSound
<1>1. Inv => CalendarIsSound
  <2>. SUFFICES ASSUME Inv, Active(shipment),
                       shipment.plan = NULL => shipment.currentState = "CREATED",
                       NEW stage \in Stages,
                       NEW date \in Offered(ScheduleReply(shipment,
                                              DayOf(shipment.lastEventAt)), stage)
                PROVE  ValidPlannedDates(shipment, PlanWith(shipment, stage, date))
    BY DEF CalendarIsSound
  <2>. DEFINE proposal == PlanWith(shipment, stage, date)
              opens == WindowOpens(shipment)
              closes == WindowCloses(shipment)
  <2>1. /\ date \in Int /\ ~Confirmed(stage) /\ opens <= date /\ date <= closes
        /\ shipment.plan # NULL => \A t \in Stages :
             StageRank[t] + 1 = StageRank[stage] => shipment.plan[t].date <= date
    BY OfferedDates DEF Active
  <2>2. opens \in Int /\ closes \in Int
    BY DayIsInt DEF Inv, Shape, Active, WindowOpens, WindowCloses
  <2>3. \A t \in Stages :
          proposal[t].date =
            IF StageRank[t] < StageRank[stage]
              THEN IF shipment.plan = NULL THEN opens ELSE shipment.plan[t].date
              ELSE IF t = stage \/ shipment.plan = NULL \/ shipment.plan[t].date < date
                     THEN date ELSE shipment.plan[t].date
    BY DEF PlanWith
  <2>4. shipment.plan # NULL =>
          /\ \A t \in Stages : /\ shipment.plan[t].date \in Int
                                /\ opens <= shipment.plan[t].date
                                /\ shipment.plan[t].date <= closes
          /\ shipment.plan["LOAD_ON_SHIP"].date <= shipment.plan["ARRIVE_AT_PORT"].date
          /\ shipment.plan["ARRIVE_AT_PORT"].date <= shipment.plan["UNLOAD_FROM_SHIP"].date
    <3>1. shipment.plan # NULL => \A t \in Stages : shipment.plan[t].date \in Int
      BY DEF Inv, TypeOK, ShipmentType, PlanEntries
    <3>. QED
      BY <3>1, StageTables DEF Inv, PlanFitsWindow, Stages
  <2>. HIDE DEF proposal, opens, closes
  <2>5. \A t \in Stages : opens <= proposal[t].date /\ proposal[t].date <= closes
    BY <2>1, <2>2, <2>3, <2>4
  <2>6. /\ proposal["LOAD_ON_SHIP"].date <= proposal["ARRIVE_AT_PORT"].date
        /\ proposal["ARRIVE_AT_PORT"].date <= proposal["UNLOAD_FROM_SHIP"].date
    <3>1. CASE shipment.plan = NULL
      BY <2>1, <2>2, <2>3, <3>1, StageTables DEF Stages
    <3>2. CASE shipment.plan # NULL
      BY <2>1, <2>2, <2>3, <2>4, <3>2, StageTables DEF Stages
    <3>. QED
      BY <3>1, <3>2
  <2>7. ASSUME NEW t \in Stages, Confirmed(t)
        PROVE  shipment.confirmed[t].planned = proposal[t].date
    <3>1. shipment.plan # NULL
      BY <2>7, StageTables DEF Inv, LifecycleOrder, Stages
    <3>2. StageRank[t] < StageRank[stage]
      BY <2>1, <2>7, StageTables DEF Inv, LifecycleOrder, Stages
    <3>. QED
      BY <2>3, <2>7, <3>1, <3>2 DEF Inv, ConfirmedAgainstPlan
  <2>. QED
    BY <2>5, <2>6, <2>7 DEF ValidPlannedDates, KeepsConfirmedDates, Confirmed, proposal,
       opens, closes
<1>. QED
  BY <1>1, Invariance, PTL
=============================================================================
