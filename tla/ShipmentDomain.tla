--------------------------- MODULE ShipmentDomain ---------------------------
(***************************************************************************)
(* The pure domain layer of the audit trail: what a shipment is, how an    *)
(* event changes it (the reducer), and which event, if any, each command   *)
(* produces (the aggregate with its schedule policy).  Nothing here reads  *)
(* a clock or a store: every instant is an argument, as in the source.     *)
(*                                                                         *)
(* An instant is an integer; DayOf is the UTC calendar day it falls in.    *)
(* A planned date is a day.  Of the manifest fields, `origin' stands for   *)
(* the free-text ones, `originPair' for the normalised locations, and the  *)
(* two temperature bounds for themselves.                                  *)
(***************************************************************************)
EXTENDS Integers, Sequences, FiniteSets, SequencesExt

CONSTANTS
  NULL,           \* the absent value (null or undefined in the source)
  Places,         \* locations a manifest or a movement may name
  Temps,          \* temperatures a command may carry
  Dates,          \* planned dates a command may carry
  Details,        \* free-text stage details a plan may carry
  MaxDays,        \* longest estimated duration (3650 in the source)
  MaxExtension,   \* longest extension (365 in the source)
  TicksPerDay     \* instants in one calendar day

ASSUME DomainAssumption ==
  /\ NULL \notin Int
  /\ NULL \notin Places /\ NULL \notin Details
  /\ Temps \subseteq Int /\ Dates \subseteq Int
  /\ MaxDays \in Nat /\ MaxExtension \in Nat
  /\ TicksPerDay \in Nat \ {0}

DayOf(instant) == instant \div TicksPerDay

Or(value, fallback) == IF value # NULL THEN value ELSE fallback

-----------------------------------------------------------------------------
(* The vocabulary: stages, the state each is legal from, the state and the *)
(* event its confirmation produces.                                        *)

Stages == {"LOAD_ON_SHIP", "ARRIVE_AT_PORT", "UNLOAD_FROM_SHIP"}

LastStage == "UNLOAD_FROM_SHIP"

StageRank ==
  [stage \in Stages |-> CASE stage = "LOAD_ON_SHIP"     -> 1
                          [] stage = "ARRIVE_AT_PORT"   -> 2
                          [] stage = "UNLOAD_FROM_SHIP" -> 3]

(* Mutant: arrival is refused only once it has happened.                   *)
RequiredStateLax ==
  [stage \in Stages |-> CASE stage = "LOAD_ON_SHIP"     -> "CREATED"
                          [] stage = "ARRIVE_AT_PORT"   -> "CREATED"
                          [] stage = "UNLOAD_FROM_SHIP" -> "AT_PORT"]

RequiredState ==
  [stage \in Stages |-> CASE stage = "LOAD_ON_SHIP"     -> "CREATED"
                          [] stage = "ARRIVE_AT_PORT"   -> "IN_TRANSIT"
                          [] stage = "UNLOAD_FROM_SHIP" -> "AT_PORT"]

ReachedState ==
  [stage \in Stages |-> CASE stage = "LOAD_ON_SHIP"     -> "IN_TRANSIT"
                          [] stage = "ARRIVE_AT_PORT"   -> "AT_PORT"
                          [] stage = "UNLOAD_FROM_SHIP" -> "UNLOADED"]

ConfirmingEvent ==
  [stage \in Stages |-> CASE stage = "LOAD_ON_SHIP"     -> "LOADED_ON_SHIP"
                          [] stage = "ARRIVE_AT_PORT"   -> "ARRIVED_AT_PORT"
                          [] stage = "UNLOAD_FROM_SHIP" -> "UNLOADED_FROM_SHIP"]

ShipmentStates == {"CREATED", "IN_TRANSIT", "AT_PORT", "UNLOADED"}

MovementEvents == {ConfirmingEvent[stage] : stage \in Stages}

EventTypes ==
  MovementEvents \cup
  {"CONTAINER_CREATED", "TEMPERATURE_RECORDED", "TEMPERATURE_SPIKE",
   "SHIPMENT_DETAILS_AMENDED", "SHIPMENT_ARCHIVED", "SHIPMENT_RESTORED",
   "SHIPMENT_SCHEDULE_PLANNED", "SHIPMENT_SCHEDULE_REVISED",
   "SHIPMENT_SCHEDULE_EXTENDED"}

-----------------------------------------------------------------------------
(* Commands, as the validators let them through.                           *)

(* A duration is a whole number of days, of one at least.                  *)
WholeDays(max) == 1 .. max

CreateCommands ==
  {c \in [kind : {"create"}, origin : Places, structured : BOOLEAN,
          days : WholeDays(MaxDays),
          minT : Temps \cup {NULL}, maxT : Temps \cup {NULL}] :
     \/ c.minT = NULL /\ c.maxT = NULL
     \/ c.minT # NULL /\ c.maxT # NULL /\ c.minT <= c.maxT}

MoveCommands == [kind : {"move"}, stage : Stages, location : Places]

TemperatureCommands == [kind : {"temperature"}, value : Temps]

AmendCommands ==
  {c \in [kind : {"amend"}, origin : Places \cup {NULL}, structured : BOOLEAN,
          minT : Temps \cup {NULL}, maxT : Temps \cup {NULL}] :
     /\ c.structured => c.origin # NULL
     /\ c.origin # NULL \/ c.minT # NULL \/ c.maxT # NULL
     /\ (c.minT # NULL /\ c.maxT # NULL) => c.minT <= c.maxT}

Proposals == [Stages -> [date : Dates, details : Details \cup {NULL}]]

PlanCommands == [kind : {"plan"}, proposal : Proposals]

ReviseCommands == [kind : {"revise"}, proposal : Proposals]

ExtendCommands == [kind : {"extend"}, stage : Stages, days : WholeDays(MaxExtension)]

ArchiveCommands == [kind : {"archive"}]

RestoreCommands == [kind : {"restore"}]

(* What the handlers pass on to the service; the rest is refused before a  *)
(* stream is read.                                                         *)
ValidCommands ==
  CreateCommands \cup MoveCommands \cup TemperatureCommands \cup AmendCommands
    \cup PlanCommands \cup ReviseCommands \cup ExtendCommands
    \cup ArchiveCommands \cup RestoreCommands

-----------------------------------------------------------------------------
(* Events, as the store records them.                                      *)

PlanEntries ==
  [Stages -> [date : Int, original : Int, details : Details \cup {NULL}]]

OptionalPlaces == Places \cup {NULL}

OptionalInts == Int \cup {NULL}

Payloads ==
  [origin : Places, originPair : OptionalPlaces,
   minT : OptionalInts, maxT : OptionalInts, days : Int]
  \cup [stage : Stages, location : Places,
        planned : OptionalInts, variance : OptionalInts]
  \cup [value : Int]
  \cup [origin : OptionalPlaces, originPair : OptionalPlaces,
        minT : OptionalInts, maxT : OptionalInts]
  \cup [plan : PlanEntries]
  \cup [plan : PlanEntries, previous : PlanEntries]
  \cup [stage : Stages, by : Int, plan : PlanEntries, previous : PlanEntries,
        days : Int]
  \cup [reason : {NULL}]

(* What the state keeps of a confirmed stage.                              *)
Confirmations ==
  [at : Int, planned : OptionalInts, variance : OptionalInts, version : Nat]

(* What the read model's document still tells of it: not the version.      *)
RestoredConfirmations == [at : Int, planned : Int, variance : Int]

(* The absent value is none of the things that may be present.             *)
ASSUME NullAssumption ==
  /\ NULL \notin Stages /\ NULL \notin ShipmentStates /\ NULL \notin PlanEntries
  /\ NULL \notin Confirmations /\ NULL \notin RestoredConfirmations

EventRecords ==
  [type : EventTypes, version : Nat, at : Int, payload : Payloads]

-----------------------------------------------------------------------------
(* The reducer.                                                            *)

InitialShipment ==
  [version |-> 0, currentState |-> NULL, archived |-> FALSE,
   origin |-> NULL, originPair |-> NULL, location |-> NULL, minT |-> NULL, maxT |-> NULL,
   latest |-> NULL, breaches |-> 0, createdAt |-> NULL, lastEventAt |-> NULL,
   days |-> NULL, originalDays |-> NULL, extendedBy |-> 0,
   plan |-> NULL, originalPlan |-> NULL,
   confirmed |-> [stage \in Stages |-> NULL]]

Exists(s) == s.currentState # NULL

PlannedDate(s, stage) == IF s.plan = NULL THEN NULL ELSE s.plan[stage].date

ConfirmStage(s, stage, event) ==
  [s.confirmed EXCEPT ![stage] =
     [at       |-> event.at,
      planned  |-> Or(event.payload.planned, PlannedDate(s, stage)),
      variance |-> event.payload.variance,
      version  |-> event.version]]

Created(s, event) ==
  [s EXCEPT !.currentState = "CREATED",
            !.origin = event.payload.origin,
            !.originPair = event.payload.originPair,
            !.location = event.payload.origin,
            !.minT = event.payload.minT,
            !.maxT = event.payload.maxT,
            !.days = event.payload.days,
            !.originalDays = event.payload.days,
            !.createdAt = event.at]

Moved(s, event) ==
  LET stage == event.payload.stage
  IN  [s EXCEPT !.currentState = ReachedState[stage],
                !.location = event.payload.location,
                !.confirmed = ConfirmStage(s, stage, event)]

Sampled(s, event) ==
  [s EXCEPT !.latest = event.payload.value,
            !.breaches = @ + (IF event.type = "TEMPERATURE_SPIKE" THEN 1 ELSE 0)]

Amended(s, event) ==
  [s EXCEPT !.origin = Or(event.payload.origin, @),
            !.originPair = Or(event.payload.originPair, @),
            !.minT = Or(event.payload.minT, @),
            !.maxT = Or(event.payload.maxT, @),
            !.location = IF s.currentState = "CREATED"
                           THEN Or(event.payload.origin, @) ELSE @]

Planned(s, event) ==
  [s EXCEPT !.plan = event.payload.plan,
            !.originalPlan = Or(@, event.payload.plan)]

Revised(s, event) == [s EXCEPT !.plan = event.payload.plan]

Extended(s, event) ==
  [s EXCEPT !.plan = event.payload.plan,
            !.days = event.payload.days,
            !.extendedBy = @ + event.payload.by]

(* Archival is a fact about the ledger; the container stays where it is.   *)
Flagged(s, archived) == [s EXCEPT !.archived = archived]

(* One event applied to one state.  The envelope part (version, instant of *)
(* the last event) is common to every type.                                *)
ApplyEvent(s, event) ==
  LET base == [s EXCEPT !.version = event.version, !.lastEventAt = event.at]
  IN  CASE event.type = "CONTAINER_CREATED"          -> Created(base, event)
        [] event.type \in MovementEvents             -> Moved(base, event)
        [] event.type \in {"TEMPERATURE_RECORDED",
                           "TEMPERATURE_SPIKE"}      -> Sampled(base, event)
        [] event.type = "SHIPMENT_DETAILS_AMENDED"   -> Amended(base, event)
        [] event.type = "SHIPMENT_SCHEDULE_PLANNED"  -> Planned(base, event)
        [] event.type = "SHIPMENT_SCHEDULE_REVISED"  -> Revised(base, event)
        [] event.type = "SHIPMENT_SCHEDULE_EXTENDED" -> Extended(base, event)
        [] event.type = "SHIPMENT_ARCHIVED"          -> Flagged(base, TRUE)
        [] event.type = "SHIPMENT_RESTORED"          -> Flagged(base, FALSE)

(* The fold.  The source refuses a stream whose versions are not 1, 2, 3,  *)
(* ...; Replayable is that refusal, Replay the state otherwise.            *)
Replayable(events) == \A i \in 1 .. Len(events) : events[i].version = i

ReplayFrom(initial, events) ==
  LET after[n \in 0 .. Len(events)] ==
        IF n = 0 THEN initial ELSE ApplyEvent(after[n - 1], events[n])
  IN  after[Len(events)]

Replay(events) == ReplayFrom(InitialShipment, events)

(* The events at some positions of a stream, in its order.                 *)
Picked(events, kept) ==
  LET rank(i) == Cardinality({j \in kept : j <= i})
  IN  [n \in 1 .. Cardinality(kept) |-> events[CHOOSE i \in kept : rank(i) = n]]

(* The events at or before an instant, the boundary included.              *)
EventsUntil(events, instant) ==
  Picked(events, {i \in DOMAIN events : events[i].at <= instant})

OfTypes(events, types) == Picked(events, {i \in DOMAIN events : events[i].type \in types})

-----------------------------------------------------------------------------
(* The schedule policy.                                                    *)

WindowOpens(s) == DayOf(s.createdAt)

WindowCloses(s) == DayOf(s.createdAt) + s.days

(* Mutant: stages confirmed without a date are let through.                *)
KeepsPlannedConfirmedDates(s, proposal) ==
  \A stage \in Stages : s.confirmed[stage] # NULL =>
    s.confirmed[stage].planned \in {NULL, proposal[stage].date}

(* A stage that has been confirmed keeps the date it was confirmed against; *)
(* one confirmed without a date matches no proposal.                       *)
KeepsConfirmedDates(s, proposal) ==
  \A stage \in Stages : s.confirmed[stage] # NULL =>
    s.confirmed[stage].planned = proposal[stage].date

(* A proposed plan is valid when every date is inside the window, the      *)
(* dates follow the lifecycle order, and confirmed stages keep theirs.     *)
ValidPlannedDates(s, proposal) ==
  /\ \A stage \in Stages :
       /\ WindowOpens(s) <= proposal[stage].date
       /\ proposal[stage].date <= WindowCloses(s)
  /\ proposal["LOAD_ON_SHIP"].date <= proposal["ARRIVE_AT_PORT"].date
  /\ proposal["ARRIVE_AT_PORT"].date <= proposal["UNLOAD_FROM_SHIP"].date
  /\ KeepsConfirmedDates(s, proposal)

(* Mutant: every plan is stored as if it were the first.                   *)
NormalisedAfresh(s, proposal) ==
  [stage \in Stages |->
     [date     |-> proposal[stage].date,
      original |-> proposal[stage].date,
      details  |-> proposal[stage].details]]

(* The stored form of a valid proposal: the first date ever planned for a  *)
(* stage is carried forward by every later plan.                           *)
Normalised(s, proposal) ==
  [stage \in Stages |->
     [date     |-> proposal[stage].date,
      original |-> IF s.plan = NULL THEN proposal[stage].date
                                    ELSE s.plan[stage].original,
      details  |-> Or(proposal[stage].details,
                      IF s.plan = NULL THEN NULL ELSE s.plan[stage].details)]]

(* Mutant: the whole plan moves, confirmed stages included.                *)
ExtendedPlanWhole(s, stage, by) ==
  [t \in Stages |-> [s.plan[t] EXCEPT !.date = @ + by]]

(* An extension moves the named stage and every later one that has not     *)
(* been confirmed.                                                         *)
ExtendedPlan(s, stage, by) ==
  [t \in Stages |->
     IF s.confirmed[t] = NULL /\ StageRank[t] >= StageRank[stage]
       THEN [s.plan[t] EXCEPT !.date = @ + by]
       ELSE s.plan[t]]

(* Mutants: the duration is left as it was; the duration always follows    *)
(* the last planned date.                                                  *)
ExtendedDaysKept(s, plan) == s.days

ExtendedDaysFollow(s, plan) == plan[LastStage].date - DayOf(s.createdAt)

(* The duration only grows: to the last planned date when that lies beyond *)
(* the window.                                                             *)
ExtendedDays(s, plan) ==
  LET required == plan[LastStage].date - DayOf(s.createdAt)
  IN  IF required > s.days THEN required ELSE s.days

-----------------------------------------------------------------------------
(* The aggregate.  Each command yields the set of events it may record:    *)
(* one event, or none when the aggregate refuses.                          *)

(* Mutant: the event repeats the version of the state it was decided on.   *)
EventSameVersion(s, type, at, payload) ==
  [type |-> type, version |-> s.version, at |-> at, payload |-> payload]

Event(s, type, at, payload) ==
  [type |-> type, version |-> s.version + 1, at |-> at, payload |-> payload]

(* The normalised country/state pair: present only when the client sent a  *)
(* structured location, and determined by the place it names.              *)
PairOf(c) == IF c.structured THEN c.origin ELSE NULL

Active(s) == Exists(s) /\ ~s.archived

Create(s, c, at) ==
  IF Exists(s) THEN {}
  ELSE {Event(s, "CONTAINER_CREATED", at,
              [origin |-> c.origin, originPair |-> PairOf(c),
               minT |-> c.minT, maxT |-> c.maxT, days |-> c.days])}

Move(s, c, at) ==
  LET planned == PlannedDate(s, c.stage)
  IN  IF Active(s) /\ s.currentState = RequiredState[c.stage]
        THEN {Event(s, ConfirmingEvent[c.stage], at,
                    [stage |-> c.stage, location |-> c.location,
                     planned |-> planned,
                     variance |-> IF planned = NULL THEN NULL
                                  ELSE DayOf(at) - planned])}
        ELSE {}

IsBreach(s, value) ==
  /\ s.minT # NULL /\ s.maxT # NULL
  /\ value > s.maxT \/ value < s.minT

RecordTemperature(s, c, at) ==
  IF Active(s)
    THEN {Event(s, IF IsBreach(s, c.value) THEN "TEMPERATURE_SPIKE"
                                           ELSE "TEMPERATURE_RECORDED",
                at, [value |-> c.value])}
    ELSE {}

(* Mutant: the two bounds are not compared.                                *)
BothBounds(minT, maxT) == minT # NULL /\ maxT # NULL

WholeRange(minT, maxT) == minT # NULL /\ maxT # NULL /\ minT <= maxT

(* A field that is absent or equal to the current value is no change; once *)
(* either bound changes, both are written.  The pair is compared by object *)
(* identity with a freshly loaded state, so a pair that is sent always     *)
(* counts as a change.                                                     *)
Amend(s, c, at) ==
  LET change(proposed, current) == IF proposed = current THEN NULL ELSE proposed
      origin  == change(c.origin, s.origin)
      touched == \/ change(c.minT, s.minT) # NULL
                 \/ change(c.maxT, s.maxT) # NULL
      minT    == Or(c.minT, s.minT)
      maxT    == Or(c.maxT, s.maxT)
  IN  IF /\ Active(s)
         /\ origin # NULL \/ PairOf(c) # NULL \/ touched
         /\ touched => WholeRange(minT, maxT)
        THEN {Event(s, "SHIPMENT_DETAILS_AMENDED", at,
                    [origin |-> origin, originPair |-> PairOf(c),
                     minT |-> IF touched THEN minT ELSE NULL,
                     maxT |-> IF touched THEN maxT ELSE NULL])}
        ELSE {}

PlanSchedule(s, c, at) ==
  IF Active(s) /\ s.plan = NULL /\ ValidPlannedDates(s, c.proposal)
    THEN {Event(s, "SHIPMENT_SCHEDULE_PLANNED", at,
                [plan |-> Normalised(s, c.proposal)])}
    ELSE {}

ReviseSchedule(s, c, at) ==
  IF /\ Active(s) /\ s.plan # NULL /\ ValidPlannedDates(s, c.proposal)
     /\ Normalised(s, c.proposal) # s.plan
    THEN {Event(s, "SHIPMENT_SCHEDULE_REVISED", at,
                [plan |-> Normalised(s, c.proposal), previous |-> s.plan])}
    ELSE {}

ExtendSchedule(s, c, at) ==
  IF Active(s) /\ s.plan # NULL /\ s.confirmed[c.stage] = NULL
    THEN LET plan == ExtendedPlan(s, c.stage, c.days)
         IN  {Event(s, "SHIPMENT_SCHEDULE_EXTENDED", at,
                    [stage |-> c.stage, by |-> c.days, plan |-> plan,
                     previous |-> s.plan, days |-> ExtendedDays(s, plan)])}
    ELSE {}

Archive(s, at) ==
  IF Active(s) THEN {Event(s, "SHIPMENT_ARCHIVED", at, [reason |-> NULL])} ELSE {}

Restore(s, at) ==
  IF Exists(s) /\ s.archived
    THEN {Event(s, "SHIPMENT_RESTORED", at, [reason |-> NULL])} ELSE {}

Decide(s, c, at) ==
  CASE c.kind = "create"      -> Create(s, c, at)
    [] c.kind = "move"        -> Move(s, c, at)
    [] c.kind = "temperature" -> RecordTemperature(s, c, at)
    [] c.kind = "amend"       -> Amend(s, c, at)
    [] c.kind = "plan"        -> PlanSchedule(s, c, at)
    [] c.kind = "revise"      -> ReviseSchedule(s, c, at)
    [] c.kind = "extend"      -> ExtendSchedule(s, c, at)
    [] c.kind = "archive"     -> Archive(s, at)
    [] c.kind = "restore"     -> Restore(s, at)

(* Mutant: chronology is left to the caller.                               *)
AnyOrder(s, at) == TRUE

(* An event may not be stamped before its predecessor.                     *)
InOrder(s, at) == s.lastEventAt # NULL => at >= s.lastEventAt
=============================================================================
