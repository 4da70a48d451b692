----------------------- MODULE ShipmentQueries_proofs -----------------------
(***************************************************************************)
(* What holds of the ledger and of everything that is read from it, for    *)
(* any commands, instants and number of shipments.                         *)
(*                                                                         *)
(* The ledger.  The reducer is a fold, and folding one event more is one   *)
(* application of the reducer; so a stream of the ledger is a history of   *)
(* Shipment.tla, and the domain rules proved there hold of what every      *)
(* stored stream folds to.                                                 *)
(*                                                                         *)
(* The read side.  A document keeps less than the state it was written     *)
(* from: of the confirmations only when and which, and those only when     *)
(* there is a plan.  Two states it cannot tell apart (Similar) stay so     *)
(* when the same decided events are applied to both, and make the same     *)
(* documents; so a document that the worker writes step by step, each time *)
(* from the document before, is the one a replay would write on that day,  *)
(* and the day can be exchanged for another when it is served.  Streams    *)
(* only grow (Continues), so what a query has read stays true of a prefix. *)
(*                                                                         *)
(* The views.  Chart, report and dashboard pick events by their type; what *)
(* is picked grows as the stream does (OfTypesGrows), so that after every  *)
(* event each view can be compared with the state (ViewsOK).               *)
(*                                                                         *)
(* `Aggregate' is any one shipment: what is proved of it holds of each.    *)
(***************************************************************************)
EXTENDS ShipmentQueries, FiniteSetTheorems, SequenceTheorems, WellFoundedInduction, TLAPS

CONSTANT Aggregate

One == INSTANCE Shipment_proofs WITH
  shipment <- Replay(log[Aggregate]), MaxEvents <- MaxVersion

-----------------------------------------------------------------------------
(* The fold.                                                               *)

(* g holds what the first n events of a stream leave, for each n.          *)
Folds(g, initial, events) ==
  g = [n \in 0 .. Len(events) |->
         IF n = 0 THEN initial ELSE ApplyEvent(g[n - 1], events[n])]

(* Of the numbers with a property, one is the smallest.                     *)
LEMMA LeastElement ==
  ASSUME NEW S \in SUBSET Nat, S # {}
  PROVE  \E n \in S : \A m \in S : n <= m
<1>1. PICK n \in S : \A m \in S : ~(<<m, n>> \in OpToRel(<, Nat))
  BY NatLessThanWellFounded, WFMin
<1>2. \A m \in S : ~(m < n)
  BY <1>1 DEF OpToRel
<1>. QED
  BY <1>2

(* Every stream can be folded.                                             *)
LEMMA FoldExists ==
  ASSUME NEW events, Len(events) \in Nat, NEW initial
  PROVE  \E g : Folds(g, initial, events)
<1>. DEFINE Upto(n, g) == g = [m \in 0 .. n |->
              IF m = 0 THEN initial ELSE ApplyEvent(g[m - 1], events[m])]
            Bad == {n \in Nat : ~\E g : Upto(n, g)}
<1>1. SUFFICES ASSUME Bad # {} PROVE FALSE
  BY DEF Folds
<1>2. PICK n \in Bad : \A m \in Bad : n <= m
  BY <1>1, LeastElement
<1>3. n # 0
  <2>. DEFINE g == [m \in 0 .. 0 |-> initial]
  <2>1. Upto(0, g)
    <3>1. \A m \in 0 .. 0 : m = 0
      OBVIOUS
    <3>. QED
      BY <3>1
  <2>. QED
    BY <2>1
<1>4. PICK g : Upto(n - 1, g)
  BY <1>2, <1>3
<1>. DEFINE h == [m \in 0 .. n |->
                    IF m = n THEN ApplyEvent(g[n - 1], events[n]) ELSE g[m]]
<1>5. Upto(n, h)
  <2>1. \A m \in 0 .. n - 1 :
          g[m] = IF m = 0 THEN initial ELSE ApplyEvent(g[m - 1], events[m])
    BY <1>4
  <2>2. \A m \in 0 .. n : h[m] = IF m = 0 THEN initial ELSE ApplyEvent(h[m - 1], events[m])
    <3>. SUFFICES ASSUME NEW m \in 0 .. n
                  PROVE h[m] = IF m = 0 THEN initial ELSE ApplyEvent(h[m - 1], events[m])
      OBVIOUS
    <3>1. CASE m = n
      BY <3>1, <1>3
    <3>2. CASE m # n
      <4>1. m \in 0 .. n - 1 /\ h[m] = g[m]
        BY <3>2
      <4>2. m # 0 => m - 1 \in 0 .. n /\ m - 1 # n /\ h[m - 1] = g[m - 1]
        BY <3>2
      <4>. QED
        BY <4>1, <4>2, <2>1
    <3>. QED
      BY <3>1, <3>2
  <2>3. h = [m \in 0 .. n |-> h[m]]
    OBVIOUS
  <2>. HIDE DEF h
  <2>. QED
    BY <2>2, <2>3
<1>. QED
  BY <1>2, <1>5

(* Two folds that agree on the first events agree on what they leave.      *)
LEMMA FoldUnique ==
  ASSUME NEW s, NEW t, NEW initial, Len(s) \in Nat, Len(t) \in Nat,
         NEW k \in Nat, k <= Len(s), k <= Len(t),
         \A i \in 1 .. k : s[i] = t[i],
         NEW g, Folds(g, initial, s), NEW h, Folds(h, initial, t)
  PROVE  g[k] = h[k]
<1>. DEFINE Bad == {n \in 0 .. k : g[n] # h[n]}
<1>1. SUFFICES ASSUME Bad # {} PROVE FALSE
  OBVIOUS
<1>2. PICK n \in Bad : \A m \in Bad : n <= m
  <2>1. Bad \in SUBSET Nat
    OBVIOUS
  <2>. HIDE DEF Bad
  <2>. QED
    BY <1>1, <2>1, LeastElement
<1>3. /\ g[n] = IF n = 0 THEN initial ELSE ApplyEvent(g[n - 1], s[n])
      /\ h[n] = IF n = 0 THEN initial ELSE ApplyEvent(h[n - 1], t[n])
  <2>1. n \in 0 .. Len(s) /\ n \in 0 .. Len(t)
    OBVIOUS
  <2>2. g[n] = IF n = 0 THEN initial ELSE ApplyEvent(g[n - 1], s[n])
    BY <2>1 DEF Folds
  <2>3. h[n] = IF n = 0 THEN initial ELSE ApplyEvent(h[n - 1], t[n])
    BY <2>1 DEF Folds
  <2>. QED
    BY <2>2, <2>3
<1>4. n # 0
  BY <1>3
<1>5. n - 1 \in 0 .. k /\ n - 1 \notin Bad
  BY <1>2, <1>4
<1>6. g[n - 1] = h[n - 1] /\ s[n] = t[n]
  BY <1>4, <1>5
<1>. QED
  BY <1>3, <1>4, <1>6

(* What the reducer's loop returns is the last value of the fold.          *)
LEMMA ReplayFromIsFold ==
  ASSUME NEW events, Len(events) \in Nat, NEW initial
  PROVE  \E g : Folds(g, initial, events) /\ ReplayFrom(initial, events) = g[Len(events)]
<1>. DEFINE g == CHOOSE f : Folds(f, initial, events)
<1>1. Folds(g, initial, events)
  BY FoldExists
<1>2. ReplayFrom(initial, events) = g[Len(events)]
  BY DEF ReplayFrom, Folds
<1>. QED
  BY <1>1, <1>2

(* Folding nothing changes nothing.                                        *)
LEMMA ReplayFromNothing ==
  ASSUME NEW initial
  PROVE  ReplayFrom(initial, <<>>) = initial
<1>1. Len(<<>>) = 0
  OBVIOUS
<1>2. PICK g : Folds(g, initial, <<>>) /\ ReplayFrom(initial, <<>>) = g[0]
  BY <1>1, ReplayFromIsFold
<1>. QED
  BY <1>1, <1>2 DEF Folds

(* Folding one event more is one more application of the reducer.          *)
LEMMA ReplayFromOneMore ==
  ASSUME NEW initial, NEW S, NEW events \in Seq(S), NEW event \in S
  PROVE  ReplayFrom(initial, Append(events, event))
           = ApplyEvent(ReplayFrom(initial, events), event)
<1>. DEFINE longer == Append(events, event)
            n == Len(events)
<1>1. n \in Nat /\ Len(longer) = n + 1 /\ longer[n + 1] = event
      /\ \A i \in 1 .. n : longer[i] = events[i]
  OBVIOUS
<1>2. PICK g : Folds(g, initial, events) /\ ReplayFrom(initial, events) = g[n]
  BY <1>1, ReplayFromIsFold
<1>3. PICK h : Folds(h, initial, longer) /\ ReplayFrom(initial, longer) = h[n + 1]
  <2>1. Len(longer) \in Nat
    BY <1>1
  <2>. HIDE DEF longer
  <2>. QED
    BY <1>1, <2>1, ReplayFromIsFold
<1>4. g[n] = h[n]
  <2>1. n <= n /\ n <= Len(longer) /\ Len(longer) \in Nat
    BY <1>1
  <2>2. \A i \in 1 .. n : events[i] = longer[i]
    BY <1>1
  <2>. HIDE DEF longer, n
  <2>. QED
    BY <1>1, <1>2, <1>3, <2>1, <2>2, FoldUnique DEF n
<1>5. h[n + 1] = ApplyEvent(h[n], event)
  <2>1. n + 1 \in 0 .. Len(longer) /\ n + 1 # 0 /\ (n + 1) - 1 = n
    BY <1>1
  <2>. HIDE DEF longer, n
  <2>. QED
    BY <1>1, <1>3, <2>1 DEF Folds
<1>. QED
  BY <1>2, <1>3, <1>4, <1>5

LEMMA ReplayOfNothing ==
  Replay(<<>>) = InitialShipment
BY ReplayFromNothing DEF Replay

LEMMA ReplayOfOneMore ==
  ASSUME NEW S, NEW events \in Seq(S), NEW event \in S
  PROVE  Replay(Append(events, event)) = ApplyEvent(Replay(events), event)
BY ReplayFromOneMore DEF Replay

-----------------------------------------------------------------------------
(* The inductive invariant.                                                *)

(* The envelopes of a stream: versions count from one, and no event is     *)
(* dated before its predecessor.                                           *)
StreamOK(events) ==
  /\ events \in Seq(Range(events))
  /\ Len(events) <= MaxVersion
  /\ \A i \in 1 .. Len(events) :
       events[i].type \in EventTypes /\ events[i].version = i /\ events[i].at \in Times
  /\ \A i, j \in 1 .. Len(events) : i <= j => events[i].at <= events[j].at

(* The folded state carries the envelope of the last event.                *)
FoldOK(events) ==
  /\ DOMAIN Replay(events) = DOMAIN InitialShipment
  /\ Replay(events).version = Len(events)
  /\ Replay(events).lastEventAt =
       IF Len(events) = 0 THEN NULL ELSE events[Len(events)].at

Inv ==
  /\ log = [a \in Aggregates |-> log[a]]
  /\ \A a \in Aggregates : StreamOK(log[a]) /\ FoldOK(log[a])

(* Every event of the reducer writes its envelope into the state.          *)
LEMMA ApplyEnvelope ==
  ASSUME NEW s, DOMAIN s = DOMAIN InitialShipment, NEW event, event.type \in EventTypes
  PROVE  /\ DOMAIN ApplyEvent(s, event) = DOMAIN InitialShipment
         /\ ApplyEvent(s, event).version = event.version
         /\ ApplyEvent(s, event).lastEventAt = event.at
<1>. DEFINE base == [s EXCEPT !.version = event.version, !.lastEventAt = event.at]
            Stamped(t) == /\ DOMAIN t = DOMAIN InitialShipment
                          /\ t.version = event.version /\ t.lastEventAt = event.at
<1>1. Stamped(base)
  BY DEF InitialShipment
<1>2. \A t : Stamped(t) => "version" \in DOMAIN t /\ "lastEventAt" \in DOMAIN t
  BY DEF InitialShipment
<1>3. /\ Stamped(Created(base, event)) /\ Stamped(Moved(base, event))
      /\ Stamped(Sampled(base, event)) /\ Stamped(Amended(base, event))
      /\ Stamped(Planned(base, event)) /\ Stamped(Revised(base, event))
      /\ Stamped(Extended(base, event))
      /\ Stamped(Flagged(base, TRUE)) /\ Stamped(Flagged(base, FALSE))
  <2>1. /\ "version" \in DOMAIN base /\ "lastEventAt" \in DOMAIN base
        /\ DOMAIN base = DOMAIN InitialShipment
        /\ base.version = event.version /\ base.lastEventAt = event.at
    BY <1>1, <1>2
  <2>. HIDE DEF base
  <2>2. Stamped(Created(base, event))
    BY <2>1 DEF Created
  <2>3. Stamped(Moved(base, event))
    BY <2>1 DEF Moved
  <2>4. Stamped(Sampled(base, event))
    BY <2>1 DEF Sampled
  <2>5. Stamped(Amended(base, event))
    BY <2>1 DEF Amended
  <2>6. Stamped(Planned(base, event)) /\ Stamped(Revised(base, event))
    BY <2>1 DEF Planned, Revised
  <2>7. Stamped(Extended(base, event))
    BY <2>1 DEF Extended
  <2>8. Stamped(Flagged(base, TRUE)) /\ Stamped(Flagged(base, FALSE))
    BY <2>1 DEF Flagged
  <2>. QED
    BY <2>2, <2>3, <2>4, <2>5, <2>6, <2>7, <2>8
<1>4. ApplyEvent(s, event) \in
        {Created(base, event), Moved(base, event), Sampled(base, event),
         Amended(base, event), Planned(base, event), Revised(base, event),
         Extended(base, event), Flagged(base, TRUE), Flagged(base, FALSE)}
  BY DEF ApplyEvent, EventTypes
<1>. QED
  BY <1>3, <1>4

(* What the first k events of a stream fold to carries the version of the  *)
(* last of them, whatever the events are.                                  *)
LEMMA PrefixEnvelope ==
  ASSUME NEW S, NEW events \in Seq(S), NEW k \in 0 .. Len(events),
         \A i \in 1 .. Len(events) : events[i].type \in EventTypes
  PROVE  /\ DOMAIN Replay(SubSeq(events, 1, k)) = DOMAIN InitialShipment
         /\ Replay(SubSeq(events, 1, k)).version = IF k = 0 THEN 0 ELSE events[k].version
<1>. DEFINE state(m) == Replay(SubSeq(events, 1, m))
            Good(m) == /\ DOMAIN state(m) = DOMAIN InitialShipment
                       /\ state(m).version = IF m = 0 THEN 0 ELSE events[m].version
            Bad == {m \in 0 .. Len(events) : ~Good(m)}
<1>1. Len(events) \in Nat
  OBVIOUS
<1>2. SUFFICES ASSUME Bad # {} PROVE FALSE
  OBVIOUS
<1>3. PICK m \in Bad : \A n \in Bad : m <= n
  <2>1. Bad \in SUBSET Nat
    BY <1>1
  <2>. HIDE DEF Bad
  <2>. QED
    BY <1>2, <2>1, LeastElement
<1>4. m # 0
  <2>1. SubSeq(events, 1, 0) = <<>>
    OBVIOUS
  <2>2. state(0) = InitialShipment
    BY <2>1, ReplayOfNothing
  <2>3. Good(0)
    BY <2>2 DEF InitialShipment
  <2>. QED
    BY <2>3
<1>5. m - 1 \in 0 .. Len(events) /\ Good(m - 1)
  <2>1. m - 1 \in 0 .. Len(events) /\ m - 1 < m
    BY <1>1, <1>4
  <2>2. m - 1 \notin Bad
    <3>1. m \in Nat
      BY <1>1
    <3>. HIDE DEF Bad
    <3>. QED
      BY <1>3, <2>1, <3>1
  <2>. QED
    BY <2>1, <2>2
<1>6. state(m) = ApplyEvent(state(m - 1), events[m])
  <2>1. m \in 1 .. Len(events)
    BY <1>1, <1>4
  <2>2. /\ SubSeq(events, 1, m) = Append(SubSeq(events, 1, m - 1), events[m])
        /\ SubSeq(events, 1, m - 1) \in Seq(S) /\ events[m] \in S
    BY <2>1
  <2>. QED
    BY <2>2, ReplayOfOneMore
<1>7. Good(m)
  <2>1. m \in 1 .. Len(events) /\ events[m].type \in EventTypes
    BY <1>1, <1>4
  <2>. HIDE DEF state, Bad
  <2>. QED
    BY <1>4, <1>5, <1>6, <2>1, ApplyEnvelope
<1>. QED
  BY <1>7

(* A command has one of the kinds the aggregate knows.                     *)
LEMMA CommandKinds ==
  ASSUME NEW c \in Commands
  PROVE  /\ c.kind \in {"create", "move", "temperature", "amend", "plan", "revise",
                         "extend", "archive", "restore"}
         /\ c.kind = "move" => c.stage \in Stages
BY LedgerAssumption
   DEF ValidCommands, CreateCommands, MoveCommands, TemperatureCommands, AmendCommands,
       PlanCommands, ReviseCommands, ExtendCommands, ArchiveCommands, RestoreCommands

(* Every event a command is decided to record carries the next version and *)
(* the instant it was stamped with.                                        *)
LEMMA DecidedEnvelope ==
  ASSUME NEW s, NEW c \in Commands, NEW at, NEW event \in Decide(s, c, at)
  PROVE  /\ event.type \in EventTypes
         /\ event.version = s.version + 1 /\ event.at = at
         /\ {"version", "at"} \subseteq DOMAIN event
<1>1. PICK type \in EventTypes : \E payload : event = Event(s, type, at, payload)
  <2>1. CASE c.kind = "create"
    BY <2>1 DEF Decide, Create, EventTypes
  <2>2. CASE c.kind = "move"
    <3>1. ConfirmingEvent[c.stage] \in EventTypes
      BY <2>2, CommandKinds DEF EventTypes, MovementEvents
    <3>. QED
      BY <2>2, <3>1 DEF Decide, Move
  <2>3. CASE c.kind = "temperature"
    BY <2>3 DEF Decide, RecordTemperature, EventTypes
  <2>4. CASE c.kind = "amend"
    BY <2>4 DEF Decide, Amend, EventTypes
  <2>5. CASE c.kind = "plan"
    BY <2>5 DEF Decide, PlanSchedule, EventTypes
  <2>6. CASE c.kind = "revise"
    BY <2>6 DEF Decide, ReviseSchedule, EventTypes
  <2>7. CASE c.kind = "extend"
    BY <2>7 DEF Decide, ExtendSchedule, EventTypes
  <2>8. CASE c.kind \in {"archive", "restore"}
    BY <2>8 DEF Decide, Archive, Restore, EventTypes
  <2>. QED
    BY <2>1, <2>2, <2>3, <2>4, <2>5, <2>6, <2>7, <2>8, CommandKinds
<1>. QED
  BY <1>1 DEF Event

(* Nothing is recorded at first.                                           *)
LEMMA InvInit ==
  ASSUME Init
  PROVE  Inv
<1>1. \A a \in Aggregates : log[a] = <<>>
  BY DEF Init
<1>2. StreamOK(<<>>)
  BY LedgerAssumption DEF StreamOK
<1>3. FoldOK(<<>>)
  BY ReplayOfNothing DEF FoldOK, InitialShipment
<1>. QED
  BY <1>1, <1>2, <1>3 DEF Inv, Init

(* A stream stays sound when it grows by what was decided on all of it.    *)
LEMMA GrowthPreserves ==
  ASSUME NEW events, StreamOK(events), FoldOK(events), Len(events) < MaxVersion,
         NEW c \in Commands, NEW at \in Times, InOrder(Replay(events), at),
         NEW event \in Decide(Replay(events), c, at)
  PROVE  StreamOK(Append(events, event)) /\ FoldOK(Append(events, event))
<1>. DEFINE longer == Append(events, event)
            n == Len(events)
            T == Range(events) \cup {event}
<1>1. /\ event.type \in EventTypes /\ event.version = n + 1 /\ event.at = at
      /\ n \in Nat
  BY DecidedEnvelope DEF FoldOK, StreamOK
<1>2. events \in Seq(T)
  <2>. DEFINE R == Range(events)
  <2>1. events \in Seq(R)
    BY DEF StreamOK
  <2>. HIDE DEF R
  <2>2. events \in Seq(R \cup {event})
    BY <2>1
  <2>. QED
    BY <2>2 DEF R
<1>3. /\ longer \in Seq(T) /\ Len(longer) = n + 1 /\ longer[n + 1] = event
      /\ \A i \in 1 .. n : longer[i] = events[i]
  <2>. HIDE DEF T
  <2>. QED
    BY <1>2 DEF T
<1>4. longer \in Seq(Range(longer))
  <2>1. DOMAIN longer = 1 .. n + 1 /\ \A i \in DOMAIN longer : longer[i] \in Range(longer)
    <3>1. DOMAIN longer = 1 .. Len(longer)
      <4>. HIDE DEF T, longer
      <4>. QED
        BY <1>3
    <3>. HIDE DEF longer
    <3>. QED
      BY <1>3, <3>1 DEF Range
  <2>. HIDE DEF longer, T, n
  <2>2. longer = [i \in 1 .. n + 1 |-> longer[i]]
    BY <1>3, <2>1
  <2>. QED
    BY <1>1, <2>1, <2>2
<1>5. \A i \in 1 .. n : events[i].at <= at
  <2>. SUFFICES ASSUME NEW i \in 1 .. n PROVE events[i].at <= at
    OBVIOUS
  <2>1. n \in 1 .. n /\ events[n].at \in Int /\ events[i].at \in Int /\ at \in Int
    <3>1. Times \subseteq Int
      BY LedgerAssumption
    <3>2. n \in 1 .. n
      BY <1>1
    <3>3. events[n].at \in Times /\ events[i].at \in Times
      BY <3>2 DEF StreamOK
    <3>. QED
      BY <3>1, <3>2, <3>3
  <2>2. Replay(events).lastEventAt = events[n].at /\ events[n].at # NULL
    BY <2>1, DomainAssumption DEF FoldOK
  <2>3. events[i].at <= events[n].at
    BY <2>1 DEF StreamOK
  <2>. QED
    BY <2>1, <2>2, <2>3 DEF InOrder
<1>6. StreamOK(longer)
  <2>1. \A i \in 1 .. n + 1 : /\ longer[i].type \in EventTypes
                               /\ longer[i].version = i /\ longer[i].at \in Times
    <3>. HIDE DEF longer, T
    <3>. QED
      BY <1>1, <1>3 DEF StreamOK
  <2>2. \A i, j \in 1 .. n + 1 : i <= j => longer[i].at <= longer[j].at
    <3>. SUFFICES ASSUME NEW i \in 1 .. n + 1, NEW j \in 1 .. n + 1, i <= j
                  PROVE  longer[i].at <= longer[j].at
      OBVIOUS
    <3>. HIDE DEF longer, T
    <3>1. CASE j = n + 1 /\ i # j
      BY <1>1, <1>3, <1>5, <3>1
    <3>2. CASE i = j
      <4>1. longer[i].at \in Int
        BY <2>1, LedgerAssumption
      <4>. QED
        BY <3>2, <4>1
    <3>3. CASE j # n + 1
      BY <1>1, <1>3, <3>3 DEF StreamOK
    <3>. QED
      BY <3>1, <3>2, <3>3
  <2>. HIDE DEF longer, T
  <2>. QED
    BY <1>1, <1>3, <1>4, <2>1, <2>2, LedgerAssumption DEF StreamOK
<1>7. FoldOK(longer)
  <2>1. Replay(longer) = ApplyEvent(Replay(events), event)
    <3>. HIDE DEF T
    <3>1. event \in T
      BY DEF T
    <3>. QED
      BY <1>2, <3>1, ReplayOfOneMore
  <2>2. /\ DOMAIN Replay(longer) = DOMAIN InitialShipment
        /\ Replay(longer).version = event.version /\ Replay(longer).lastEventAt = event.at
    BY <1>1, <2>1, ApplyEnvelope DEF FoldOK
  <2>. HIDE DEF longer, T
  <2>. QED
    BY <1>1, <1>3, <2>2 DEF FoldOK
<1>. QED
  BY <1>6, <1>7

LEMMA InvNext ==
  ASSUME Inv, [Next]_log
  PROVE  Inv'
<1>1. CASE UNCHANGED log
  BY <1>1 DEF Inv, StreamOK, FoldOK
<1>2. ASSUME NEW a \in Aggregates, NEW c \in Commands, NEW at \in Times, Record(a, c, at)
      PROVE  Inv'
  <2>1. PICK event \in Decide(Replay(log[a]), c, at) :
          log' = [log EXCEPT ![a] = Append(log[a], event)]
    BY <1>2 DEF Record
  <2>2. StreamOK(Append(log[a], event)) /\ FoldOK(Append(log[a], event))
    BY <1>2, GrowthPreserves DEF Inv, Record
  <2>3. /\ log' = [b \in Aggregates |-> log'[b]]
        /\ log'[a] = Append(log[a], event)
        /\ \A b \in Aggregates \ {a} : log'[b] = log[b]
    BY <2>1 DEF Inv
  <2>4. \A b \in Aggregates : StreamOK(log'[b]) /\ FoldOK(log'[b])
    BY <2>2, <2>3 DEF Inv
  <2>. QED
    BY <2>3, <2>4 DEF Inv, StreamOK, FoldOK
<1>. QED
  BY <1>1, <1>2 DEF Next

(* The envelopes of every stream and the states they fold to are sound.    *)
THEOREM LedgerInvariance == Spec => []Inv
<1>1. Init => Inv
  BY InvInit
<1>2. Inv /\ [Next]_log => Inv'
  BY InvNext
<1>. QED
  BY <1>1, <1>2, PTL DEF Spec

-----------------------------------------------------------------------------
(* Time travel.                                                            *)

(* The events at or before an instant are those up to some position.       *)
LEMMA PastIsInitial ==
  ASSUME NEW events, StreamOK(events), NEW instant \in Times
  PROVE  \E k \in 0 .. Len(events) :
           {i \in DOMAIN events : events[i].at <= instant} = 1 .. k
<1>1. PICK n \in Nat : n = Len(events) /\ DOMAIN events = 1 .. n
  BY DEF StreamOK
<1>. DEFINE Late == {k \in Nat : k = n \/ events[k + 1].at > instant}
<1>2. n \in Late /\ Late \in SUBSET Nat
  OBVIOUS
<1>3. PICK k \in Late : \A m \in Late : k <= m
  <2>. HIDE DEF Late
  <2>. QED
    BY <1>2, LeastElement
<1>4. k \in Nat /\ k <= n
  BY <1>2, <1>3
<1>5. k # n => events[k + 1].at > instant
  OBVIOUS
<1>6. instant \in Int /\ \A i \in 1 .. n : events[i].at \in Int
  BY <1>1, LedgerAssumption DEF StreamOK
<1>7. ASSUME NEW i \in 1 .. k
      PROVE  events[i].at <= instant
  <2>1. i - 1 \in Nat /\ i - 1 < k /\ i - 1 # n /\ (i - 1) + 1 = i
    BY <1>4
  <2>2. i - 1 \notin Late
    <3>. HIDE DEF Late
    <3>. QED
      BY <1>3, <1>4, <2>1
  <2>3. ~(events[i].at > instant)
    BY <2>1, <2>2
  <2>. QED
    BY <1>4, <1>6, <2>3
<1>8. ASSUME NEW i \in 1 .. n, events[i].at <= instant, k < i
      PROVE  FALSE
  <2>1. k + 1 \in 1 .. n /\ k + 1 <= i /\ k # n
    BY <1>4, <1>8
  <2>2. events[k + 1].at <= events[i].at
    BY <1>1, <2>1 DEF StreamOK
  <2>. QED
    BY <1>5, <1>6, <1>8, <2>1, <2>2
<1>. HIDE DEF Late
<1>9. \A i \in 1 .. n : events[i].at <= instant <=> i \in 1 .. k
  BY <1>4, <1>7, <1>8
<1>10. {i \in 1 .. n : events[i].at <= instant} = 1 .. k
  BY <1>4, <1>9
<1>. QED
  BY <1>1, <1>4, <1>10

(* So a historical query reads a prefix of the stream.                     *)
LEMMA PastIsPrefix ==
  ASSUME NEW events, StreamOK(events), NEW instant \in Times
  PROVE  \E k \in 0 .. Len(events) :
           /\ {i \in DOMAIN events : events[i].at <= instant} = 1 .. k
           /\ EventsUntil(events, instant) = SubSeq(events, 1, k)
           /\ Len(SubSeq(events, 1, k)) = k
           /\ \A i \in 1 .. k : SubSeq(events, 1, k)[i] = events[i]
<1>. DEFINE kept == {i \in DOMAIN events : events[i].at <= instant}
            rank(i) == Cardinality({j \in kept : j <= i})
            R == Range(events)
<1>1. PICK k \in 0 .. Len(events) : kept = 1 .. k
  BY PastIsInitial
<1>2. Cardinality(kept) = k
  <2>1. \A m \in Nat : Cardinality(1 .. m) = m
    BY FS_Interval
  <2>. HIDE DEF kept
  <2>. QED
    BY <1>1, <2>1 DEF StreamOK
<1>3. ASSUME NEW i \in kept
      PROVE  rank(i) = i
  <2>1. {j \in kept : j <= i} = 1 .. i
    <3>. HIDE DEF kept
    <3>. QED
      BY <1>1
  <2>2. i \in Nat /\ i >= 1
    <3>. HIDE DEF kept
    <3>. QED
      BY <1>1
  <2>3. \A m \in Nat : Cardinality(1 .. m) = m
    BY FS_Interval
  <2>. HIDE DEF kept
  <2>. QED
    BY <2>1, <2>2, <2>3
<1>4. ASSUME NEW n \in 1 .. k
      PROVE  (CHOOSE i \in kept : rank(i) = n) = n
  <2>. HIDE DEF kept, rank
  <2>. QED
    BY <1>1, <1>3
<1>5. EventsUntil(events, instant) = [n \in 1 .. k |-> events[n]]
  <2>1. EventsUntil(events, instant)
          = [n \in 1 .. Cardinality(kept) |-> events[CHOOSE i \in kept : rank(i) = n]]
    BY DEF EventsUntil, Picked
  <2>. HIDE DEF kept, rank
  <2>. QED
    BY <1>2, <1>4, <2>1
<1>6. events \in Seq(R)
  BY DEF StreamOK
<1>. HIDE DEF R, kept, rank
<1>7. SubSeq(events, 1, k) = [n \in 1 .. k |-> events[n]]
  BY <1>6
<1>. QED
  BY <1>1, <1>5, <1>7 DEF kept

(* For every instant the events at or before it are a prefix of the stream *)
(* that can be replayed, of any number of shipments and events.            *)
THEOREM TimeTravelIsSound == Spec => []TimeTravelIsPrefix
<1>1. Inv => TimeTravelIsPrefix
  <2>. SUFFICES ASSUME Inv, NEW a \in Aggregates, NEW instant \in Times
                PROVE  LET past == EventsUntil(log[a], instant)
                       IN  /\ past = SubSeq(log[a], 1, Len(past))
                           /\ Replayable(past)
    BY DEF TimeTravelIsPrefix
  <2>1. StreamOK(log[a])
    BY DEF Inv
  <2>2. PICK k \in 0 .. Len(log[a]) :
          /\ EventsUntil(log[a], instant) = SubSeq(log[a], 1, k)
          /\ Len(SubSeq(log[a], 1, k)) = k
          /\ \A i \in 1 .. k : SubSeq(log[a], 1, k)[i] = log[a][i]
    BY <2>1, PastIsPrefix
  <2>3. \A i \in 1 .. k : log[a][i].version = i
    BY <2>1 DEF StreamOK
  <2>. QED
    BY <2>2, <2>3 DEF Replayable
<1>. QED
  BY <1>1, LedgerInvariance, PTL

-----------------------------------------------------------------------------
(* One stream is one shipment.                                             *)

LEMMA SameApply ==
  ASSUME NEW s, NEW event
  PROVE  One!ApplyEvent(s, event) = ApplyEvent(s, event)
BY DEF ApplyEvent, Created, Moved, Sampled, Amended, Planned, Revised, Extended, Flagged,
       ConfirmStage, Or, PlannedDate, MovementEvents, ConfirmingEvent, Stages,
       ReachedState,
       One!ApplyEvent, One!Created, One!Moved, One!Sampled, One!Amended, One!Planned,
       One!Revised, One!Extended, One!Flagged, One!ConfirmStage, One!Or,
       One!PlannedDate, One!MovementEvents, One!ConfirmingEvent, One!Stages,
       One!ReachedState

LEMMA SameDecide ==
  ASSUME NEW s, NEW c, NEW at
  PROVE  One!Decide(s, c, at) = Decide(s, c, at)
BY DEF Decide, Create, Move, RecordTemperature, Amend, PlanSchedule, ReviseSchedule,
       ExtendSchedule, Archive, Restore, Active, Exists, Event, PairOf, PlannedDate,
       RequiredState, ConfirmingEvent, DayOf, IsBreach, WholeRange, Or,
       ValidPlannedDates, KeepsConfirmedDates, WindowOpens, WindowCloses, Normalised,
       ExtendedPlan, ExtendedDays, StageRank, Stages, LastStage,
       One!Decide, One!Create, One!Move, One!RecordTemperature, One!Amend,
       One!PlanSchedule, One!ReviseSchedule, One!ExtendSchedule, One!Archive,
       One!Restore, One!Active, One!Exists, One!Event, One!PairOf, One!PlannedDate,
       One!RequiredState, One!ConfirmingEvent, One!DayOf, One!IsBreach,
       One!WholeRange, One!Or, One!ValidPlannedDates, One!KeepsConfirmedDates,
       One!WindowOpens, One!WindowCloses, One!Normalised, One!ExtendedPlan,
       One!ExtendedDays, One!StageRank, One!Stages, One!LastStage

(* A command recorded in the stream is a command handled by the shipment.  *)
LEMMA RecordIsHandled ==
  ASSUME Inv, Aggregate \in Aggregates,
         NEW c \in Commands, NEW at \in Times, Record(Aggregate, c, at)
  PROVE  One!Next
<1>. DEFINE s == Replay(log[Aggregate])
<1>1. PICK event \in Decide(s, c, at) :
        log' = [log EXCEPT ![Aggregate] = Append(log[Aggregate], event)]
  BY DEF Record
<1>2. Replay(log[Aggregate])' = ApplyEvent(s, event)
  <2>. DEFINE T == Range(log[Aggregate]) \cup {event}
  <2>1. log'[Aggregate] = Append(log[Aggregate], event)
    BY <1>1 DEF Inv
  <2>2. log[Aggregate] \in Seq(T) /\ event \in T
    <3>. DEFINE R == Range(log[Aggregate])
    <3>1. log[Aggregate] \in Seq(R)
      BY DEF Inv, StreamOK
    <3>. HIDE DEF R
    <3>2. log[Aggregate] \in Seq(R \cup {event})
      BY <3>1
    <3>. QED
      BY <3>2 DEF R
  <2>3. Replay(Append(log[Aggregate], event)) = ApplyEvent(s, event)
    <3>. HIDE DEF T
    <3>. QED
      BY <2>2, ReplayOfOneMore
  <2>. QED
    BY <2>1, <2>3
<1>3. One!Handle(c)
  BY <1>1, <1>2, SameApply, SameDecide DEF One!Handle, One!InOrder, InOrder, Record
<1>4. One!Room
  BY DEF One!Room, Record, Inv, FoldOK
<1>. HIDE DEF s
<1>. QED
  BY <1>3, <1>4, CommandKinds
     DEF One!Next, One!Sent, One!CreateShipment, One!MoveShipment, One!TakeReading,
         One!AmendShipmentDetails, One!PlanFirstSchedule, One!RevisePlan,
         One!ExtendPlan, One!ArchiveShipment, One!RestoreShipment

(* What a stream folds to evolves as Shipment.tla says: the events of other*)
(* streams do not touch it, and its own are commands handled one at a time.*)
THEOREM StreamIsShipment ==
  ASSUME Aggregate \in Aggregates
  PROVE  Spec => One!Spec
<1>1. Init => One!Init
  BY ReplayOfNothing DEF Init, One!Init, One!InitialShipment, InitialShipment,
     One!Stages, Stages
<1>2. Inv /\ [Next]_log => [One!Next]_(Replay(log[Aggregate]))
  <2>1. CASE UNCHANGED log
    BY <2>1
  <2>2. ASSUME Inv, NEW a \in Aggregates, NEW c \in Commands, NEW at \in Times, Record(a, c, at)
        PROVE  [One!Next]_(Replay(log[Aggregate]))
    <3>1. CASE a = Aggregate
      BY <2>2, <3>1, RecordIsHandled
    <3>2. CASE a # Aggregate
      <4>1. log'[Aggregate] = log[Aggregate]
        BY <2>2, <3>2 DEF Record, Inv
      <4>. QED
        BY <4>1
    <3>. QED
      BY <3>1, <3>2
  <2>. QED
    BY <2>1, <2>2 DEF Next
<1>. QED
  BY <1>1, <1>2, LedgerInvariance, PTL DEF Spec, One!Spec

(* The domain rules hold of the state any stored stream folds to, and no   *)
(* further event rewrites what that state says of the past.                *)
THEOREM StreamsKeepTheRules ==
  ASSUME Aggregate \in Aggregates
  PROVE  Spec => /\ []One!TypeOK /\ []One!LifecycleOrder /\ []One!PlanFitsWindow
                 /\ []One!OriginalsAgree /\ []One!ConfirmedAgainstPlan
                 /\ []One!GrowthIsBooked /\ []One!RangeIsWhole
                 /\ []One!CalendarIsSound
                 /\ One!HistoryIsFrozen
<1>1. /\ NULL \notin One!Stages
      /\ NULL \notin One!ShipmentStates /\ NULL \notin One!PlanEntries
      /\ NULL \notin One!Confirmations /\ NULL \notin One!RestoredConfirmations
  BY NullAssumption
     DEF ShipmentStates, PlanEntries, Confirmations, RestoredConfirmations, Stages,
         OptionalInts, One!ShipmentStates, One!PlanEntries, One!Confirmations,
         One!RestoredConfirmations, One!Stages, One!OptionalInts
<1>2. \A c \in Commands : c \in One!ValidCommands
  BY LedgerAssumption
     DEF ValidCommands, CreateCommands, MoveCommands, TemperatureCommands, AmendCommands,
         PlanCommands, ReviseCommands, ExtendCommands, ArchiveCommands, RestoreCommands,
         WholeDays, Proposals, Stages,
         One!ValidCommands, One!CreateCommands, One!MoveCommands,
         One!TemperatureCommands, One!AmendCommands, One!PlanCommands,
         One!ReviseCommands, One!ExtendCommands, One!ArchiveCommands,
         One!RestoreCommands, One!WholeDays, One!Proposals, One!Stages
<1>3. One!Spec => []One!Inv
  BY <1>1, <1>2, DomainAssumption, LedgerAssumption, One!Invariance
<1>4. One!Spec => One!HistoryIsFrozen
  BY <1>1, <1>2, DomainAssumption, LedgerAssumption, One!HistoryStaysFrozen
<1>5. One!Spec => []One!CalendarIsSound
  BY <1>1, <1>2, DomainAssumption, LedgerAssumption, One!CalendarOffersNothingRefused
<1>6. One!Inv => /\ One!TypeOK /\ One!LifecycleOrder /\ One!PlanFitsWindow
                 /\ One!OriginalsAgree /\ One!ConfirmedAgainstPlan
                 /\ One!GrowthIsBooked /\ One!RangeIsWhole
  BY DEF One!Inv
<1>. QED
  BY <1>3, <1>4, <1>5, <1>6, StreamIsShipment, PTL

-----------------------------------------------------------------------------
(* States and documents.                                                   *)

(* What the read side relies on in a state that a stream folds to.         *)
Reached(s) ==
  /\ DOMAIN s = DOMAIN InitialShipment
  /\ s.version \in Nat
  /\ s.plan \in PlanEntries \cup {NULL}
  /\ s.plan = NULL => s.originalPlan = NULL
  /\ s.confirmed \in [Stages -> Confirmations \cup {NULL}]
  /\ s.plan = NULL => \A stage \in Stages :
       s.confirmed[stage] # NULL => s.confirmed[stage].planned = NULL

(* Two states that agree in all but the confirmations.                     *)
Alike(s, t) ==
  /\ DOMAIN s = DOMAIN InitialShipment /\ DOMAIN t = DOMAIN InitialShipment
  /\ s.version = t.version /\ s.currentState = t.currentState
  /\ s.archived = t.archived /\ s.origin = t.origin /\ s.originPair = t.originPair
  /\ s.location = t.location /\ s.minT = t.minT /\ s.maxT = t.maxT
  /\ s.latest = t.latest /\ s.breaches = t.breaches
  /\ s.createdAt = t.createdAt /\ s.lastEventAt = t.lastEventAt
  /\ s.days = t.days /\ s.originalDays = t.originalDays /\ s.extendedBy = t.extendedBy
  /\ s.plan = t.plan /\ s.originalPlan = t.originalPlan

(* Of the confirmations a document tells when and which, as soon as there  *)
(* is a plan; of a shipment without one, nothing.                          *)
Matching(s, t) ==
  /\ DOMAIN s.confirmed = Stages /\ DOMAIN t.confirmed = Stages
  /\ IF s.plan = NULL
       THEN (\A stage \in Stages : s.confirmed[stage] = NULL) =>
              \A stage \in Stages : t.confirmed[stage] = NULL
       ELSE \A stage \in Stages :
              /\ s.confirmed[stage] = NULL <=> t.confirmed[stage] = NULL
              /\ s.confirmed[stage] # NULL =>
                   s.confirmed[stage].at = t.confirmed[stage].at

(* As far as a document can tell, the two are the same state.              *)
Similar(s, t) == Alike(s, t) /\ Matching(s, t)

(* A calendar day is an integer.                                           *)
LEMMA DayIsInt ==
  ASSUME NEW instant \in Int
  PROVE  DayOf(instant) \in Int
BY DomainAssumption DEF DayOf

LEMMA MovementTypes ==
  /\ MovementEvents = {"LOADED_ON_SHIP", "ARRIVED_AT_PORT", "UNLOADED_FROM_SHIP"}
  /\ \A stage \in Stages : ConfirmingEvent[stage] \in MovementEvents
<1>. ConfirmingEvent["LOAD_ON_SHIP"] = "LOADED_ON_SHIP"
     /\ ConfirmingEvent["ARRIVE_AT_PORT"] = "ARRIVED_AT_PORT"
     /\ ConfirmingEvent["UNLOAD_FROM_SHIP"] = "UNLOADED_FROM_SHIP"
  BY DEF ConfirmingEvent, Stages
<1>. QED
  BY DEF MovementEvents, Stages

(* Some open stage is the next one.                                        *)
LEMMA NextIsOpen ==
  ASSUME NEW confirmed
  PROVE  /\ NextStage(confirmed) \in Stages \cup {NULL}
         /\ NextStage(confirmed) \in Stages => confirmed[NextStage(confirmed)] = NULL
         /\ NextStage(confirmed) = NULL => \A stage \in Stages : confirmed[stage] # NULL
<1>. DEFINE open == {stage \in Stages : confirmed[stage] = NULL}
<1>1. CASE open = {}
  BY <1>1, NullAssumption DEF NextStage
<1>2. CASE open # {}
  <2>1. \E stage \in open : \A t \in open : StageRank[stage] <= StageRank[t]
    <3>1. /\ StageRank["LOAD_ON_SHIP"] = 1 /\ StageRank["ARRIVE_AT_PORT"] = 2
          /\ StageRank["UNLOAD_FROM_SHIP"] = 3
      BY DEF StageRank, Stages
    <3>2. CASE "LOAD_ON_SHIP" \in open
      BY <3>1, <3>2 DEF Stages
    <3>3. CASE "LOAD_ON_SHIP" \notin open /\ "ARRIVE_AT_PORT" \in open
      BY <3>1, <3>3 DEF Stages
    <3>4. CASE "LOAD_ON_SHIP" \notin open /\ "ARRIVE_AT_PORT" \notin open
      BY <1>2, <3>1, <3>4 DEF Stages
    <3>. QED
      BY <3>2, <3>3, <3>4
  <2>2. NextStage(confirmed) \in open
    BY <1>2, <2>1 DEF NextStage
  <2>. QED
    BY <2>2, NullAssumption
<1>. QED
  BY <1>1, <1>2

(* Similar states have the same document.                                  *)
LEMMA SimilarDocuments ==
  ASSUME NEW s, NEW t, Similar(s, t), NEW today
  PROVE  Document(s, today) = Document(t, today)
<1>1. CASE s.plan = NULL
  BY <1>1 DEF Similar, Alike, Document
<1>2. CASE s.plan # NULL
  <2>1. \A stage \in Stages :
          /\ s.confirmed[stage] = NULL <=> t.confirmed[stage] = NULL
          /\ s.confirmed[stage] # NULL => s.confirmed[stage].at = t.confirmed[stage].at
    BY <1>2 DEF Similar, Matching
  <2>2. NextStage(s.confirmed) = NextStage(t.confirmed)
    <3>. DEFINE openS == {stage \in Stages : s.confirmed[stage] = NULL}
                openT == {stage \in Stages : t.confirmed[stage] = NULL}
                next(open) == IF open = {} THEN NULL
                              ELSE CHOOSE stage \in open :
                                     \A u \in open : StageRank[stage] <= StageRank[u]
    <3>1. NextStage(s.confirmed) = next(openS) /\ NextStage(t.confirmed) = next(openT)
      BY DEF NextStage
    <3>2. openS = openT
      BY <2>1
    <3>. HIDE DEF openS, openT, next
    <3>. QED
      BY <3>1, <3>2
  <2>3. s.plan = t.plan
    BY DEF Similar, Alike
  <2>4. \A stage \in Stages : StageStatus(s, stage, today) = StageStatus(t, stage, today)
    BY <2>1, <2>2, <2>3 DEF StageStatus
  <2>5. [stage \in Stages |-> StageStatus(s, stage, today)]
          = [stage \in Stages |-> StageStatus(t, stage, today)]
    BY <2>4
  <2>6. Summary(s, today) = Summary(t, today)
    <3>. DEFINE stages(u) == [stage \in Stages |-> StageStatus(u, stage, today)]
                overdue(all) == {stage \in Stages : all[stage].status = "OVERDUE"}
                longest(all) == Max({0} \cup {all[stage].overdueBy : stage \in overdue(all)})
    <3>1. stages(s) = stages(t)
      BY <2>5
    <3>2. overdue(stages(s)) = overdue(stages(t)) /\ longest(stages(s)) = longest(stages(t))
      <4>. HIDE DEF stages, overdue, longest
      <4>. QED
        BY <3>1
    <3>3. /\ WindowCloses(s) = WindowCloses(t) /\ s.plan = t.plan
          /\ s.originalPlan = t.originalPlan /\ s.createdAt = t.createdAt
          /\ s.originalDays = t.originalDays
      BY DEF WindowCloses, Similar, Alike
    <3>. DEFINE summary(all, next, plan, original, created, closes, days, late, most) ==
                  LET finished == IF next = NULL THEN all[LastStage].at ELSE NULL
                  IN  [stages             |-> all,
                       plan               |-> plan,
                       originalPlan       |-> original,
                       nextStage          |-> next,
                       nextDate           |-> IF next = NULL THEN NULL ELSE plan[next].date,
                       completion         |-> closes,
                       originalCompletion |-> DayOf(created) + days,
                       finishedAt         |-> finished,
                       duration           |-> IF finished = NULL THEN NULL
                                              ELSE DayOf(finished) - DayOf(created),
                       overdue            |-> late,
                       maxOverdue         |-> most]
    <3>4. \A u : Summary(u, today) =
            summary(stages(u), NextStage(u.confirmed), u.plan, u.originalPlan, u.createdAt,
                    WindowCloses(u), u.originalDays, overdue(stages(u)), longest(stages(u)))
      BY DEF Summary
    <3>5. /\ Summary(s, today) =
            summary(stages(s), NextStage(s.confirmed), s.plan, s.originalPlan, s.createdAt,
                    WindowCloses(s), s.originalDays, overdue(stages(s)), longest(stages(s)))
          /\ Summary(t, today) =
            summary(stages(t), NextStage(t.confirmed), t.plan, t.originalPlan, t.createdAt,
                    WindowCloses(t), t.originalDays, overdue(stages(t)), longest(stages(t)))
      <4>. HIDE DEF stages, overdue, longest, summary
      <4>. QED
        BY <3>4
    <3>. HIDE DEF stages, overdue, longest, summary
    <3>. QED
      BY <2>2, <3>1, <3>2, <3>3, <3>5
  <2>. QED
    BY <1>2, <2>6 DEF Document, Similar, Alike
<1>. QED
  BY <1>1, <1>2

(* The state an incremental update starts from is, as far as a document    *)
(* can tell, the one the document was written from.                        *)
LEMMA RestoredIsSimilar ==
  ASSUME NEW s, Reached(s), NEW day \in Int
  PROVE  Similar(s, StateFrom(Document(s, day)))
<1>. DEFINE d == Document(s, day)
            t == StateFrom(d)
<1>1. d.schedule.plan = s.plan /\ d.schedule.originalPlan = s.originalPlan
  BY DEF Document, NoSchedule, Summary, Reached
<1>2. Alike(s, t)
  BY <1>1 DEF Alike, StateFrom, Document, InitialShipment, Reached
<1>3. t.confirmed = RestoredStages(d)
  BY DEF StateFrom
<1>. HIDE DEF t
<1>4. ASSUME s.plan # NULL, NEW stage \in Stages
      PROVE  /\ s.confirmed[stage] = NULL <=> t.confirmed[stage] = NULL
             /\ s.confirmed[stage] # NULL => s.confirmed[stage].at = t.confirmed[stage].at
  <2>. DEFINE entry == StageStatus(s, stage, day)
  <2>1. d.schedule.stages[stage] = entry
    BY <1>4 DEF Document, Summary
  <2>2. t.confirmed[stage] =
          IF entry.status # "CONFIRMED" THEN NULL
          ELSE [at |-> entry.at, planned |-> entry.date, variance |-> entry.variance]
    BY <1>1, <1>3, <1>4, <2>1 DEF RestoredStages
  <2>3. CASE s.confirmed[stage] = NULL
    <3>1. s.plan[stage].date \in Int
      BY <1>4 DEF Reached, PlanEntries
    <3>2. entry.status \in {"OVERDUE", "IN_PROGRESS", "PLANNED"}
      BY <2>3, <3>1 DEF StageStatus
    <3>. QED
      BY <2>2, <2>3, <3>2
  <2>4. CASE s.confirmed[stage] # NULL
    <3>1. stage # NextStage(s.confirmed)
      BY <2>4, NextIsOpen
    <3>2. entry.status = "CONFIRMED"
      BY <2>4, <3>1 DEF StageStatus
    <3>3. /\ entry.at = s.confirmed[stage].at /\ entry.date = s.plan[stage].date
          /\ entry.variance = DayOf(s.confirmed[stage].at) - s.plan[stage].date
      BY <2>4 DEF StageStatus
    <3>4. entry.at \in Int /\ entry.date \in Int /\ entry.variance \in Int
      <4>1. s.confirmed[stage].at \in Int
        BY <2>4 DEF Reached, Confirmations
      <4>2. s.plan[stage].date \in Int
        BY <1>4 DEF Reached, PlanEntries
      <4>. QED
        BY <3>3, <4>1, <4>2, DayIsInt
    <3>. HIDE DEF entry
    <3>5. t.confirmed[stage] \in RestoredConfirmations
      BY <2>2, <3>2, <3>4 DEF RestoredConfirmations
    <3>. QED
      BY <2>2, <2>4, <3>2, <3>3, <3>5, NullAssumption
  <2>. QED
    BY <2>3, <2>4
<1>5. Matching(s, t)
  <2>1. DOMAIN s.confirmed = Stages /\ DOMAIN t.confirmed = Stages
    BY <1>3 DEF Reached, RestoredStages
  <2>2. s.plan = NULL => \A stage \in Stages : t.confirmed[stage] = NULL
    BY <1>1, <1>3 DEF RestoredStages
  <2>. QED
    BY <1>4, <2>1, <2>2 DEF Matching
<1>. QED
  BY <1>2, <1>5 DEF Similar, t

(* A document brought up to date is the one written today.                 *)
LEMMA LiveDocument ==
  ASSUME NEW s, Reached(s), NEW day \in Int, NEW today
  PROVE  Live(Document(s, day), today) = Document(s, today)
<1>. DEFINE d == Document(s, day)
<1>1. CASE s.plan = NULL
  BY <1>1 DEF Live, Document, NoSchedule
<1>2. CASE s.plan # NULL
  <2>1. d.schedule.plan = s.plan
    BY <1>2 DEF Document, Summary
  <2>2. Live(d, today) = [d EXCEPT !.schedule = Summary(StateFrom(d), today)]
    BY <1>2, <2>1 DEF Live
  <2>3. /\ StateFrom(d).plan = s.plan
        /\ Document(s, today) = Document(StateFrom(d), today)
    BY RestoredIsSimilar, SimilarDocuments DEF Similar, Alike
  <2>4. Document(s, today).schedule = Summary(StateFrom(d), today)
    BY <1>2, <2>3 DEF Document
  <2>. QED
    BY <2>2, <2>4 DEF Document
<1>. QED
  BY <1>1, <1>2

-----------------------------------------------------------------------------
(* The reducer on similar states.                                          *)

(* What an event that was decided on a state says of schedule and stages.  *)
LEMMA DecidedPayload ==
  ASSUME NEW s, Reached(s), NEW c \in Commands, NEW at, NEW event \in Decide(s, c, at)
  PROVE  /\ event.type \in MovementEvents =>
              /\ event.payload.stage \in Stages
              /\ event.payload.planned = PlannedDate(s, event.payload.stage)
              /\ event.payload.variance = IF PlannedDate(s, event.payload.stage) = NULL THEN NULL
                                          ELSE DayOf(at) - PlannedDate(s, event.payload.stage)
         /\ event.type = "SHIPMENT_SCHEDULE_PLANNED" =>
              /\ s.plan = NULL /\ event.payload.plan \in PlanEntries
              /\ \A stage \in Stages : s.confirmed[stage] = NULL
         /\ event.type \in {"SHIPMENT_SCHEDULE_REVISED", "SHIPMENT_SCHEDULE_EXTENDED"} =>
              s.plan # NULL /\ event.payload.plan \in PlanEntries
<1>1. ASSUME NEW proposal \in Proposals
      PROVE  Normalised(s, proposal) \in PlanEntries
  <2>1. \A stage \in Stages : /\ proposal[stage].date \in Int
                              /\ proposal[stage].details \in Details \cup {NULL}
    BY DomainAssumption DEF Proposals
  <2>2. s.plan # NULL => \A stage \in Stages :
          s.plan[stage].original \in Int /\ s.plan[stage].details \in Details \cup {NULL}
    BY DEF Reached, PlanEntries
  <2>. QED
    BY <2>1, <2>2 DEF Normalised, PlanEntries, Or
<1>2. CASE c.kind = "create"
  BY <1>2, MovementTypes DEF Decide, Create, Event
<1>3. CASE c.kind = "move"
  <2>1. c.stage \in Stages
    BY <1>3, CommandKinds
  <2>2. event = Event(s, ConfirmingEvent[c.stage], at,
                  [stage |-> c.stage, location |-> c.location,
                   planned |-> PlannedDate(s, c.stage),
                   variance |-> IF PlannedDate(s, c.stage) = NULL THEN NULL
                                ELSE DayOf(at) - PlannedDate(s, c.stage)])
    BY <1>3 DEF Decide, Move
  <2>. QED
    BY <2>1, <2>2, MovementTypes DEF Event
<1>4. CASE c.kind = "temperature"
  BY <1>4, MovementTypes DEF Decide, RecordTemperature, Event
<1>5. CASE c.kind = "amend"
  BY <1>5, MovementTypes DEF Decide, Amend, Event
<1>6. CASE c.kind = "plan"
  <2>1. /\ s.plan = NULL /\ ValidPlannedDates(s, c.proposal)
        /\ event = Event(s, "SHIPMENT_SCHEDULE_PLANNED", at, [plan |-> Normalised(s, c.proposal)])
    BY <1>6 DEF Decide, PlanSchedule
  <2>2. c.proposal \in Proposals
    BY <1>6, LedgerAssumption
       DEF ValidCommands, CreateCommands, MoveCommands, TemperatureCommands, AmendCommands,
           PlanCommands, ReviseCommands, ExtendCommands, ArchiveCommands, RestoreCommands
  <2>3. \A stage \in Stages : c.proposal[stage].date # NULL
    BY <2>2, DomainAssumption DEF Proposals
  <2>4. \A stage \in Stages : s.confirmed[stage] = NULL
    BY <2>1, <2>3 DEF ValidPlannedDates, KeepsConfirmedDates, Reached
  <2>. QED
    BY <1>1, <2>1, <2>2, <2>4, MovementTypes DEF Event
<1>7. CASE c.kind = "revise"
  <2>1. /\ s.plan # NULL
        /\ event = Event(s, "SHIPMENT_SCHEDULE_REVISED", at,
                         [plan |-> Normalised(s, c.proposal), previous |-> s.plan])
    BY <1>7 DEF Decide, ReviseSchedule
  <2>2. c.proposal \in Proposals
    BY <1>7, LedgerAssumption
       DEF ValidCommands, CreateCommands, MoveCommands, TemperatureCommands, AmendCommands,
           PlanCommands, ReviseCommands, ExtendCommands, ArchiveCommands, RestoreCommands
  <2>. QED
    BY <1>1, <2>1, <2>2, MovementTypes DEF Event
<1>8. CASE c.kind = "extend"
  <2>1. /\ s.plan # NULL
        /\ event = Event(s, "SHIPMENT_SCHEDULE_EXTENDED", at,
                    [stage |-> c.stage, by |-> c.days,
                     plan |-> ExtendedPlan(s, c.stage, c.days), previous |-> s.plan,
                     days |-> ExtendedDays(s, ExtendedPlan(s, c.stage, c.days))])
    BY <1>8 DEF Decide, ExtendSchedule
  <2>2. c.days \in Int
    BY <1>8, LedgerAssumption, DomainAssumption
       DEF ValidCommands, CreateCommands, MoveCommands, TemperatureCommands, AmendCommands,
           PlanCommands, ReviseCommands, ExtendCommands, ArchiveCommands, RestoreCommands,
           WholeDays
  <2>3. ExtendedPlan(s, c.stage, c.days) \in PlanEntries
    <3>1. s.plan \in PlanEntries
      BY <2>1 DEF Reached
    <3>. QED
      BY <2>2, <3>1 DEF ExtendedPlan, PlanEntries
  <2>. QED
    BY <2>1, <2>3, MovementTypes DEF Event
<1>9. CASE c.kind \in {"archive", "restore"}
  BY <1>9, MovementTypes DEF Decide, Archive, Restore, Event
<1>. QED
  BY <1>2, <1>3, <1>4, <1>5, <1>6, <1>7, <1>8, <1>9, CommandKinds

(* What a movement writes down of the stage it confirms.                   *)
Entry(s, event) ==
  [at       |-> event.at,
   planned  |-> Or(event.payload.planned, PlannedDate(s, event.payload.stage)),
   variance |-> event.payload.variance,
   version  |-> event.version]

(* What an event does to two states that agree in all but the              *)
(* confirmations; a movement writes the same confirmation into both.       *)
LEMMA ApplyAlike ==
  ASSUME NEW s, NEW t, Alike(s, t), NEW event, event.type \in EventTypes
  PROVE  /\ Alike(ApplyEvent(s, event), ApplyEvent(t, event))
         /\ IF event.type \in MovementEvents
              THEN /\ ApplyEvent(s, event).confirmed
                        = [s.confirmed EXCEPT ![event.payload.stage] = Entry(s, event)]
                   /\ ApplyEvent(t, event).confirmed
                        = [t.confirmed EXCEPT ![event.payload.stage] = Entry(s, event)]
              ELSE /\ ApplyEvent(s, event).confirmed = s.confirmed
                   /\ ApplyEvent(t, event).confirmed = t.confirmed
         /\ IF event.type \in {"SHIPMENT_SCHEDULE_PLANNED", "SHIPMENT_SCHEDULE_REVISED",
                               "SHIPMENT_SCHEDULE_EXTENDED"}
              THEN ApplyEvent(s, event).plan = event.payload.plan
              ELSE /\ ApplyEvent(s, event).plan = s.plan
                   /\ ApplyEvent(s, event).originalPlan = s.originalPlan
<1>. DEFINE base(u) == [u EXCEPT !.version = event.version, !.lastEventAt = event.at]
            b == base(s)
            d == base(t)
<1>1. /\ Alike(b, d) /\ b.confirmed = s.confirmed /\ d.confirmed = t.confirmed
      /\ b.plan = s.plan /\ b.originalPlan = s.originalPlan
  BY DEF Alike, InitialShipment
<1>. HIDE DEF b, d
<1>2. CASE event.type = "CONTAINER_CREATED"
  <2>1. ApplyEvent(s, event) = Created(b, event) /\ ApplyEvent(t, event) = Created(d, event)
    BY <1>2, MovementTypes DEF ApplyEvent, b, d
  <2>2. /\ Alike(Created(b, event), Created(d, event))
        /\ Created(b, event).confirmed = b.confirmed /\ Created(d, event).confirmed = d.confirmed
        /\ Created(b, event).plan = b.plan /\ Created(b, event).originalPlan = b.originalPlan
    BY <1>1 DEF Alike, Created, InitialShipment
  <2>. QED
    BY <1>1, <1>2, <2>1, <2>2, MovementTypes
<1>3. CASE event.type \in MovementEvents
  <2>1. ApplyEvent(s, event) = Moved(b, event) /\ ApplyEvent(t, event) = Moved(d, event)
    BY <1>3, MovementTypes DEF ApplyEvent, b, d
  <2>2. PlannedDate(b, event.payload.stage) = PlannedDate(s, event.payload.stage)
        /\ PlannedDate(d, event.payload.stage) = PlannedDate(s, event.payload.stage)
    BY <1>1 DEF PlannedDate, Alike
  <2>3. /\ ConfirmStage(b, event.payload.stage, event)
             = [s.confirmed EXCEPT ![event.payload.stage] = Entry(s, event)]
        /\ ConfirmStage(d, event.payload.stage, event)
             = [t.confirmed EXCEPT ![event.payload.stage] = Entry(s, event)]
    BY <1>1, <2>2 DEF ConfirmStage, Entry
  <2>4. /\ Alike(Moved(b, event), Moved(d, event))
        /\ Moved(b, event).confirmed = ConfirmStage(b, event.payload.stage, event)
        /\ Moved(d, event).confirmed = ConfirmStage(d, event.payload.stage, event)
        /\ Moved(b, event).plan = b.plan /\ Moved(b, event).originalPlan = b.originalPlan
    BY <1>1 DEF Alike, Moved, InitialShipment
  <2>. QED
    BY <1>1, <1>3, <2>1, <2>3, <2>4, MovementTypes
<1>4. CASE event.type \in {"TEMPERATURE_RECORDED", "TEMPERATURE_SPIKE"}
  <2>1. ApplyEvent(s, event) = Sampled(b, event) /\ ApplyEvent(t, event) = Sampled(d, event)
    BY <1>4, MovementTypes DEF ApplyEvent, b, d
  <2>2. /\ Alike(Sampled(b, event), Sampled(d, event))
        /\ Sampled(b, event).confirmed = b.confirmed /\ Sampled(d, event).confirmed = d.confirmed
        /\ Sampled(b, event).plan = b.plan /\ Sampled(b, event).originalPlan = b.originalPlan
    BY <1>1 DEF Alike, Sampled, InitialShipment
  <2>. QED
    BY <1>1, <1>4, <2>1, <2>2, MovementTypes
<1>5. CASE event.type = "SHIPMENT_DETAILS_AMENDED"
  <2>1. ApplyEvent(s, event) = Amended(b, event) /\ ApplyEvent(t, event) = Amended(d, event)
    BY <1>5, MovementTypes DEF ApplyEvent, b, d
  <2>2. /\ Alike(Amended(b, event), Amended(d, event))
        /\ Amended(b, event).confirmed = b.confirmed /\ Amended(d, event).confirmed = d.confirmed
        /\ Amended(b, event).plan = b.plan /\ Amended(b, event).originalPlan = b.originalPlan
    BY <1>1 DEF Alike, Amended, InitialShipment
  <2>. QED
    BY <1>1, <1>5, <2>1, <2>2, MovementTypes
<1>6. CASE event.type = "SHIPMENT_SCHEDULE_PLANNED"
  <2>1. ApplyEvent(s, event) = Planned(b, event) /\ ApplyEvent(t, event) = Planned(d, event)
    BY <1>6, MovementTypes DEF ApplyEvent, b, d
  <2>2. /\ Alike(Planned(b, event), Planned(d, event))
        /\ Planned(b, event).confirmed = b.confirmed /\ Planned(d, event).confirmed = d.confirmed
        /\ Planned(b, event).plan = event.payload.plan
    BY <1>1 DEF Alike, Planned, InitialShipment
  <2>. QED
    BY <1>1, <1>6, <2>1, <2>2, MovementTypes
<1>7. CASE event.type = "SHIPMENT_SCHEDULE_REVISED"
  <2>1. ApplyEvent(s, event) = Revised(b, event) /\ ApplyEvent(t, event) = Revised(d, event)
    BY <1>7, MovementTypes DEF ApplyEvent, b, d
  <2>2. /\ Alike(Revised(b, event), Revised(d, event))
        /\ Revised(b, event).confirmed = b.confirmed /\ Revised(d, event).confirmed = d.confirmed
        /\ Revised(b, event).plan = event.payload.plan
    BY <1>1 DEF Alike, Revised, InitialShipment
  <2>. QED
    BY <1>1, <1>7, <2>1, <2>2, MovementTypes
<1>8. CASE event.type = "SHIPMENT_SCHEDULE_EXTENDED"
  <2>1. ApplyEvent(s, event) = Extended(b, event) /\ ApplyEvent(t, event) = Extended(d, event)
    BY <1>8, MovementTypes DEF ApplyEvent, b, d
  <2>2. /\ Alike(Extended(b, event), Extended(d, event))
        /\ Extended(b, event).confirmed = b.confirmed /\ Extended(d, event).confirmed = d.confirmed
        /\ Extended(b, event).plan = event.payload.plan
    BY <1>1 DEF Alike, Extended, InitialShipment
  <2>. QED
    BY <1>1, <1>8, <2>1, <2>2, MovementTypes
<1>9. CASE event.type \in {"SHIPMENT_ARCHIVED", "SHIPMENT_RESTORED"}
  <2>1. \E archived \in BOOLEAN : /\ ApplyEvent(s, event) = Flagged(b, archived)
                                  /\ ApplyEvent(t, event) = Flagged(d, archived)
    BY <1>9, MovementTypes DEF ApplyEvent, b, d
  <2>2. \A archived \in BOOLEAN :
          /\ Alike(Flagged(b, archived), Flagged(d, archived))
          /\ Flagged(b, archived).confirmed = b.confirmed
          /\ Flagged(d, archived).confirmed = d.confirmed
          /\ Flagged(b, archived).plan = b.plan
          /\ Flagged(b, archived).originalPlan = b.originalPlan
    BY <1>1 DEF Alike, Flagged, InitialShipment
  <2>. QED
    BY <1>1, <1>9, <2>1, <2>2, MovementTypes
<1>. QED
  BY <1>2, <1>3, <1>4, <1>5, <1>6, <1>7, <1>8, <1>9 DEF EventTypes

(* It is a confirmation, without a date when nothing is planned.           *)
LEMMA EntryIsConfirmation ==
  ASSUME NEW s, Reached(s), NEW c \in Commands, NEW at \in Times,
         NEW event \in Decide(s, c, at), event.type \in MovementEvents
  PROVE  /\ event.payload.stage \in Stages
         /\ Entry(s, event) \in Confirmations
         /\ s.plan = NULL => Entry(s, event).planned = NULL
<1>. DEFINE stage == event.payload.stage
            entry == Entry(s, event)
<1>1. event.version = s.version + 1 /\ event.at = at /\ at \in Int
  <2>1. Times \subseteq Int
    BY LedgerAssumption
  <2>. QED
    BY <2>1, DecidedEnvelope
<1>2. /\ stage \in Stages
      /\ event.payload.planned = PlannedDate(s, stage)
      /\ event.payload.variance = IF PlannedDate(s, stage) = NULL THEN NULL
                                  ELSE DayOf(at) - PlannedDate(s, stage)
  BY DecidedPayload
<1>3. PlannedDate(s, stage) \in OptionalInts
      /\ (s.plan = NULL => PlannedDate(s, stage) = NULL)
  BY <1>2 DEF PlannedDate, Reached, PlanEntries, OptionalInts
<1>4. event.payload.variance \in OptionalInts
  BY <1>1, <1>2, <1>3, DayIsInt DEF OptionalInts
<1>5. entry \in Confirmations /\ (s.plan = NULL => entry.planned = NULL)
  BY <1>1, <1>2, <1>3, <1>4 DEF Confirmations, Entry, Or, Reached
<1>. QED
  BY <1>2, <1>5

(* A decided event leaves a state the read side can rely on again.         *)
LEMMA ApplyReached ==
  ASSUME NEW s, Reached(s), NEW c \in Commands, NEW at \in Times,
         NEW event \in Decide(s, c, at)
  PROVE  Reached(ApplyEvent(s, event))
<1>. DEFINE u == ApplyEvent(s, event)
<1>1. event.type \in EventTypes /\ event.version = s.version + 1 /\ event.at = at
      /\ at \in Int
  <2>1. Times \subseteq Int
    BY LedgerAssumption
  <2>. QED
    BY <2>1, DecidedEnvelope
<1>2. Alike(s, s)
  BY DEF Alike, Reached
<1>3. DOMAIN u = DOMAIN InitialShipment /\ u.version \in Nat
  BY <1>1, ApplyEnvelope DEF Reached
<1>4. CASE event.type \in MovementEvents
  <2>. DEFINE stage == event.payload.stage
              entry == Entry(s, event)
  <2>1. /\ u.confirmed = [s.confirmed EXCEPT ![stage] = entry]
        /\ u.plan = s.plan /\ u.originalPlan = s.originalPlan
    BY <1>1, <1>2, <1>4, ApplyAlike, MovementTypes
  <2>2. /\ stage \in Stages /\ entry \in Confirmations
        /\ s.plan = NULL => entry.planned = NULL
    BY <1>4, EntryIsConfirmation
  <2>. HIDE DEF u, stage, entry
  <2>. QED
    BY <1>3, <2>1, <2>2 DEF Reached, u
<1>5. CASE event.type \in {"SHIPMENT_SCHEDULE_PLANNED", "SHIPMENT_SCHEDULE_REVISED",
                           "SHIPMENT_SCHEDULE_EXTENDED"}
  <2>1. u.confirmed = s.confirmed /\ u.plan = event.payload.plan
    BY <1>1, <1>2, <1>5, ApplyAlike, MovementTypes
  <2>2. event.payload.plan \in PlanEntries /\ event.payload.plan # NULL
    BY <1>5, DecidedPayload, NullAssumption
  <2>. HIDE DEF u
  <2>. QED
    BY <1>3, <2>1, <2>2 DEF Reached, u
<1>6. CASE event.type \notin MovementEvents /\
           event.type \notin {"SHIPMENT_SCHEDULE_PLANNED", "SHIPMENT_SCHEDULE_REVISED",
                              "SHIPMENT_SCHEDULE_EXTENDED"}
  <2>1. u.confirmed = s.confirmed /\ u.plan = s.plan /\ u.originalPlan = s.originalPlan
    BY <1>1, <1>2, <1>6, ApplyAlike
  <2>. HIDE DEF u
  <2>. QED
    BY <1>3, <2>1 DEF Reached, u
<1>. QED
  BY <1>4, <1>5, <1>6

(* What no document can tell apart, no decided event tells apart.          *)
LEMMA ApplySimilar ==
  ASSUME NEW s, Reached(s), NEW t, Similar(s, t),
         NEW c \in Commands, NEW at \in Times, NEW event \in Decide(s, c, at)
  PROVE  Similar(ApplyEvent(s, event), ApplyEvent(t, event))
<1>. DEFINE u == ApplyEvent(s, event)
            v == ApplyEvent(t, event)
<1>1. event.type \in EventTypes
  BY DecidedEnvelope
<1>2. Alike(s, t) /\ Matching(s, t) /\ Alike(u, v) /\ Reached(u)
  BY <1>1, ApplyAlike, ApplyReached DEF Similar
<1>3. CASE event.type \in MovementEvents
  <2>. DEFINE stage == event.payload.stage
              entry == Entry(s, event)
  <2>1. /\ u.confirmed = [s.confirmed EXCEPT ![stage] = entry]
        /\ v.confirmed = [t.confirmed EXCEPT ![stage] = entry]
        /\ u.plan = s.plan
    BY <1>1, <1>2, <1>3, ApplyAlike, MovementTypes
  <2>2. stage \in Stages
    BY <1>3, DecidedPayload
  <2>3. entry # NULL
    <3>2. event.version \in Nat /\ event.at \in Int
      <4>1. Times \subseteq Int
        BY LedgerAssumption
      <4>. QED
        BY <4>1, DecidedEnvelope DEF Reached
    <3>3. PlannedDate(s, stage) \in OptionalInts
      BY <2>2 DEF PlannedDate, Reached, PlanEntries, OptionalInts
    <3>4. /\ event.payload.planned = PlannedDate(s, stage)
          /\ event.payload.variance = IF PlannedDate(s, stage) = NULL THEN NULL
                                      ELSE DayOf(at) - PlannedDate(s, stage)
      BY <1>3, DecidedPayload
    <3>5. event.payload.variance \in OptionalInts
      <4>1. Times \subseteq Int
        BY LedgerAssumption
      <4>2. at \in Int
        BY <4>1
      <4>. QED
        BY <3>3, <3>4, <4>2, DayIsInt DEF OptionalInts
    <3>6. entry \in Confirmations
      BY <3>2, <3>3, <3>4, <3>5 DEF Confirmations, Entry, Or
    <3>. QED
      BY <3>6, NullAssumption
  <2>. HIDE DEF u, v, stage, entry
  <2>4. Matching(u, v)
    BY <1>2, <2>1, <2>2, <2>3 DEF Matching
  <2>. QED
    BY <1>2, <2>4 DEF Similar, u, v
<1>4. CASE event.type \notin MovementEvents
  <2>1. u.confirmed = s.confirmed /\ v.confirmed = t.confirmed
    BY <1>1, <1>2, <1>4, ApplyAlike
  <2>2. CASE event.type = "SHIPMENT_SCHEDULE_PLANNED"
    <3>1. s.plan = NULL /\ \A stage \in Stages : s.confirmed[stage] = NULL
      BY <2>2, DecidedPayload
    <3>2. \A stage \in Stages : t.confirmed[stage] = NULL
      BY <1>2, <3>1 DEF Matching
    <3>. HIDE DEF u, v
    <3>3. Matching(u, v)
      BY <1>2, <2>1, <3>1, <3>2 DEF Matching
    <3>. QED
      BY <1>2, <3>3 DEF Similar, u, v
  <2>3. CASE event.type \in {"SHIPMENT_SCHEDULE_REVISED", "SHIPMENT_SCHEDULE_EXTENDED"}
    <3>1. s.plan # NULL /\ event.payload.plan \in PlanEntries
      BY <2>3, DecidedPayload
    <3>2. u.plan # NULL
      BY <1>1, <1>2, <2>3, <3>1, ApplyAlike, NullAssumption
    <3>. HIDE DEF u, v
    <3>3. Matching(u, v)
      BY <1>2, <2>1, <3>1, <3>2 DEF Matching
    <3>. QED
      BY <1>2, <3>3 DEF Similar, u, v
  <2>4. CASE event.type \notin {"SHIPMENT_SCHEDULE_PLANNED", "SHIPMENT_SCHEDULE_REVISED",
                                "SHIPMENT_SCHEDULE_EXTENDED"}
    <3>1. u.plan = s.plan
      BY <1>1, <1>2, <2>4, ApplyAlike
    <3>. HIDE DEF u, v
    <3>2. Matching(u, v)
      BY <1>2, <2>1, <3>1 DEF Matching
    <3>. QED
      BY <1>2, <3>2 DEF Similar, u, v
  <2>. QED
    BY <2>2, <2>3, <2>4
<1>. QED
  BY <1>3, <1>4

-----------------------------------------------------------------------------
(* Folding a stream in pieces.                                             *)

(* The state the first events of a stream fold to.                         *)
After(events, version) == Replay(SubSeq(events, 1, version))

(* Every event was decided on the state those before it fold to.           *)
EachDecided(events) ==
  \A k \in 1 .. Len(events) : \E c \in Commands, at \in Times :
    events[k] \in Decide(After(events, k - 1), c, at)

LEMMA AfterNothing ==
  ASSUME NEW S, NEW events \in Seq(S)
  PROVE  After(events, 0) = InitialShipment
<1>1. SubSeq(events, 1, 0) = <<>>
  OBVIOUS
<1>. QED
  BY <1>1, ReplayOfNothing DEF After

LEMMA AfterOneMore ==
  ASSUME NEW S, NEW events \in Seq(S), NEW k \in 1 .. Len(events)
  PROVE  After(events, k) = ApplyEvent(After(events, k - 1), events[k])
<1>1. /\ SubSeq(events, 1, k) = Append(SubSeq(events, 1, k - 1), events[k])
      /\ SubSeq(events, 1, k - 1) \in Seq(S) /\ events[k] \in S
  OBVIOUS
<1>. QED
  BY <1>1, ReplayOfOneMore DEF After

LEMMA AfterAll ==
  ASSUME NEW S, NEW events \in Seq(S)
  PROVE  After(events, Len(events)) = Replay(events)
<1>1. SubSeq(events, 1, Len(events)) = events
  OBVIOUS
<1>. QED
  BY <1>1 DEF After

(* Later events do not change what earlier ones fold to.                   *)
LEMMA AfterStays ==
  ASSUME NEW S, NEW events \in Seq(S), NEW event \in S, NEW k \in 0 .. Len(events)
  PROVE  After(Append(events, event), k) = After(events, k)
<1>1. SubSeq(Append(events, event), 1, k) = SubSeq(events, 1, k)
  OBVIOUS
<1>. QED
  BY <1>1 DEF After

(* Every state a stream went through is one the read side can rely on, and *)
(* carries the number of events behind it.                                 *)
LEMMA AfterReached ==
  ASSUME NEW events, StreamOK(events), EachDecided(events), NEW k \in 0 .. Len(events)
  PROVE  Reached(After(events, k)) /\ After(events, k).version = k
<1>. DEFINE n == Len(events)
            Bad == {m \in 0 .. n : ~Reached(After(events, m))}
<1>1. PICK S : events \in Seq(S)
  BY DEF StreamOK
<1>2. n \in Nat
  BY <1>1
<1>3. ASSUME Bad # {} PROVE FALSE
  <2>1. PICK m \in Bad : \A i \in Bad : m <= i
    <3>1. Bad \in SUBSET Nat
      BY <1>2
    <3>. HIDE DEF Bad
    <3>. QED
      BY <1>3, <3>1, LeastElement
  <2>2. Reached(InitialShipment)
    BY NullAssumption DEF Reached, InitialShipment
  <2>3. m # 0
    BY <1>1, <2>2, AfterNothing
  <2>4. m \in 1 .. n /\ m - 1 \in 0 .. n /\ m - 1 < m
    BY <1>2, <2>3
  <2>5. m - 1 \notin Bad
    <3>1. m \in Nat
      BY <1>2
    <3>. HIDE DEF Bad
    <3>. QED
      BY <2>1, <2>4, <3>1
  <2>6. Reached(After(events, m - 1))
    BY <2>4, <2>5
  <2>7. PICK c \in Commands, at \in Times : events[m] \in Decide(After(events, m - 1), c, at)
    BY <2>4 DEF EachDecided
  <2>8. After(events, m) = ApplyEvent(After(events, m - 1), events[m])
    BY <1>1, <2>4, AfterOneMore
  <2>9. Reached(After(events, m))
    BY <2>6, <2>7, <2>8, ApplyReached
  <2>. QED
    BY <2>9
<1>4. After(events, k).version = k
  <2>1. \A i \in 1 .. Len(events) : events[i].type \in EventTypes /\ events[i].version = i
    BY DEF StreamOK
  <2>2. After(events, k).version = IF k = 0 THEN 0 ELSE events[k].version
    BY <1>1, <2>1, PrefixEnvelope DEF After
  <2>. QED
    BY <1>2, <2>1, <2>2
<1>. QED
  BY <1>3, <1>4

(* Catching up from a state no document can tell from the one after v      *)
(* events ends in one it cannot tell from the one after w.                 *)
LEMMA CatchUp ==
  ASSUME NEW events, StreamOK(events), EachDecided(events),
         NEW v \in 0 .. Len(events), NEW w \in v .. Len(events),
         NEW t, Similar(After(events, v), t)
  PROVE  Similar(After(events, w), ReplayFrom(t, SubSeq(events, v + 1, w)))
<1>. DEFINE n == Len(events)
            caught(m) == ReplayFrom(t, SubSeq(events, v + 1, m))
            Bad == {m \in v .. n : ~Similar(After(events, m), caught(m))}
<1>1. PICK S : events \in Seq(S)
  BY DEF StreamOK
<1>2. n \in Nat
  BY <1>1
<1>3. ASSUME Bad # {} PROVE FALSE
  <2>1. PICK m \in Bad : \A i \in Bad : m <= i
    <3>1. Bad \in SUBSET Nat
      BY <1>2
    <3>. HIDE DEF Bad
    <3>. QED
      BY <1>3, <3>1, LeastElement
  <2>2. caught(v) = t
    <3>1. SubSeq(events, v + 1, v) = <<>>
      BY <1>1
    <3>. QED
      BY <3>1, ReplayFromNothing
  <2>3. m # v
    BY <2>2
  <2>4. m \in 1 .. n /\ m - 1 \in v .. n /\ m - 1 < m
    BY <1>2, <2>3
  <2>5. m - 1 \notin Bad
    <3>1. m \in Nat
      BY <1>2
    <3>. HIDE DEF Bad
    <3>. QED
      BY <2>1, <2>4, <3>1
  <2>6. Similar(After(events, m - 1), caught(m - 1))
    <3>. HIDE DEF caught
    <3>. QED
      BY <2>4, <2>5
  <2>7. PICK c \in Commands, at \in Times : events[m] \in Decide(After(events, m - 1), c, at)
    BY <2>4 DEF EachDecided
  <2>8. After(events, m) = ApplyEvent(After(events, m - 1), events[m])
    BY <1>1, <2>4, AfterOneMore
  <2>9. caught(m) = ApplyEvent(caught(m - 1), events[m])
    <3>1. /\ SubSeq(events, v + 1, m) = Append(SubSeq(events, v + 1, m - 1), events[m])
          /\ SubSeq(events, v + 1, m - 1) \in Seq(S) /\ events[m] \in S
      BY <1>1, <2>4
    <3>2. PICK rest : rest = SubSeq(events, v + 1, m - 1)
      OBVIOUS
    <3>3. rest \in Seq(S) /\ events[m] \in S
      BY <3>1, <3>2
    <3>4. ReplayFrom(t, Append(rest, events[m])) = ApplyEvent(ReplayFrom(t, rest), events[m])
      <4>. HIDE DEF Bad, caught, n
      <4>. QED
        BY <3>3, ReplayFromOneMore
    <3>. QED
      BY <3>1, <3>2, <3>4
  <2>10. Reached(After(events, m - 1))
    BY <1>2, <2>4, AfterReached
  <2>. HIDE DEF caught
  <2>11. Similar(After(events, m), caught(m))
    BY <2>6, <2>7, <2>8, <2>9, <2>10, ApplySimilar
  <2>. QED
    BY <2>11
<1>. QED
  BY <1>3

(* What a command decided on all of a stream, every event after it too     *)
(* finds decided.                                                          *)
LEMMA GrowthDecided ==
  ASSUME NEW S, NEW events \in Seq(S), EachDecided(events),
         NEW c \in Commands, NEW at \in Times, NEW event \in Decide(Replay(events), c, at)
  PROVE  EachDecided(Append(events, event))
<1>. DEFINE longer == Append(events, event)
            n == Len(events)
            T == S \cup {event}
<1>1. events \in Seq(T) /\ event \in T
  OBVIOUS
<1>. HIDE DEF T
<1>2. n \in Nat /\ Len(longer) = n + 1 /\ longer[n + 1] = event
      /\ \A i \in 1 .. n : longer[i] = events[i]
  BY <1>1
<1>3. \A k \in 0 .. n : After(longer, k) = After(events, k)
  BY <1>1, AfterStays
<1>4. After(events, n) = Replay(events)
  BY <1>1, AfterAll
<1>. HIDE DEF longer, n
<1>5. ASSUME NEW k \in 1 .. n + 1
      PROVE  \E d \in Commands, then \in Times :
               longer[k] \in Decide(After(longer, k - 1), d, then)
  <2>1. k - 1 \in 0 .. n /\ After(longer, k - 1) = After(events, k - 1)
    BY <1>2, <1>3
  <2>2. CASE k = n + 1
    BY <1>2, <1>4, <2>1, <2>2
  <2>3. CASE k # n + 1
    <3>1. k \in 1 .. n
      BY <1>2, <2>3
    <3>. QED
      BY <1>2, <2>1, <3>1 DEF EachDecided, n
  <2>. QED
    BY <2>2, <2>3
<1>. QED
  BY <1>2, <1>5 DEF EachDecided, longer

-----------------------------------------------------------------------------
(* The inductive invariant of the read side.                               *)

(* A document is what a projection of as many events, replayed from the    *)
(* beginning, would have written on some day.                              *)
Written(d, events) ==
  /\ d.version \in 0 .. Len(events)
  /\ \E t \in Times : d = Document(After(events, d.version), DayOf(t))

(* An answer tells of a state the stream went through, as it is seen at    *)
(* some instant.                                                           *)
Tells(answer, events, instant) ==
  /\ answer.shipment.version \in 0 .. Len(events)
  /\ LET d == Document(After(events, answer.shipment.version), DayOf(instant))
     IN  answer = [shipment |-> d, risk |-> Risk(d, instant, FALSE)]

DocumentsOK ==
  /\ Listed \subseteq Aggregates /\ IsFiniteSet(Listed)
  /\ now \in Times
  /\ \A a \in Listed : Written(document[a], log[a])

(* What each kind of query holds, at each of its stages.                   *)
GetOK ==
  query.kind = "get" =>
    /\ DOMAIN query = {"kind", "agg", "since", "unread", "found", "stored"}
    /\ query.agg \in Aggregates /\ query.since \in 0 .. Len(log[query.agg])
    /\ "version" \notin query.unread => query.stored \in query.since .. Len(log[query.agg])
    /\ query.found # NULL => Written(query.found, log[query.agg])

ReplyOK ==
  query.kind = "reply" =>
    /\ query.agg \in Aggregates
    /\ query.since <= query.answer.shipment.version
    /\ Tells(query.answer, log[query.agg], query.at)

NotFoundOK == query.kind = "notFound" => query.since = 0

StreamReadOK ==
  query.kind \in {"reconcile", "export"} =>
    /\ query.agg \in Aggregates /\ query.since \in 0 .. Len(log[query.agg])
    /\ query.stream = SubSeq(log[query.agg], 1, query.since)

ExportedOK ==
  query.kind = "exported" =>
    /\ query.since <= query.report.version
    /\ query.report.version <= query.records /\ query.intact

ListOK ==
  query.kind = "list" =>
    \A i \in DOMAIN query.items :
      /\ query.items[i].agg \in Aggregates
      /\ Tells(query.items[i].answer, log[query.items[i].agg], query.at)

(* So many pages were counted in full, or everything there was to begin    *)
(* with; no more was counted than there is.                                *)
MetricsOK ==
  query.kind = "metrics" =>
    LET read == IF "items" \in query.unread THEN query.page - 1 ELSE query.page
    IN  /\ DOMAIN query = {"kind", "page", "counted", "total", "empty", "unread", "since"}
        /\ query.page \in Nat \ {0} /\ query.counted \in Nat
        /\ query.since \in 0 .. Cardinality(Listed)
        /\ query.counted <= Cardinality(Listed) /\ query.counted <= read * PageSize
        /\ query.counted >= query.since \/ query.counted = read * PageSize
        /\ "items" \notin query.unread /\ query.empty => query.counted >= query.since
        /\ "total" \notin query.unread => query.total \in Nat /\ query.total >= query.since

FiguresOK ==
  query.kind = "figures" =>
    query.since \in Nat /\ query.counted \in query.since .. Cardinality(Listed)

QueryOK ==
  /\ GetOK /\ ReplyOK /\ NotFoundOK /\ StreamReadOK /\ ExportedOK
  /\ ListOK /\ MetricsOK /\ FiguresOK

QueriesInv ==
  /\ Inv
  /\ \A a \in Aggregates : EachDecided(log[a])
  /\ DocumentsOK /\ QueryOK

-----------------------------------------------------------------------------
(* What stays true while streams and the read model grow.                  *)

(* One stream continues another.                                           *)
Continues(longer, events) ==
  /\ Len(events) \in Nat /\ Len(longer) \in Nat /\ Len(events) <= Len(longer)
  /\ \A k \in 0 .. Len(events) : SubSeq(longer, 1, k) = SubSeq(events, 1, k)

LEMMA StreamsGrow ==
  ASSUME Inv, \A a \in Aggregates : EachDecided(log[a]), [Next]_log
  PROVE  \A a \in Aggregates : EachDecided(log'[a]) /\ Continues(log'[a], log[a])
<1>1. \A a \in Aggregates : Continues(log[a], log[a])
  BY DEF Continues, Inv, StreamOK
<1>2. CASE UNCHANGED log
  BY <1>1, <1>2
<1>3. ASSUME NEW a \in Aggregates, NEW c \in Commands, NEW at \in Times, Record(a, c, at)
      PROVE  \A b \in Aggregates : EachDecided(log'[b]) /\ Continues(log'[b], log[b])
  <2>1. PICK event \in Decide(Replay(log[a]), c, at) :
          log' = [log EXCEPT ![a] = Append(log[a], event)]
    BY <1>3 DEF Record
  <2>2. /\ log'[a] = Append(log[a], event)
        /\ \A b \in Aggregates \ {a} : log'[b] = log[b]
    BY <2>1 DEF Inv
  <2>3. PICK S : log[a] \in Seq(S)
    BY DEF Inv, StreamOK
  <2>4. EachDecided(Append(log[a], event))
    BY <2>3, GrowthDecided
  <2>5. Continues(Append(log[a], event), log[a])
    <3>1. log[a] \in Seq(S \cup {event}) /\ event \in S \cup {event}
      BY <2>3
    <3>. QED
      BY <3>1 DEF Continues
  <2>. QED
    BY <1>1, <2>2, <2>4, <2>5
<1>. QED
  BY <1>2, <1>3 DEF Next

LEMMA PrefixStays ==
  ASSUME NEW events, NEW longer, Continues(longer, events), NEW k \in 0 .. Len(events)
  PROVE  /\ k \in 0 .. Len(longer) /\ SubSeq(longer, 1, k) = SubSeq(events, 1, k)
         /\ After(longer, k) = After(events, k)
<1>1. Len(events) \in Nat /\ Len(longer) \in Nat /\ Len(events) <= Len(longer)
      /\ SubSeq(longer, 1, k) = SubSeq(events, 1, k)
  BY DEF Continues
<1>2. After(longer, k) = After(events, k)
  BY <1>1 DEF After
<1>. QED
  BY <1>1, <1>2

LEMMA WrittenStays ==
  ASSUME NEW events, NEW longer, Continues(longer, events), NEW d, Written(d, events)
  PROVE  Written(d, longer)
<1>1. d.version \in 0 .. Len(events)
  BY DEF Written
<1>2. d.version \in 0 .. Len(longer) /\ After(longer, d.version) = After(events, d.version)
  BY <1>1, PrefixStays
<1>. QED
  BY <1>2 DEF Written

LEMMA TellsStays ==
  ASSUME NEW events, NEW longer, Continues(longer, events),
         NEW answer, NEW instant, Tells(answer, events, instant)
  PROVE  Tells(answer, longer, instant)
<1>. DEFINE v == answer.shipment.version
<1>1. v \in 0 .. Len(events)
  BY DEF Tells
<1>2. v \in 0 .. Len(longer) /\ After(longer, v) = After(events, v)
  BY <1>1, PrefixStays
<1>. QED
  BY <1>2 DEF Tells

(* Whatever was recorded or projected meanwhile, a query in progress keeps *)
(* what it has, and what it has stays true.                                *)
LEMMA QueryWaits ==
  ASSUME QueryOK, \A a \in Aggregates : Continues(log'[a], log[a]),
         Cardinality(Listed) \in Nat, Cardinality(Listed)' \in Nat,
         Cardinality(Listed) <= Cardinality(Listed)',
         query' = query
  PROVE  QueryOK'
<1>1. GetOK'
  <2>. SUFFICES ASSUME query.kind = "get"
                PROVE  GetOK'
    BY DEF GetOK
  <2>1. /\ query.agg \in Aggregates /\ query.since \in 0 .. Len(log[query.agg])
        /\ Len(log[query.agg]) \in Nat /\ Len(log'[query.agg]) \in Nat
        /\ Len(log[query.agg]) <= Len(log'[query.agg])
    BY DEF QueryOK, GetOK, Continues
  <2>2. query.found # NULL => Written(query.found, log'[query.agg])
    BY WrittenStays DEF QueryOK, GetOK
  <2>. QED
    BY <2>1, <2>2 DEF QueryOK, GetOK
<1>2. ReplyOK'
  BY TellsStays DEF QueryOK, ReplyOK
<1>3. NotFoundOK' /\ ExportedOK'
  BY DEF QueryOK, NotFoundOK, ExportedOK
<1>4. StreamReadOK'
  <2>. SUFFICES ASSUME query.kind \in {"reconcile", "export"}
                PROVE  StreamReadOK'
    BY DEF StreamReadOK
  <2>1. query.agg \in Aggregates /\ query.since \in 0 .. Len(log[query.agg])
    BY DEF QueryOK, StreamReadOK
  <2>2. /\ query.since \in 0 .. Len(log'[query.agg])
        /\ SubSeq(log'[query.agg], 1, query.since) = SubSeq(log[query.agg], 1, query.since)
    BY <2>1, PrefixStays
  <2>. QED
    BY <2>1, <2>2 DEF QueryOK, StreamReadOK
<1>5. ListOK'
  BY TellsStays DEF QueryOK, ListOK
<1>6. MetricsOK'
  BY DEF QueryOK, MetricsOK
<1>7. FiguresOK'
  BY DEF QueryOK, FiguresOK
<1>. QED
  BY <1>1, <1>2, <1>3, <1>4, <1>5, <1>6, <1>7 DEF QueryOK

LEMMA RecordPreserves ==
  ASSUME QueriesInv, RecordEvent
  PROVE  QueriesInv'
<1>1. [Next]_log
  BY DEF RecordEvent, Next, Datable
<1>2. Inv'
  BY <1>1, InvNext DEF QueriesInv
<1>3. \A a \in Aggregates : EachDecided(log'[a]) /\ Continues(log'[a], log[a])
  BY <1>1, StreamsGrow DEF QueriesInv
<1>4. Listed' = Listed /\ now' = now /\ document' = document /\ query' = query
  BY DEF RecordEvent, Listed
<1>5. DocumentsOK'
  BY <1>3, <1>4, WrittenStays DEF QueriesInv, DocumentsOK
<1>6. QueryOK'
  BY <1>3, <1>4, QueryWaits, FS_CardinalityType DEF QueriesInv, DocumentsOK
<1>. QED
  BY <1>2, <1>3, <1>5, <1>6 DEF QueriesInv

(* The worker's new document is again what a replay would have written.    *)
LEMMA ProjectPreserves ==
  ASSUME QueriesInv, Project
  PROVE  QueriesInv'
<1>0. PICK a \in Aggregates : \E v \in StoredVersion(a) + 1 .. Len(log[a]) :
        document' = [b \in Listed \cup {a} |->
          IF b = a
            THEN Document(ReplayFrom(IF a \in Listed THEN StateFrom(document[a])
                                     ELSE InitialShipment,
                                     SubSeq(log[a], StoredVersion(a) + 1, v)), Today)
            ELSE document[b]]
  BY DEF Project
<1>1. PICK v \in StoredVersion(a) + 1 .. Len(log[a]) :
        document' = [b \in Listed \cup {a} |->
          IF b = a
            THEN Document(ReplayFrom(IF a \in Listed THEN StateFrom(document[a])
                                     ELSE InitialShipment,
                                     SubSeq(log[a], StoredVersion(a) + 1, v)), Today)
            ELSE document[b]]
  BY <1>0
<1>. DEFINE u == StoredVersion(a)
            base == IF a \in Listed THEN StateFrom(document[a]) ELSE InitialShipment
            new == ReplayFrom(base, SubSeq(log[a], u + 1, v))
<1>2. log' = log /\ now' = now /\ query' = query
  BY DEF Project
<1>3. StreamOK(log[a]) /\ EachDecided(log[a]) /\ Len(log[a]) \in Nat
  BY DEF QueriesInv, Inv, StreamOK
<1>4. u \in 0 .. Len(log[a]) /\ Similar(After(log[a], u), base)
  <2>1. CASE a \in Listed
    <3>1. PICK t \in Times : /\ document[a] = Document(After(log[a], u), DayOf(t))
                             /\ u \in 0 .. Len(log[a])
      BY <2>1 DEF QueriesInv, DocumentsOK, Written, StoredVersion
    <3>2. DayOf(t) \in Int
      BY LedgerAssumption, DayIsInt
    <3>3. Reached(After(log[a], u))
      BY <1>3, <3>1, AfterReached
    <3>. QED
      BY <2>1, <3>1, <3>2, <3>3, RestoredIsSimilar
  <2>2. CASE a \notin Listed
    <3>1. u = 0
      BY <2>2 DEF StoredVersion
    <3>2. PICK S : log[a] \in Seq(S)
      BY <1>3 DEF StreamOK
    <3>3. After(log[a], u) = base
      BY <2>2, <3>1, <3>2, AfterNothing
    <3>4. Similar(InitialShipment, InitialShipment)
      BY DEF Similar, Alike, Matching, InitialShipment
    <3>. QED
      BY <1>3, <2>2, <3>1, <3>3, <3>4
  <2>. QED
    BY <2>1, <2>2
<1>5. v \in u .. Len(log[a]) /\ v \in 0 .. Len(log[a])
  BY <1>3, <1>4
<1>. HIDE DEF base, u
<1>6. Document(new, Today) = Document(After(log[a], v), Today)
  <2>1. Similar(After(log[a], v), new)
    BY <1>3, <1>4, <1>5, CatchUp
  <2>. HIDE DEF new
  <2>. QED
    BY <2>1, SimilarDocuments
<1>7. Written(Document(new, Today), log[a])
  <2>1. After(log[a], v).version = v
    BY <1>3, <1>5, AfterReached
  <2>2. Document(new, Today).version = v
    BY <1>6, <2>1 DEF Document
  <2>. HIDE DEF new
  <2>. QED
    BY <1>5, <1>6, <2>2 DEF Written, Today, QueriesInv, DocumentsOK
<1>8. /\ Listed' = Listed \cup {a}
      /\ document'[a] = Document(new, Today)
      /\ \A b \in Listed \ {a} : document'[b] = document[b]
  <2>. HIDE DEF new
  <2>. QED
    BY <1>1 DEF Listed, new, base, u
<1>. HIDE DEF new
<1>9. DocumentsOK'
  <2>1. Listed' \subseteq Aggregates /\ IsFiniteSet(Listed')
    BY <1>8, FS_AddElement DEF QueriesInv, DocumentsOK
  <2>2. \A b \in Listed' : Written(document'[b], log'[b])
    BY <1>2, <1>7, <1>8 DEF QueriesInv, DocumentsOK
  <2>. QED
    BY <1>2, <2>1, <2>2 DEF QueriesInv, DocumentsOK
<1>10. QueryOK'
  <2>1. /\ Cardinality(Listed) \in Nat /\ Cardinality(Listed') \in Nat
        /\ Cardinality(Listed) <= Cardinality(Listed')
    BY <1>8, FS_AddElement, FS_CardinalityType, FS_Subset DEF QueriesInv, DocumentsOK
  <2>2. \A b \in Aggregates : Continues(log'[b], log[b])
    BY <1>2 DEF Continues, QueriesInv, Inv, StreamOK
  <2>. QED
    BY <1>2, <2>1, <2>2, QueryWaits DEF QueriesInv
<1>11. Inv'
  BY <1>2 DEF QueriesInv, Inv, StreamOK, FoldOK
<1>. QED
  BY <1>2, <1>9, <1>10, <1>11 DEF QueriesInv

LEMMA TickPreserves ==
  ASSUME QueriesInv, Tick
  PROVE  QueriesInv'
<1>1. log' = log /\ document' = document /\ query' = query /\ now' \in Times
      /\ Listed' = Listed
  BY DEF Tick, Listed
<1>2. Inv'
  BY <1>1 DEF QueriesInv, Inv, StreamOK, FoldOK
<1>3. DocumentsOK'
  BY <1>1 DEF QueriesInv, DocumentsOK
<1>4. QueryOK'
  <2>1. \A b \in Aggregates : Continues(log'[b], log[b])
    BY <1>1 DEF Continues, QueriesInv, Inv, StreamOK
  <2>. QED
    BY <1>1, <2>1, QueryWaits, FS_CardinalityType DEF QueriesInv, DocumentsOK
<1>. QED
  BY <1>1, <1>2, <1>3, <1>4 DEF QueriesInv

-----------------------------------------------------------------------------
(* The queries.                                                            *)

(* The chain as the write path leaves it verifies.                         *)
LEMMA ChainVerifies ==
  ASSUME NEW events, StreamOK(events)
  PROVE  Intact(Chained(events))
<1>. DEFINE n == Len(events)
            stored == Chained(events)
<1>1. PICK S : events \in Seq(S)
  BY DEF StreamOK
<1>2. n \in Nat /\ DOMAIN events = 1 .. n /\ \A i \in 1 .. n : events[i].version = i
  BY <1>1 DEF StreamOK
<1>3. DOMAIN stored = 1 .. n
  BY <1>2 DEF Chained
<1>4. \A i \in 1 .. n : /\ stored[i].event = events[i]
                        /\ stored[i].previous = SubSeq(events, 1, i - 1)
                        /\ stored[i].hash = SubSeq(events, 1, i)
  BY <1>2 DEF Chained
<1>. HIDE DEF stored
<1>5. ASSUME NEW i \in 1 .. n
      PROVE  LET previous == IF i = 1 THEN Genesis ELSE stored[i - 1].hash
             IN  /\ stored[i].event.version = (IF i = 1 THEN 1 ELSE stored[i - 1].event.version + 1)
                 /\ stored[i].previous = previous
                 /\ stored[i].hash = ComputeHash(stored[i].event, previous)
  <2>1. /\ SubSeq(events, 1, i) = Append(SubSeq(events, 1, i - 1), events[i])
        /\ SubSeq(events, 1, 0) = <<>>
    BY <1>1, <1>2
  <2>2. i # 1 => i - 1 \in 1 .. n
    BY <1>2
  <2>3. stored[i].previous = (IF i = 1 THEN Genesis ELSE stored[i - 1].hash)
    BY <1>4, <2>1, <2>2 DEF Genesis
  <2>4. stored[i].hash = ComputeHash(stored[i].event, stored[i].previous)
    BY <1>4, <2>1 DEF ComputeHash
  <2>5. stored[i].event.version = (IF i = 1 THEN 1 ELSE stored[i - 1].event.version + 1)
    BY <1>2, <1>4, <2>2
  <2>. QED
    BY <2>3, <2>4, <2>5
<1>. QED
  BY <1>3, <1>5 DEF Intact, stored

(* A document that was written is served as the state it was written from, *)
(* seen at the instant of the answer.                                      *)
LEMMA ServedTells ==
  ASSUME NEW events, StreamOK(events), EachDecided(events),
         NEW d, Written(d, events), NEW instant
  PROVE  /\ Tells(Served(d, instant, FALSE), events, instant)
         /\ Served(d, instant, FALSE).shipment.version = d.version
<1>1. PICK t \in Times : d = Document(After(events, d.version), DayOf(t))
  BY DEF Written
<1>2. d.version \in 0 .. Len(events) /\ DayOf(t) \in Int
  BY LedgerAssumption, DayIsInt DEF Written
<1>3. Reached(After(events, d.version)) /\ After(events, d.version).version = d.version
  BY <1>2, AfterReached
<1>4. Live(d, DayOf(instant)) = Document(After(events, d.version), DayOf(instant))
  BY <1>1, <1>2, <1>3, LiveDocument
<1>5. Live(d, DayOf(instant)).version = d.version
  BY <1>3, <1>4 DEF Document
<1>. QED
  BY <1>2, <1>4, <1>5 DEF Served, Tells

(* The document a replay of the whole stream writes today.                 *)
LEMMA ReplayIsWritten ==
  ASSUME NEW events, StreamOK(events), EachDecided(events), now \in Times
  PROVE  /\ Written(Document(Replay(events), Today), events)
         /\ Document(Replay(events), Today).version = Len(events)
<1>1. PICK S : events \in Seq(S)
  BY DEF StreamOK
<1>2. Len(events) \in 0 .. Len(events)
  BY <1>1
<1>3. Replay(events) = After(events, Len(events))
  BY <1>1, AfterAll
<1>4. Document(Replay(events), Today).version = Len(events)
  BY <1>2, <1>3, AfterReached DEF Document
<1>. QED
  BY <1>2, <1>3, <1>4 DEF Written, Today

(* One shipment.                                                           *)
LEMMA GetPreserves ==
  ASSUME QueriesInv, GetShipment
  PROVE  QueryOK' /\ UNCHANGED <<log, document, now>>
<1>s. \A a \in Aggregates : /\ StreamOK(log[a]) /\ EachDecided(log[a])
                            /\ Len(log[a]) \in Nat /\ ~Damaged(a)
  BY ChainVerifies DEF QueriesInv, Inv, StreamOK, Damaged
<1>1. CASE StartGet
  <2>1. PICK a \in Aggregates :
          query' = [kind |-> "get", agg |-> a, since |-> Len(log[a]),
                    unread |-> {"document", "version"}, found |-> NULL, stored |-> 0]
    BY <1>1 DEF StartGet
  <2>2. GetOK'
    BY <1>1, <1>s, <2>1 DEF StartGet, GetOK
  <2>. QED
    BY <1>1, <2>1, <2>2 DEF StartGet, QueryOK, ReplyOK, NotFoundOK, StreamReadOK, ExportedOK, ListOK, MetricsOK, FiguresOK
<1>2. CASE ReadDocument
  <2>1. /\ query.kind = "get" /\ log' = log
        /\ query' = [query EXCEPT !.unread = @ \ {"document"}, !.found = Found(query.agg)]
    BY <1>2 DEF ReadDocument, Reading
  <2>2. Found(query.agg) # NULL => Written(Found(query.agg), log[query.agg])
    BY DEF Found, QueriesInv, DocumentsOK
  <2>3. /\ query'.kind = "get" /\ query'.agg = query.agg /\ query'.since = query.since
        /\ query'.stored = query.stored /\ query'.found = Found(query.agg)
        /\ query'.unread = query.unread \ {"document"} /\ DOMAIN query' = DOMAIN query
    BY <2>1 DEF QueriesInv, QueryOK, GetOK
  <2>4. GetOK'
    BY <2>1, <2>2, <2>3 DEF QueriesInv, QueryOK, GetOK
  <2>. QED
    BY <1>2, <2>3, <2>4 DEF ReadDocument, QueryOK, ReplyOK, NotFoundOK, StreamReadOK, ExportedOK, ListOK, MetricsOK, FiguresOK
<1>3. CASE ReadStreamVersion
  <2>1. /\ query.kind = "get" /\ log' = log
        /\ query' = [query EXCEPT !.unread = @ \ {"version"}, !.stored = Len(log[query.agg])]
    BY <1>3 DEF ReadStreamVersion, Reading
  <2>2. /\ query'.kind = "get" /\ query'.agg = query.agg /\ query'.since = query.since
        /\ query'.stored = Len(log[query.agg]) /\ query'.found = query.found
        /\ DOMAIN query' = DOMAIN query
    BY <2>1 DEF QueriesInv, QueryOK, GetOK
  <2>3. Len(log[query.agg]) \in query.since .. Len(log[query.agg])
    BY <1>s, <2>1 DEF QueriesInv, QueryOK, GetOK
  <2>4. GetOK'
    BY <2>1, <2>2, <2>3 DEF QueriesInv, QueryOK, GetOK
  <2>. QED
    BY <1>3, <2>2, <2>4 DEF ReadStreamVersion, QueryOK, ReplyOK, NotFoundOK, StreamReadOK,
       ExportedOK, ListOK, MetricsOK, FiguresOK
<1>4. CASE ServeDocument
  <2>1. /\ query.kind = "get" /\ query.unread = {} /\ query.found # NULL
        /\ query.found.version = query.stored
    BY <1>4 DEF ServeDocument, UpToDate
  <2>2. /\ query.agg \in Aggregates /\ query.since <= query.stored
        /\ Written(query.found, log[query.agg])
    BY <2>1 DEF QueriesInv, QueryOK, GetOK
  <2>3. query' = [kind |-> "reply", agg |-> query.agg, since |-> query.since,
                  at |-> now, answer |-> Served(query.found, now, FALSE)]
    BY <1>4, <1>s, <2>2 DEF ServeDocument, Reply, Damaged
  <2>4. /\ Tells(Served(query.found, now, FALSE), log[query.agg], now)
        /\ Served(query.found, now, FALSE).shipment.version = query.stored
    BY <1>s, <2>1, <2>2, ServedTells
  <2>5. ReplyOK'
    BY <1>4, <2>2, <2>3, <2>4 DEF ServeDocument, ReplyOK
  <2>. QED
    BY <1>4, <2>3, <2>5 DEF ServeDocument, QueryOK, GetOK, NotFoundOK, StreamReadOK, ExportedOK, ListOK, MetricsOK, FiguresOK
<1>5. CASE ServeReplay
  <2>. DEFINE d == Document(Replay(log[query.agg]), Today)
  <2>1. query.agg \in Aggregates /\ query.since <= Len(log[query.agg])
    BY <1>5 DEF ServeReplay, QueriesInv, QueryOK, GetOK
  <2>2. query' = [kind |-> "reply", agg |-> query.agg, since |-> query.since,
                  at |-> now, answer |-> Served(d, now, FALSE)]
    BY <1>5, <1>s, <2>1 DEF ServeReplay, Reply, Damaged
  <2>3. Written(d, log[query.agg]) /\ d.version = Len(log[query.agg])
    BY <1>s, <2>1, ReplayIsWritten DEF QueriesInv, DocumentsOK
  <2>. HIDE DEF d
  <2>4. /\ Tells(Served(d, now, FALSE), log[query.agg], now)
        /\ Served(d, now, FALSE).shipment.version = Len(log[query.agg])
    BY <1>s, <2>1, <2>3, ServedTells
  <2>5. ReplyOK'
    BY <1>5, <2>1, <2>2, <2>4 DEF ServeReplay, ReplyOK
  <2>. QED
    BY <1>5, <2>2, <2>5 DEF ServeReplay, QueryOK, GetOK, NotFoundOK, StreamReadOK, ExportedOK, ListOK, MetricsOK, FiguresOK
<1>6. CASE ServeNotFound
  <2>1. query.agg \in Aggregates /\ query.since \in Nat /\ query.since <= 0
    BY <1>6, <1>s DEF ServeNotFound, QueriesInv, QueryOK, GetOK
  <2>2. query' = [kind |-> "notFound", agg |-> query.agg, since |-> query.since]
    BY <1>6 DEF ServeNotFound, NotFound
  <2>3. NotFoundOK'
    BY <2>1, <2>2 DEF NotFoundOK
  <2>. QED
    BY <1>6, <2>2, <2>3 DEF ServeNotFound, QueryOK, GetOK, ReplyOK, StreamReadOK, ExportedOK, ListOK, MetricsOK, FiguresOK
<1>. QED
  BY <1>1, <1>2, <1>3, <1>4, <1>5, <1>6 DEF GetShipment

(* The drift report and the printed report.                                *)
LEMMA StreamQueriesPreserve ==
  ASSUME QueriesInv, ReconcileOne \/ ExportHistory
  PROVE  QueryOK' /\ UNCHANGED <<log, document, now>>
<1>s. \A a \in Aggregates : /\ StreamOK(log[a]) /\ EachDecided(log[a])
                            /\ Len(log[a]) \in Nat /\ ~Damaged(a)
                            /\ SubSeq(log[a], 1, Len(log[a])) = log[a]
  <2>1. \A a \in Aggregates : StreamOK(log[a]) /\ EachDecided(log[a]) /\ ~Damaged(a)
    BY ChainVerifies DEF QueriesInv, Inv, Damaged
  <2>2. ASSUME NEW a \in Aggregates
        PROVE  Len(log[a]) \in Nat /\ SubSeq(log[a], 1, Len(log[a])) = log[a]
    <3>1. PICK S : log[a] \in Seq(S)
      BY <2>1 DEF StreamOK
    <3>. QED
      BY <3>1
  <2>. QED
    BY <2>1, <2>2
<1>1. ASSUME NEW kind \in {"reconcile", "export"}, NEW a \in Aggregates, Read(kind, a)
      PROVE  QueryOK' /\ UNCHANGED <<log, document, now>>
  <2>1. /\ query' = [kind |-> kind, agg |-> a, since |-> Len(log[a]), stream |-> log[a]]
        /\ log' = log
    BY <1>1 DEF Read
  <2>2. StreamReadOK'
    BY <1>s, <2>1 DEF StreamReadOK
  <2>. QED
    BY <1>1, <2>1, <2>2 DEF Read, QueryOK, GetOK, ReplyOK, NotFoundOK, ExportedOK,
       ListOK, MetricsOK, FiguresOK
<1>2. ASSUME query.kind \in {"reconcile", "export"}
      PROVE  /\ query.agg \in Aggregates /\ query.since \in 0 .. Len(log[query.agg])
             /\ query.stream = SubSeq(log[query.agg], 1, query.since)
             /\ Replay(query.stream) = After(log[query.agg], query.since)
             /\ Reached(Replay(query.stream)) /\ Replay(query.stream).version = query.since
  <2>1. /\ query.agg \in Aggregates /\ query.since \in 0 .. Len(log[query.agg])
        /\ query.stream = SubSeq(log[query.agg], 1, query.since)
    BY <1>2 DEF QueriesInv, QueryOK, StreamReadOK
  <2>2. Replay(query.stream) = After(log[query.agg], query.since)
    BY <2>1 DEF After
  <2>. QED
    BY <1>s, <2>1, <2>2, AfterReached
<1>3. CASE AnswerNotFound
  <2>1. query.since = 0
    <3>1. PICK S : log[query.agg] \in Seq(S)
      BY <1>2, <1>3, <1>s DEF AnswerNotFound, StreamOK
    <3>2. Len(SubSeq(log[query.agg], 1, query.since)) = query.since
      BY <1>2, <1>3, <3>1 DEF AnswerNotFound
    <3>. QED
      BY <1>2, <1>3, <3>2 DEF AnswerNotFound
  <2>2. query' = [kind |-> "notFound", agg |-> query.agg, since |-> query.since]
    BY <1>3 DEF AnswerNotFound, NotFound
  <2>. QED
    BY <1>3, <2>1, <2>2 DEF AnswerNotFound, QueryOK, GetOK, ReplyOK, NotFoundOK, StreamReadOK,
       ExportedOK, ListOK, MetricsOK, FiguresOK
<1>4. CASE Reconcile
  <2>1. /\ query' = [kind |-> "drift", agg |-> query.agg, differing |-> query'.differing]
        /\ UNCHANGED <<log, document, now>>
    BY <1>4 DEF Reconcile
  <2>2. query'.kind = "drift"
    BY <2>1
  <2>. QED
    BY <2>1, <2>2 DEF QueryOK, GetOK, ReplyOK, NotFoundOK, StreamReadOK, ExportedOK, ListOK,
       MetricsOK, FiguresOK
<1>5. CASE Export
  <2>1. /\ query'.kind = "exported" /\ query'.since = query.since
        /\ query'.report = Report(query.stream, Today)
        /\ query'.intact = ~Damaged(query.agg) /\ query'.records = Len(log[query.agg])
    BY <1>5 DEF Export
  <2>2. query'.report.version = query.since
    BY <1>2, <1>5, <2>1 DEF Export, Report
  <2>3. query.agg \in Aggregates /\ query.since \in 0 .. Len(log[query.agg])
    BY <1>2, <1>5 DEF Export
  <2>4. query'.intact
    BY <1>s, <2>1, <2>3
  <2>5. query'.since <= query'.report.version /\ query'.report.version <= query'.records
    BY <1>s, <2>1, <2>2, <2>3
  <2>6. ExportedOK'
    BY <2>4, <2>5 DEF ExportedOK
  <2>. QED
    BY <1>5, <2>1, <2>6 DEF Export, QueryOK, GetOK, ReplyOK, NotFoundOK, StreamReadOK,
       ListOK, MetricsOK, FiguresOK
<1>. QED
  BY <1>1, <1>3, <1>4, <1>5 DEF ReconcileOne, ExportHistory, StartReconcile, StartExport

(* What is left of n documents past the first so many, a page at most.     *)
HoldsTheRest(items, past, n) ==
  /\ Len(items) \in Nat /\ DOMAIN items = 1 .. Len(items)
  /\ n <= past => Len(items) = 0
  /\ past <= n /\ n <= past + PageSize => Len(items) = n - past
  /\ past + PageSize <= n => Len(items) = PageSize
  /\ items = <<>> => Len(items) = 0

(* A page is what the order holds between two multiples of the page size.  *)
LEMMA PageIsPart ==
  ASSUME NEW S, NEW n \in Nat, NEW order \in [1 .. n -> S], NEW page \in Nat \ {0}
  PROVE  /\ HoldsTheRest(PageOf(order, page), (page - 1) * PageSize, n)
         /\ \A i \in DOMAIN PageOf(order, page) : PageOf(order, page)[i] \in S
<1>. DEFINE past == (page - 1) * PageSize
<1>1. past \in Nat /\ PageSize \in Nat \ {0} /\ page * PageSize = past + PageSize
  BY QueriesAssumption
<1>2. order \in Seq(S) /\ Len(order) = n
  OBVIOUS
<1>. HIDE DEF past
<1>3. PageOf(order, page)
        = SubSeq(order, past + 1, IF past + PageSize < n THEN past + PageSize ELSE n)
  BY <1>1, <1>2 DEF PageOf, past
<1>. DEFINE items == PageOf(order, page)
            end == IF past + PageSize < n THEN past + PageSize ELSE n
<1>4. end \in Nat /\ end <= n
  BY <1>1
<1>5. items \in Seq(S) /\ Len(items) = IF past + 1 <= end THEN end - past ELSE 0
  <2>1. items = SubSeq(order, past + 1, end)
    BY <1>3
  <2>. HIDE DEF items, end
  <2>2. \A i \in past + 1 .. end : order[i] \in S
    BY <1>1, <1>4
  <2>. QED
    BY <1>1, <1>2, <1>4, <2>1, <2>2
<1>. HIDE DEF items
<1>6. Len(items) \in Nat /\ DOMAIN items = 1 .. Len(items)
      /\ \A i \in DOMAIN items : items[i] \in S
  BY <1>5
<1>7. /\ n <= past => Len(items) = 0
      /\ past <= n /\ n <= past + PageSize => Len(items) = n - past
      /\ past + PageSize <= n => Len(items) = PageSize
  BY <1>1, <1>5
<1>8. items = <<>> => Len(items) = 0
  OBVIOUS
<1>. QED
  BY <1>1, <1>6, <1>7, <1>8 DEF HoldsTheRest, items, past

(* The list.                                                               *)
LEMMA ListPreserves ==
  ASSUME QueriesInv, ListShipments
  PROVE  QueryOK' /\ UNCHANGED <<log, document, now>>
<1>1. PICK view \in Views :
        \E order \in Orders({a \in Listed : InView(a, view)}), page \in 1 .. Cardinality(Listed) :
          LET items == PageOf(order, page)
          IN  query' = [kind |-> "list", at |-> now,
                        items |-> [i \in DOMAIN items |->
                          [agg |-> items[i], answer |-> Served(document[items[i]], now, FALSE)]]]
  BY DEF ListShipments
<1>. DEFINE shown == {a \in Listed : InView(a, view)}
<1>2. PICK order \in Orders(shown), page \in 1 .. Cardinality(Listed) :
        LET items == PageOf(order, page)
        IN  query' = [kind |-> "list", at |-> now,
                      items |-> [i \in DOMAIN items |->
                        [agg |-> items[i], answer |-> Served(document[items[i]], now, FALSE)]]]
  BY <1>1
<1>3. IsFiniteSet(shown) /\ shown \subseteq Listed /\ Cardinality(Listed) \in Nat
      /\ Cardinality(shown) \in Nat
  BY FS_Subset, FS_CardinalityType DEF QueriesInv, DocumentsOK
<1>. HIDE DEF shown
<1>. DEFINE items == PageOf(order, page)
<1>4. \A i \in DOMAIN items : items[i] \in Listed
  <2>1. order \in [1 .. Cardinality(shown) -> shown] /\ page \in Nat \ {0}
    BY <1>3 DEF Orders
  <2>. QED
    BY <1>3, <2>1, PageIsPart
<1>. HIDE DEF items
<1>5. query' = [kind |-> "list", at |-> now,
                items |-> [i \in DOMAIN items |->
                  [agg |-> items[i], answer |-> Served(document[items[i]], now, FALSE)]]]
  BY <1>2 DEF items
<1>6. log' = log
  BY DEF ListShipments
<1>7. ListOK'
  <2>1. ASSUME NEW i \in DOMAIN items
        PROVE  /\ items[i] \in Aggregates
               /\ Tells(Served(document[items[i]], now, FALSE), log[items[i]], now)
    <3>1. /\ items[i] \in Aggregates /\ Written(document[items[i]], log[items[i]])
          /\ StreamOK(log[items[i]]) /\ EachDecided(log[items[i]])
      BY <1>4 DEF QueriesInv, DocumentsOK, Inv
    <3>. QED
      BY <3>1, ServedTells
  <2>. QED
    BY <1>5, <1>6, <2>1 DEF ListOK
<1>. QED
  BY <1>5, <1>7 DEF ListShipments, QueryOK, GetOK, ReplyOK, NotFoundOK, StreamReadOK, ExportedOK, MetricsOK, FiguresOK

(* The dashboard figures.                                                  *)
LEMMA MetricsPreserves ==
  ASSUME QueriesInv, DashboardMetrics
  PROVE  QueryOK' /\ UNCHANGED <<log, document, now>>
<1>. DEFINE n == Cardinality(Listed)
<1>0. n \in Nat /\ PageSize \in Nat \ {0} /\ IsFiniteSet(Listed)
  BY FS_CardinalityType, QueriesAssumption DEF QueriesInv, DocumentsOK
<1>1. UNCHANGED <<log, document, now>> /\ n' = n
  BY DEF DashboardMetrics, StartMetrics, ReadItems, ReadTotal, NextPage, Listed
<1>. HIDE DEF n
<1>2. SUFFICES query'.kind \in {"metrics", "figures"} /\ MetricsOK' /\ FiguresOK'
  BY <1>1 DEF QueryOK, GetOK, ReplyOK, NotFoundOK, StreamReadOK, ExportedOK, ListOK
<1>3. CASE StartMetrics
  <2>1. query' = [kind |-> "metrics", page |-> 1, counted |-> 0, total |-> 0, empty |-> FALSE,
                  unread |-> {"items", "total"}, since |-> n]
    BY <1>3 DEF StartMetrics, n
  <2>2. (1 - 1) * PageSize = 0
    BY <1>0
  <2>3. MetricsOK'
    BY <1>0, <1>1, <2>1, <2>2 DEF MetricsOK, n
  <2>. QED
    BY <2>1, <2>3 DEF FiguresOK
<1>4. ASSUME query.kind = "metrics"
      PROVE  /\ query.page \in Nat \ {0} /\ query.counted \in Nat /\ query.since \in 0 .. n
             /\ DOMAIN query = {"kind", "page", "counted", "total", "empty", "unread", "since"}
             /\ (query.page - 1) * PageSize \in Nat
             /\ query.page * PageSize = (query.page - 1) * PageSize + PageSize
  <2>1. query.page \in Nat \ {0}
    BY <1>4 DEF QueriesInv, QueryOK, MetricsOK
  <2>. QED
    BY <1>0, <1>4, <2>1 DEF QueriesInv, QueryOK, MetricsOK, n
<1>5. CASE ReadItems
  <2>1. PICK order \in Orders(Listed) :
          query' = [query EXCEPT !.unread = @ \ {"items"},
                                 !.counted = @ + Len(PageOf(order, query.page)),
                                 !.empty = PageOf(order, query.page) = <<>>]
    BY <1>5 DEF ReadItems
  <2>. DEFINE size == Len(PageOf(order, query.page))
              past == (query.page - 1) * PageSize
              nothing == PageOf(order, query.page) = <<>>
  <2>2. query.kind = "metrics" /\ "items" \in query.unread
    BY <1>5 DEF ReadItems, Reading
  <2>3. /\ size \in Nat
        /\ n <= past => size = 0
        /\ past <= n /\ n <= past + PageSize => size = n - past
        /\ past + PageSize <= n => size = PageSize
        /\ nothing => size = 0
    <3>1. order \in [1 .. n -> Listed]
      BY <2>1 DEF Orders, n
    <3>2. n \in Nat /\ query.page \in Nat \ {0}
      BY <1>0, <1>4, <2>2
    <3>3. HoldsTheRest(PageOf(order, query.page), past, n)
      BY <3>1, <3>2, PageIsPart
    <3>. QED
      BY <3>3 DEF HoldsTheRest
  <2>. HIDE DEF size, nothing
  <2>4. /\ query'.kind = "metrics" /\ query'.unread = query.unread \ {"items"}
        /\ query'.counted = query.counted + size /\ query'.empty = nothing
        /\ query'.page = query.page /\ query'.since = query.since /\ query'.total = query.total
        /\ DOMAIN query' = DOMAIN query
    BY <1>4, <2>1, <2>2 DEF size, nothing
  <2>5. /\ query.counted <= n /\ query.counted <= past
        /\ query.counted >= query.since \/ query.counted = past
        /\ "total" \notin query.unread => query.total \in Nat /\ query.total >= query.since
    BY <2>2 DEF QueriesInv, QueryOK, MetricsOK, n
  <2>6. past \in Nat /\ query.page * PageSize = past + PageSize
    BY <1>4, <2>2
  <2>. HIDE DEF past
  <2>7. /\ query.counted + size \in Nat /\ query.counted + size <= n
        /\ query.counted + size <= past + PageSize
        /\ query.counted + size >= query.since \/ query.counted + size = past + PageSize
        /\ size = 0 => query.counted + size >= query.since
    BY <1>0, <1>4, <2>2, <2>3, <2>5, <2>6
  <2>8. nothing => query.counted + size >= query.since
    BY <2>3, <2>7
  <2>9. MetricsOK'
    <3>1. query'.empty => query'.counted >= query'.since
      BY <2>4, <2>8
    <3>2. query'.counted <= n' /\ query'.counted <= query'.page * PageSize
          /\ (query'.counted >= query'.since \/ query'.counted = query'.page * PageSize)
      BY <1>1, <2>4, <2>6, <2>7
    <3>3. query'.counted \in Nat
      BY <2>4, <2>7
    <3>4. "items" \notin query'.unread
          /\ ("total" \notin query'.unread => query'.total \in Nat /\ query'.total >= query'.since)
      BY <2>4, <2>5
    <3>. QED
      BY <1>1, <1>4, <2>2, <2>4, <3>1, <3>2, <3>3, <3>4 DEF MetricsOK, n
  <2>. QED
    BY <2>4, <2>9 DEF FiguresOK
<1>6. CASE ReadTotal
  <2>1. /\ query.kind = "metrics"
        /\ query' = [query EXCEPT !.unread = @ \ {"total"}, !.total = n]
    BY <1>6 DEF ReadTotal, Reading, n
  <2>2. /\ query'.kind = "metrics" /\ query'.unread = query.unread \ {"total"}
        /\ query'.counted = query.counted /\ query'.empty = query.empty
        /\ query'.page = query.page /\ query'.since = query.since /\ query'.total = n
        /\ DOMAIN query' = DOMAIN query
    BY <1>4, <2>1
  <2>3. n \in Nat /\ n >= query.since
    BY <1>0, <1>4, <2>1
  <2>4. MetricsOK'
    BY <1>1, <2>1, <2>2, <2>3 DEF QueriesInv, QueryOK, MetricsOK, n
  <2>. QED
    BY <2>2, <2>4 DEF FiguresOK
<1>7. CASE NextPage
  <2>1. query.kind = "metrics" /\ query.unread = {}
    BY <1>7 DEF NextPage
  <2>2. /\ query.counted <= n /\ query.counted <= query.page * PageSize
        /\ query.counted >= query.since \/ query.counted = query.page * PageSize
        /\ query.empty => query.counted >= query.since
        /\ query.total \in Nat /\ query.total >= query.since
    BY <2>1 DEF QueriesInv, QueryOK, MetricsOK, n
  <2>3. CASE LastPage
    <3>1. query' = [kind |-> "figures", counted |-> query.counted, since |-> query.since]
      BY <1>7, <2>3 DEF NextPage
    <3>2. query.counted >= query.since
      BY <1>4, <2>1, <2>2, <2>3 DEF LastPage
    <3>3. FiguresOK'
      BY <1>0, <1>1, <1>4, <2>1, <2>2, <3>1, <3>2 DEF FiguresOK, n
    <3>. QED
      BY <3>1, <3>3 DEF MetricsOK
  <2>4. CASE ~LastPage
    <3>1. query' = [query EXCEPT !.page = @ + 1, !.unread = {"items", "total"}]
      BY <1>7, <2>4 DEF NextPage
    <3>2. /\ query'.kind = "metrics" /\ query'.unread = {"items", "total"}
          /\ query'.counted = query.counted /\ query'.page = query.page + 1
          /\ query'.since = query.since /\ DOMAIN query' = DOMAIN query
      BY <1>4, <2>1, <3>1
    <3>3. query'.page \in Nat \ {0} /\ query'.page - 1 = query.page
      BY <1>4, <2>1, <3>2
    <3>4. MetricsOK'
      BY <1>1, <1>4, <2>1, <2>2, <3>2, <3>3 DEF MetricsOK, n
    <3>. QED
      BY <3>2, <3>4 DEF FiguresOK
  <2>. QED
    BY <2>3, <2>4
<1>. QED
  BY <1>3, <1>5, <1>6, <1>7 DEF DashboardMetrics

LEMMA QueriesInvInit ==
  ASSUME QueriesInit
  PROVE  QueriesInv
<1>1. Inv
  BY InvInit DEF QueriesInit
<1>2. \A a \in Aggregates : EachDecided(log[a])
  BY DEF QueriesInit, Init, EachDecided
<1>3. DocumentsOK
  <2>1. Listed = {}
    BY DEF QueriesInit, Listed
  <2>. QED
    BY <2>1, FS_EmptySet DEF QueriesInit, DocumentsOK
<1>4. QueryOK
  BY DEF QueriesInit, NoQuery, QueryOK, GetOK, ReplyOK, NotFoundOK, StreamReadOK, ExportedOK, ListOK, MetricsOK, FiguresOK
<1>. QED
  BY <1>1, <1>2, <1>3, <1>4 DEF QueriesInv

(* A query's own steps leave the streams and the documents alone.          *)
LEMMA AskingChangesNothing ==
  ASSUME QueriesInv, QueryOK', UNCHANGED <<log, document, now>>
  PROVE  QueriesInv'
<1>1. Inv'
  BY DEF QueriesInv, Inv, StreamOK, FoldOK
<1>2. \A a \in Aggregates : EachDecided(log'[a])
  BY DEF QueriesInv
<1>3. DocumentsOK'
  BY DEF QueriesInv, DocumentsOK, Listed
<1>. QED
  BY <1>1, <1>2, <1>3 DEF QueriesInv

LEMMA QueriesInvNext ==
  ASSUME QueriesInv, [QueriesNext]_queryVars
  PROVE  QueriesInv'
<1>1. CASE UNCHANGED queryVars
  <2>1. QueryOK'
    <3>1. log' = log /\ document' = document /\ query' = query /\ Listed' = Listed
      BY <1>1 DEF queryVars, Listed
    <3>2. \A b \in Aggregates : Continues(log'[b], log[b])
      BY <3>1 DEF Continues, QueriesInv, Inv, StreamOK
    <3>. QED
      BY <3>1, <3>2, QueryWaits, FS_CardinalityType DEF QueriesInv, DocumentsOK
  <2>. QED
    BY <1>1, <2>1, AskingChangesNothing DEF queryVars
<1>2. CASE RecordEvent
  BY <1>2, RecordPreserves
<1>3. CASE Project
  BY <1>3, ProjectPreserves
<1>4. CASE Tick
  BY <1>4, TickPreserves
<1>5. CASE GetShipment
  BY <1>5, GetPreserves, AskingChangesNothing
<1>6. CASE ReconcileOne \/ ExportHistory
  BY <1>6, StreamQueriesPreserve, AskingChangesNothing
<1>7. CASE ListShipments
  BY <1>7, ListPreserves, AskingChangesNothing
<1>8. CASE DashboardMetrics
  BY <1>8, MetricsPreserves, AskingChangesNothing
<1>9. CASE Forget
  <2>1. QueryOK'
    BY <1>9 DEF Forget, NoQuery, QueryOK, GetOK, ReplyOK, NotFoundOK, StreamReadOK, ExportedOK, ListOK, MetricsOK, FiguresOK
  <2>. QED
    BY <1>9, <2>1, AskingChangesNothing DEF Forget
<1>. QED
  BY <1>1, <1>2, <1>3, <1>4, <1>5, <1>6, <1>7, <1>8, <1>9 DEF QueriesNext

(* The inductive invariant holds in every reachable state of the read side.*)
THEOREM QueriesInvariance == QueriesSpec => []QueriesInv
<1>1. QueriesInit => QueriesInv
  BY QueriesInvInit
<1>2. QueriesInv /\ [QueriesNext]_queryVars => QueriesInv'
  BY QueriesInvNext
<1>. QED
  BY <1>1, <1>2, PTL DEF QueriesSpec

(* The read side surrounds the ledger and drives it: whatever is true of   *)
(* the ledger is true here.                                                *)
LEMMA SurroundsTheLedger == QueriesSpec => Spec
<1>1. QueriesInit => Init
  BY DEF QueriesInit
<1>2. [QueriesNext]_queryVars => [Next]_log
  BY DEF QueriesNext, queryVars, RecordEvent, Datable, Next, Project, Tick, GetShipment,
     StartGet, ReadDocument, ReadStreamVersion, ServeDocument, ServeReplay, ServeNotFound,
     ReconcileOne, StartReconcile, StartExport, Read, AnswerNotFound, Reconcile,
     ExportHistory, Export, ListShipments, DashboardMetrics, StartMetrics, ReadItems,
     ReadTotal, NextPage, Forget
<1>. QED
  BY <1>1, <1>2, PTL DEF QueriesSpec, Spec

-----------------------------------------------------------------------------
(* What the queries promise.                                               *)

(* A stored document, whatever steps and days it was written in, is served *)
(* on any day as a replay of the first events of its stream would be.      *)
THEOREM DocumentsAreReplays == QueriesSpec => []DocumentIsReplay
<1>1. QueriesInv => DocumentIsReplay
  <2>. SUFFICES ASSUME QueriesInv, NEW a \in Listed, NEW today
                PROVE  /\ document[a].version <= Len(log[a])
                       /\ Live(document[a], today)
                            = Document(Replay(SubSeq(log[a], 1, document[a].version)), today)
    BY DEF DocumentIsReplay
  <2>1. a \in Aggregates /\ Written(document[a], log[a])
    BY DEF QueriesInv, DocumentsOK
  <2>2. StreamOK(log[a]) /\ EachDecided(log[a]) /\ Len(log[a]) \in Nat
    BY <2>1 DEF QueriesInv, Inv, StreamOK
  <2>. DEFINE v == document[a].version
  <2>3. PICK t \in Times : document[a] = Document(After(log[a], v), DayOf(t))
    BY <2>1 DEF Written
  <2>4. v \in 0 .. Len(log[a]) /\ DayOf(t) \in Int
    BY <2>1, LedgerAssumption, DayIsInt DEF Written
  <2>5. Reached(After(log[a], v))
    BY <2>2, <2>4, AfterReached
  <2>6. Live(document[a], today) = Document(After(log[a], v), today)
    BY <2>3, <2>4, <2>5, LiveDocument
  <2>. QED
    BY <2>2, <2>4, <2>6 DEF After
<1>. QED
  BY <1>1, QueriesInvariance, PTL

LEMMA ToldIsAVersion ==
  ASSUME NEW a, Len(log[a]) \in Nat, NEW answer, NEW instant, Tells(answer, log[a], instant)
  PROVE  TellsVersion(a, answer, instant)
<1>. DEFINE v == answer.shipment.version
            d == Document(Replay(SubSeq(log[a], 1, v)), DayOf(instant))
<1>1. v \in 0 .. Len(log[a])
  BY DEF Tells
<1>2. v <= Len(log[a])
  BY <1>1
<1>3. answer = [shipment |-> d, risk |-> Risk(d, instant, FALSE)]
  BY DEF Tells, After
<1>. QED
  BY <1>2, <1>3, Zenon DEF TellsVersion

(* Read your writes: a reply shows everything recorded when it was asked,  *)
(* and one state of the shipment, judged at the time of the answer; a      *)
(* report's verdict covers what it lists.                                  *)
THEOREM RepliesAreCurrent == QueriesSpec => []ReplyIsCurrent
<1>1. QueriesInv => ReplyIsCurrent
  <2>. SUFFICES ASSUME QueriesInv
                PROVE  ReplyIsCurrent
    OBVIOUS
  <2>0. \A a \in Aggregates : Len(log[a]) \in Nat
    BY DEF QueriesInv, Inv, StreamOK
  <2>1. query.kind = "reply" =>
          /\ query.since <= query.answer.shipment.version
          /\ TellsVersion(query.agg, query.answer, query.at)
    BY <2>0, ToldIsAVersion DEF QueriesInv, QueryOK, ReplyOK
  <2>2. query.kind = "list" =>
          \A i \in DOMAIN query.items :
            TellsVersion(query.items[i].agg, query.items[i].answer, query.at)
    BY <2>0, ToldIsAVersion DEF QueriesInv, QueryOK, ListOK
  <2>3. /\ query.kind = "notFound" => query.since = 0
        /\ query.kind = "exported" =>
             /\ query.since <= query.report.version
             /\ query.report.version <= query.records /\ query.intact
    BY DEF QueriesInv, QueryOK, NotFoundOK, ExportedOK
  <2>. QED
    BY <2>1, <2>2, <2>3 DEF ReplyIsCurrent
<1>. QED
  BY <1>1, QueriesInvariance, PTL

(* The headline figure is a number of shipments the read model held while  *)
(* it was being computed.                                                  *)
THEOREM TotalsAreTrue == QueriesSpec => []TotalIsTrue
<1>1. QueriesInv => TotalIsTrue
  <2>1. QueriesInv => Cardinality(Listed) \in Nat
    BY FS_CardinalityType DEF QueriesInv, DocumentsOK
  <2>. QED
    BY <2>1 DEF QueriesInv, QueryOK, FiguresOK, TotalIsTrue
<1>. QED
  BY <1>1, QueriesInvariance, PTL

-----------------------------------------------------------------------------
(* The hash chain.                                                         *)

(* What is stored of a stream, record by record.                           *)
Stores(stored, events) ==
  /\ Len(events) \in Nat /\ events \in Seq(Range(events))
  /\ stored \in Seq(Range(stored)) /\ Len(stored) = Len(events)
  /\ \A k \in 1 .. Len(events) :
       /\ DOMAIN stored[k] = {"event", "previous", "hash"}
       /\ stored[k].event = events[k] /\ stored[k].event.version = k
       /\ stored[k].previous = SubSeq(events, 1, k - 1)
       /\ stored[k].hash = SubSeq(events, 1, k)

LEMMA ChainStores ==
  ASSUME NEW events, StreamOK(events)
  PROVE  Stores(Chained(events), events) /\ DOMAIN Chained(events) = 1 .. Len(events)
<1>1. /\ Len(events) \in Nat /\ DOMAIN events = 1 .. Len(events)
      /\ events \in Seq(Range(events))
      /\ \A k \in 1 .. Len(events) : events[k].version = k
  BY DEF StreamOK
<1>. DEFINE stored == Chained(events)
<1>2. stored = [k \in 1 .. Len(events) |->
                  [event |-> events[k], previous |-> SubSeq(events, 1, k - 1),
                   hash |-> SubSeq(events, 1, k)]]
  BY <1>1 DEF Chained
<1>. HIDE DEF stored
<1>3. ASSUME NEW k \in 1 .. Len(events)
      PROVE  /\ DOMAIN stored[k] = {"event", "previous", "hash"}
             /\ stored[k].event = events[k] /\ stored[k].event.version = k
             /\ stored[k].previous = SubSeq(events, 1, k - 1)
             /\ stored[k].hash = SubSeq(events, 1, k)
             /\ stored[k] \in Range(stored)
  <2>1. stored[k] = [event |-> events[k], previous |-> SubSeq(events, 1, k - 1),
                     hash |-> SubSeq(events, 1, k)]
    BY <1>2
  <2>2. stored[k] \in Range(stored)
    BY <1>2 DEF Range
  <2>3. events[k].version = k
    BY <1>1
  <2>. QED
    BY <2>1, <2>2, <2>3
<1>4. DOMAIN stored = 1 .. Len(events) /\ stored = [k \in 1 .. Len(events) |-> stored[k]]
  BY <1>2
<1>5. stored \in Seq(Range(stored)) /\ Len(stored) = Len(events)
  BY <1>1, <1>3, <1>4
<1>6. Stores(stored, events)
  BY <1>1, <1>3, <1>5 DEF Stores
<1>. QED
  BY <1>4, <1>6 DEF stored

(* What an intact chain requires of one record: its version, its link and  *)
(* its hash.                                                               *)
LEMMA IntactRecord ==
  ASSUME NEW stored, Intact(stored), NEW i \in DOMAIN stored
  PROVE  /\ i = 1 => /\ stored[i].event.version = 1
                     /\ stored[i].hash = Append(<<>>, stored[i].event)
         /\ i # 1 => /\ stored[i].event.version = stored[i - 1].event.version + 1
                     /\ stored[i].previous = stored[i - 1].hash
                     /\ stored[i].hash = Append(stored[i - 1].hash, stored[i].event)
BY DEF Intact, Genesis, ComputeHash

(* Sequences that end in different events differ.                          *)
LEMMA LastsDiffer ==
  ASSUME NEW S, NEW events \in Seq(S), NEW i \in 1 .. Len(events), NEW other,
         SubSeq(events, 1, i) = Append(SubSeq(events, 1, i - 1), other)
  PROVE  other = events[i]
<1>1. i \in Nat \ {0} /\ i <= Len(events) /\ i - 1 \in Nat
  OBVIOUS
<1>2. /\ SubSeq(events, 1, i - 1) \in Seq(S) /\ Len(SubSeq(events, 1, i - 1)) = i - 1
      /\ SubSeq(events, 1, i)[i] = events[i]
  BY <1>1
<1>3. Append(SubSeq(events, 1, i - 1), other)[i] = other
  <2>. DEFINE before == SubSeq(events, 1, i - 1)
  <2>1. before \in Seq(S \cup {other}) /\ Len(before) + 1 = i
    BY <1>1, <1>2
  <2>. HIDE DEF before
  <2>2. Append(before, other)[i] = other
    BY <2>1
  <2>. QED
    BY <2>2 DEF before
<1>. QED
  BY <1>2, <1>3

(* No version is where it belongs after a removal, a repetition or an      *)
(* exchange; no hash is what it should be after a change.                  *)
LEMMA RemovalShows ==
  ASSUME NEW events, NEW stored, Stores(stored, events), NEW i \in 1 .. Len(stored),
         i < Len(stored)
  PROVE  ~Intact(RemoveAt(stored, i))
<1>. DEFINE n == Len(stored)
            removed == RemoveAt(stored, i)
<1>1. /\ n \in Nat /\ stored \in Seq(Range(stored))
      /\ \A k \in 1 .. n : stored[k].event.version = k
  BY DEF Stores
<1>2. i + 1 \in 1 .. n /\ (i # 1 => i - 1 \in 1 .. n)
  BY <1>1
<1>3. /\ i \in DOMAIN removed /\ removed[i] = stored[i + 1]
      /\ i # 1 => removed[i - 1] = stored[i - 1]
  <2>. DEFINE before == SubSeq(stored, 1, i - 1)
              after == SubSeq(stored, i + 1, n)
  <2>1. /\ before \in Seq(Range(stored)) /\ Len(before) = i - 1
        /\ i # 1 => before[i - 1] = stored[i - 1]
    BY <1>1, <1>2
  <2>2. after \in Seq(Range(stored)) /\ Len(after) = n - i /\ after[1] = stored[i + 1]
    BY <1>1, <1>2
  <2>3. removed = before \o after
    BY DEF RemoveAt
  <2>. HIDE DEF before, after, removed
  <2>. QED
    BY <1>1, <1>2, <2>1, <2>2, <2>3
<1>. HIDE DEF removed
<1>4. stored[i + 1].event.version = i + 1
      /\ (i # 1 => stored[i - 1].event.version = i - 1)
  BY <1>1, <1>2
<1>5. Intact(removed) => removed[i].event.version = i
  BY <1>2, <1>3, <1>4, IntactRecord
<1>. QED
  BY <1>3, <1>4, <1>5 DEF removed

LEMMA InsertedAt ==
  ASSUME NEW T, NEW before \in Seq(T), NEW x \in T, NEW after \in Seq(T),
         NEW i \in Nat, Len(before) + 1 = i, Len(after) \in Nat \ {0}
  PROVE  LET joined == before \o <<x>> \o after
         IN  /\ i + 1 \in DOMAIN joined
             /\ joined[i] = x /\ joined[i + 1] = after[1]
<1>. DEFINE front == before \o <<x>>
            joined == front \o after
<1>1. front \in Seq(T) /\ Len(front) = i /\ front[i] = x
  OBVIOUS
<1>. HIDE DEF front
<1>2. /\ joined \in Seq(T) /\ Len(joined) = Len(front) + Len(after)
      /\ \A k \in 1 .. Len(front) + Len(after) :
           joined[k] = IF k <= Len(front) THEN front[k] ELSE after[k - Len(front)]
  BY <1>1, ConcatProperties
<1>. HIDE DEF joined
<1>3. Len(before) \in Nat
  OBVIOUS
<1>4. i \in 1 .. i + Len(after) /\ i + 1 \in 1 .. i + Len(after) /\ (i + 1) - i = 1
  BY <1>3
<1>5. DOMAIN joined = 1 .. i + Len(after)
  BY <1>1, <1>2
<1>6. joined[i] = front[i] /\ joined[i + 1] = after[1]
  BY <1>1, <1>2, <1>4
<1>. QED
  BY <1>1, <1>4, <1>5, <1>6 DEF joined, front

LEMMA RepetitionShows ==
  ASSUME NEW events, NEW stored, Stores(stored, events), NEW i \in 1 .. Len(stored)
  PROVE  ~Intact(InsertAt(stored, i, stored[i]))
<1>. DEFINE n == Len(stored)
            repeated == InsertAt(stored, i, stored[i])
<1>1. /\ n \in Nat /\ stored \in Seq(Range(stored)) /\ stored[i].event.version = i
  BY DEF Stores
<1>2. /\ i + 1 \in DOMAIN repeated /\ repeated[i] = stored[i] /\ repeated[i + 1] = stored[i]
  <2>. DEFINE before == SubSeq(stored, 1, i - 1)
              after == SubSeq(stored, i, n)
  <2>1. before \in Seq(Range(stored)) /\ Len(before) + 1 = i /\ i \in Nat
    BY <1>1
  <2>2. /\ after \in Seq(Range(stored)) /\ Len(after) \in Nat \ {0}
        /\ after[1] = stored[i] /\ stored[i] \in Range(stored)
    BY <1>1
  <2>3. repeated = before \o <<stored[i]>> \o after
    BY DEF InsertAt
  <2>. HIDE DEF before, after, repeated
  <2>. QED
    BY <2>1, <2>2, <2>3, InsertedAt
<1>. HIDE DEF repeated
<1>3. i + 1 # 1 /\ (i + 1) - 1 = i
  BY <1>1
<1>4. Intact(repeated) => stored[i].event.version = stored[i].event.version + 1
  BY <1>2, <1>3, IntactRecord
<1>. QED
  BY <1>1, <1>4 DEF repeated

LEMMA ExchangeShows ==
  ASSUME NEW events, NEW stored, Stores(stored, events), NEW i \in 1 .. Len(stored),
         NEW j \in 1 .. i - 1
  PROVE  ~Intact([stored EXCEPT ![i] = stored[j], ![j] = stored[i]])
<1>. DEFINE n == Len(stored)
            swapped == [stored EXCEPT ![i] = stored[j], ![j] = stored[i]]
<1>1. /\ n \in Nat /\ stored \in Seq(Range(stored)) /\ DOMAIN stored = 1 .. n
      /\ \A k \in 1 .. n : stored[k].event.version = k
  BY DEF Stores
<1>2. j \in 1 .. n /\ j < i /\ (j # 1 => j - 1 \in 1 .. n /\ j - 1 # j /\ j - 1 # i)
  BY <1>1
<1>3. /\ j \in DOMAIN swapped /\ swapped[j] = stored[i]
      /\ j # 1 => swapped[j - 1] = stored[j - 1]
  BY <1>1, <1>2
<1>. HIDE DEF swapped
<1>4. stored[i].event.version = i /\ (j # 1 => stored[j - 1].event.version = j - 1)
  BY <1>1, <1>2
<1>5. Intact(swapped) => swapped[j].event.version = j
  BY <1>2, <1>3, <1>4, IntactRecord
<1>. QED
  BY <1>2, <1>3, <1>4, <1>5 DEF swapped

LEMMA ChangeShows ==
  ASSUME NEW events, NEW stored, Stores(stored, events), NEW i \in 1 .. Len(stored),
         NEW late, late # events[i]
  PROVE  /\ ~Intact([stored EXCEPT ![i].event = late])
         /\ i < Len(stored) =>
              ~Intact([stored EXCEPT ![i].event = late,
                         ![i].hash = ComputeHash(late, stored[i].previous)])
<1>. DEFINE n == Len(stored)
            S == Range(events)
            changed == [stored EXCEPT ![i].event = late]
            rehashed == [stored EXCEPT ![i].event = late,
                           ![i].hash = ComputeHash(late, stored[i].previous)]
<1>1. /\ n \in Nat /\ DOMAIN stored = 1 .. n /\ n = Len(events) /\ events \in Seq(S)
      /\ DOMAIN stored[i] = {"event", "previous", "hash"}
      /\ stored[i].previous = SubSeq(events, 1, i - 1)
      /\ stored[i].hash = SubSeq(events, 1, i)
  BY DEF Stores
<1>2. \A k \in 1 .. n : /\ stored[k].previous = SubSeq(events, 1, k - 1)
                        /\ stored[k].hash = SubSeq(events, 1, k)
  BY DEF Stores
<1>. HIDE DEF S
<1>3. SubSeq(events, 1, i) # Append(SubSeq(events, 1, i - 1), late)
  BY <1>1, LastsDiffer
<1>4. ~Intact(changed)
  <2>1. /\ i \in DOMAIN changed /\ changed[i].event = late
        /\ changed[i].hash = SubSeq(events, 1, i)
    BY <1>1
  <2>2. i # 1 => i - 1 \in 1 .. n /\ i - 1 # i
    BY <1>1
  <2>3. i # 1 => changed[i - 1].hash = SubSeq(events, 1, i - 1)
    BY <1>1, <1>2, <2>2
  <2>4. i = 1 => SubSeq(events, 1, i - 1) = <<>>
    BY <1>1
  <2>. HIDE DEF changed
  <2>5. Intact(changed) => changed[i].hash = Append(SubSeq(events, 1, i - 1), late)
    BY <2>1, <2>3, <2>4, IntactRecord
  <2>. QED
    BY <1>3, <2>1, <2>5
<1>5. ASSUME i < n
      PROVE  ~Intact(rehashed)
  <2>1. i + 1 \in 1 .. n /\ i + 1 # 1 /\ (i + 1) - 1 = i /\ i + 1 # i
    BY <1>1, <1>5
  <2>2. rehashed[i].hash = Append(SubSeq(events, 1, i - 1), late)
    BY <1>1 DEF ComputeHash
  <2>3. i + 1 \in DOMAIN rehashed /\ rehashed[i + 1] = stored[i + 1]
    BY <1>1, <2>1
  <2>4. stored[i + 1].previous = SubSeq(events, 1, i)
    BY <1>2, <2>1
  <2>. HIDE DEF rehashed
  <2>5. Intact(rehashed) => rehashed[i + 1].previous = rehashed[i].hash
    BY <2>1, <2>3, IntactRecord
  <2>. QED
    BY <1>3, <2>2, <2>3, <2>4, <2>5
<1>. QED
  BY <1>4, <1>5

(* An event that was decided carries an instant, so dating it later        *)
(* changes it.                                                             *)
LEMMA LaterIsAnother ==
  ASSUME NEW events, EachDecided(events), NEW i \in 1 .. Len(events)
  PROVE  [events[i] EXCEPT !.at = @ + 1] # events[i]
<1>1. PICK c \in Commands : \E at \in Times : events[i] \in Decide(After(events, i - 1), c, at)
  BY DEF EachDecided
<1>2. PICK at \in Times : events[i] \in Decide(After(events, i - 1), c, at)
  BY <1>1
<1>3. "at" \in DOMAIN events[i] /\ events[i].at = at
  BY <1>2, DecidedEnvelope
<1>4. at \in Int
  BY LedgerAssumption
<1>5. PICK event : event = events[i]
  OBVIOUS
<1>6. [event EXCEPT !.at = @ + 1].at = at + 1
  BY <1>3, <1>5
<1>. QED
  BY <1>3, <1>4, <1>5, <1>6

(* Whatever stream the write path has left, its chain verifies, and no     *)
(* change to it that spares the last record's hash does.                   *)
THEOREM ChainNoticesTampering == QueriesSpec => []TamperingIsNoticed
<1>1. QueriesInv => TamperingIsNoticed
  <2>. SUFFICES ASSUME QueriesInv, NEW a \in Aggregates
                PROVE  LET stored == Chained(log[a])
                           late(i) == [log[a][i] EXCEPT !.at = @ + 1]
                       IN  /\ Intact(stored)
                           /\ \A i \in DOMAIN stored :
                                /\ ~Intact([stored EXCEPT ![i].event = late(i)])
                                /\ i < Len(stored) =>
                                     /\ ~Intact(RemoveAt(stored, i))
                                     /\ ~Intact([stored EXCEPT ![i].event = late(i),
                                           ![i].hash = ComputeHash(late(i), stored[i].previous)])
                                /\ ~Intact(InsertAt(stored, i, stored[i]))
                                /\ \A j \in 1 .. i - 1 :
                                     ~Intact([stored EXCEPT ![i] = stored[j], ![j] = stored[i]])
    BY DEF TamperingIsNoticed
  <2>1. StreamOK(log[a]) /\ EachDecided(log[a])
    BY DEF QueriesInv, Inv
  <2>. DEFINE stored == Chained(log[a])
              late(i) == [log[a][i] EXCEPT !.at = @ + 1]
  <2>2. /\ Intact(stored) /\ Stores(stored, log[a])
        /\ DOMAIN stored = 1 .. Len(log[a]) /\ Len(stored) = Len(log[a])
    BY <2>1, ChainVerifies, ChainStores DEF Stores
  <2>3. ASSUME NEW i \in DOMAIN stored
        PROVE  late(i) # log[a][i]
    BY <2>1, <2>2, LaterIsAnother
  <2>. HIDE DEF stored, late
  <2>4. ASSUME NEW i \in DOMAIN stored
        PROVE  /\ ~Intact([stored EXCEPT ![i].event = late(i)])
               /\ i < Len(stored) =>
                    /\ ~Intact(RemoveAt(stored, i))
                    /\ ~Intact([stored EXCEPT ![i].event = late(i),
                                  ![i].hash = ComputeHash(late(i), stored[i].previous)])
               /\ ~Intact(InsertAt(stored, i, stored[i]))
               /\ \A j \in 1 .. i - 1 :
                    ~Intact([stored EXCEPT ![i] = stored[j], ![j] = stored[i]])
    <3>1. i \in 1 .. Len(stored)
      BY <2>2
    <3>2. i < Len(stored) => ~Intact(RemoveAt(stored, i))
      BY <2>2, <3>1, RemovalShows
    <3>3. ~Intact(InsertAt(stored, i, stored[i]))
      BY <2>2, <3>1, RepetitionShows
    <3>4. \A j \in 1 .. i - 1 : ~Intact([stored EXCEPT ![i] = stored[j], ![j] = stored[i]])
      BY <2>2, <3>1, ExchangeShows
    <3>5. /\ ~Intact([stored EXCEPT ![i].event = late(i)])
          /\ i < Len(stored) =>
               ~Intact([stored EXCEPT ![i].event = late(i),
                          ![i].hash = ComputeHash(late(i), stored[i].previous)])
      BY <2>2, <2>3, <3>1, ChangeShows
    <3>. QED
      BY <3>2, <3>3, <3>4, <3>5
  <2>. QED
    BY <2>2, <2>4 DEF stored, late
<1>. QED
  BY <1>1, QueriesInvariance, PTL

-----------------------------------------------------------------------------
(* The scrubber.                                                           *)

(* At every instant the scrubber labels what it shows rightly: the label   *)
(* at-or-after-the-last-event means that every event was applied, and      *)
(* then the state is the current one.                                      *)
LEMMA BoundaryIsOfTheState ==
  ASSUME NEW events, StreamOK(events), events # <<>>
  PROVE  BoundaryIsTold(events)
<1>. SUFFICES ASSUME NEW instant \in Times
              PROVE  LET reply == StateAt(events, instant)
                     IN  /\ instant = EventBounds(events).last => reply.current
                         /\ reply.boundary = "AT_OR_AFTER_LAST_EVENT" <=> reply.current
                         /\ reply.current => reply.state = Replay(events)
                         /\ reply.boundary = "BEFORE_FIRST_EVENT"
                              <=> instant < EventBounds(events).first
  BY DEF BoundaryIsTold
<1>. DEFINE n == Len(events)
            past == EventsUntil(events, instant)
            reply == StateAt(events, instant)
<1>1. /\ n \in Nat \ {0} /\ events \in Seq(Range(events)) /\ DOMAIN events = 1 .. n
      /\ \A i \in 1 .. n : events[i].at \in Times
      /\ \A i, j \in 1 .. n : i <= j => events[i].at <= events[j].at
  BY DEF StreamOK
<1>2. instant \in Int /\ \A i \in 1 .. n : events[i].at \in Int
  BY <1>1, LedgerAssumption
<1>3. /\ EventBounds(events).first = events[1].at
      /\ EventBounds(events).last = events[n].at
      /\ Last(events) = events[n]
  BY <1>1 DEF EventBounds, Last
<1>4. PICK k \in 0 .. n :
        /\ {i \in DOMAIN events : events[i].at <= instant} = 1 .. k
        /\ past = SubSeq(events, 1, k) /\ Len(past) = k
  BY PastIsPrefix
<1>5. ASSUME NEW i \in 1 .. n
      PROVE  events[i].at <= instant <=> i <= k
  <2>1. i \in {j \in DOMAIN events : events[j].at <= instant} <=> i \in 1 .. k
    BY <1>4
  <2>2. i \in DOMAIN events /\ (i \in 1 .. k <=> i <= k)
    BY <1>1
  <2>. QED
    BY <2>1, <2>2
<1>6. 1 \in 1 .. n /\ n \in 1 .. n /\ k \in Nat /\ k <= n
  BY <1>1
<1>7. /\ events[1].at <= instant <=> k # 0
      /\ events[n].at <= instant <=> k = n
  BY <1>5, <1>6
<1>8. instant < events[1].at <=> k = 0
  BY <1>2, <1>6, <1>7
<1>9. /\ instant >= events[n].at <=> k = n
      /\ instant = events[n].at => k = n
  BY <1>2, <1>6, <1>7
<1>10. (past = <<>> <=> k = 0) /\ (k = n => past = events)
  <2>1. PICK p : p = past
    OBVIOUS
  <2>2. p = SubSeq(events, 1, k) /\ Len(p) = k
    BY <1>4, <2>1
  <2>3. p \in Seq(Range(events))
    BY <1>1, <2>2
  <2>4. p = <<>> <=> k = 0
    BY <2>2, <2>3
  <2>5. k = n => p = events
    BY <1>1, <2>2
  <2>. QED
    BY <2>1, <2>4, <2>5
<1>. HIDE DEF past
<1>11. CASE k = 0
  <2>1. reply = [boundary |-> "BEFORE_FIRST_EVENT", current |-> FALSE, state |-> NULL]
    BY <1>10, <1>11 DEF StateAt, past
  <2>2. k # n
    BY <1>1, <1>11
  <2>. QED
    BY <1>3, <1>8, <1>9, <1>11, <2>1, <2>2
<1>12. CASE k # 0
  <2>1. reply = [boundary |-> IF instant >= events[n].at THEN "AT_OR_AFTER_LAST_EVENT"
                              ELSE IF \E i \in DOMAIN past : past[i].at = instant
                                THEN "EXACTLY_ON_EVENT" ELSE "BETWEEN_EVENTS",
                 current |-> Len(past) = n,
                 state |-> Replay(past)]
    BY <1>3, <1>10, <1>12 DEF StateAt, past
  <2>. HIDE DEF reply
  <2>2. reply.state = Replay(past) /\ (reply.current <=> k = n)
    BY <1>4, <2>1
  <2>3. /\ reply.boundary = "AT_OR_AFTER_LAST_EVENT" <=> k = n
        /\ reply.boundary # "BEFORE_FIRST_EVENT"
    BY <1>9, <2>1
  <2>. QED
    BY <1>3, <1>8, <1>9, <1>10, <1>12, <2>2, <2>3 DEF reply
<1>. QED
  BY <1>11, <1>12

-----------------------------------------------------------------------------
(* Picking the events of some types.                                       *)

(* What is picked is a sequence, as long as there are such events.         *)
LEMMA PickedSequence ==
  ASSUME NEW events, NEW kept, IsFiniteSet(kept)
  PROVE  /\ Picked(events, kept) \in Seq(Range(Picked(events, kept)))
         /\ Len(Picked(events, kept)) = Cardinality(kept)
         /\ DOMAIN Picked(events, kept) = 1 .. Cardinality(kept)
<1>. DEFINE picked == Picked(events, kept)
<1>1. Cardinality(kept) \in Nat
  BY FS_CardinalityType
<1>2. picked = [n \in 1 .. Cardinality(kept) |-> picked[n]]
  BY DEF Picked
<1>. HIDE DEF picked
<1>3. \A n \in 1 .. Cardinality(kept) : picked[n] \in Range(picked)
  BY <1>2 DEF Range
<1>4. picked \in Seq(Range(picked))
  BY <1>1, <1>2, <1>3
<1>. QED
  BY <1>1, <1>2, <1>4 DEF picked

(* Position i is the m-th of those kept, and no other is.                   *)
Ranked(kept, m, i) ==
  i \in kept /\ \A k \in kept : Cardinality({j \in kept : j <= k}) = m <=> k = i

LEMMA PickedAt ==
  ASSUME NEW events, NEW kept, NEW m \in 1 .. Cardinality(kept), NEW i, Ranked(kept, m, i)
  PROVE  Picked(events, kept)[m] = events[i]
<1>. DEFINE rank(k) == Cardinality({j \in kept : j <= k})
<1>1. (CHOOSE k \in kept : rank(k) = m) = i
  <2>1. i \in kept /\ \A k \in kept : rank(k) = m <=> k = i
    BY DEF Ranked
  <2>. HIDE DEF rank
  <2>. QED
    BY <2>1
<1>2. Picked(events, kept)[m] = events[CHOOSE k \in kept : rank(k) = m]
  BY DEF Picked
<1>. QED
  BY <1>1, <1>2

LEMMA RankReached ==
  ASSUME NEW n \in Nat, NEW kept \in SUBSET (1 .. n), NEW m \in 1 .. Cardinality(kept)
  PROVE  \E i : Ranked(kept, m, i)
<1>. DEFINE upto(k) == {j \in kept : j <= k}
            c(k) == Cardinality(upto(k))
            Enough == {k \in 0 .. n : c(k) >= m}
<1>0. /\ \A k \in kept : k \in Nat /\ 1 <= k /\ k <= n
      /\ \A j, k : j \in upto(k) <=> j \in kept /\ j <= k
  OBVIOUS
<1>1. IsFiniteSet(kept)
  <2>1. IsFiniteSet(1 .. n)
    BY FS_Interval
  <2>. QED
    BY <2>1, FS_Subset
<1>2. \A k : IsFiniteSet(upto(k)) /\ c(k) \in Nat
  <2>1. \A k : upto(k) \in SUBSET kept
    OBVIOUS
  <2>. QED
    BY <1>1, <2>1, FS_Subset, FS_CardinalityType
<1>3. n \in Enough
  <2>1. upto(n) = kept
    BY <1>0
  <2>. HIDE DEF upto
  <2>2. c(n) = Cardinality(kept) /\ m \in Nat /\ m <= Cardinality(kept)
    BY <1>2, <2>1
  <2>. QED
    BY <1>2, <2>2
<1>4. PICK i \in Enough : \A k \in Enough : i <= k
  <2>1. Enough \in SUBSET Nat
    OBVIOUS
  <2>. HIDE DEF Enough
  <2>. QED
    BY <1>3, <2>1, LeastElement
<1>5. i \in 0 .. n /\ c(i) >= m
  BY <1>4
<1>6. i # 0
  <2>1. upto(0) = {}
    <3>1. \A j \in kept : ~(j <= 0)
      BY <1>0
    <3>. HIDE DEF upto
    <3>. QED
      BY <1>0, <3>1
  <2>. HIDE DEF upto
  <2>2. c(0) = 0
    BY <2>1, FS_EmptySet
  <2>. QED
    BY <1>5, <2>2
<1>7. i - 1 \in 0 .. n /\ i - 1 \notin Enough
  <2>1. i \in 1 .. n /\ i - 1 \in 0 .. n /\ ~(i <= i - 1)
    BY <1>5, <1>6
  <2>. HIDE DEF Enough
  <2>. QED
    BY <1>4, <2>1
<1>8. c(i - 1) < m
  <2>1. ~(c(i - 1) >= m)
    BY <1>7
  <2>2. c(i - 1) \in Nat
    BY <1>2
  <2>. HIDE DEF c
  <2>. QED
    BY <2>1, <2>2
<1>9. i \in kept /\ c(i) = m
  <2>1. upto(i) = IF i \in kept THEN upto(i - 1) \cup {i} ELSE upto(i - 1)
    <3>1. \A j \in kept : j <= i <=> j <= i - 1 \/ j = i
      BY <1>0, <1>5
    <3>2. PICK h : h = i - 1
      OBVIOUS
    <3>3. \A j : j \in upto(i) <=> j \in upto(h) \/ (j = i /\ i \in kept)
      BY <1>0, <3>1, <3>2
    <3>. HIDE DEF upto
    <3>4. upto(i) = IF i \in kept THEN upto(h) \cup {i} ELSE upto(h)
      BY <3>3
    <3>. QED
      BY <3>2, <3>4
  <2>2. i \notin upto(i - 1)
    BY <1>5
  <2>. HIDE DEF upto
  <2>3. c(i) = IF i \in kept THEN c(i - 1) + 1 ELSE c(i - 1)
    BY <1>2, <2>1, <2>2, FS_AddElement
  <2>4. c(i) \in Nat /\ c(i - 1) \in Nat
    BY <1>2
  <2>. HIDE DEF c
  <2>. QED
    BY <1>5, <1>8, <2>3, <2>4
<1>10. ASSUME NEW k \in kept, NEW l \in kept, k < l
       PROVE  c(k) # c(l)
  <2>1. upto(k) \in SUBSET upto(l) /\ l \in upto(l) /\ l \notin upto(k)
    <3>1. l <= l /\ ~(l <= k) /\ \A j \in kept : j <= k => j <= l
      BY <1>0, <1>10
    <3>. HIDE DEF upto
    <3>. QED
      BY <1>0, <3>1
  <2>. HIDE DEF upto
  <2>. QED
    BY <1>2, <2>1, FS_Subset
<1>11. ASSUME NEW k \in kept, c(k) = m
       PROVE  k = i
  <2>1. k \in Nat /\ i \in Nat
    BY <1>0, <1>9
  <2>2. c(k) = c(i)
    BY <1>9, <1>11
  <2>. HIDE DEF c
  <2>. QED
    BY <1>9, <1>10, <2>1, <2>2
<1>12. Ranked(kept, m, i)
  BY <1>9, <1>11 DEF Ranked
<1>. QED
  BY <1>12

LEMMA TypedPositions ==
  ASSUME NEW S, NEW events \in Seq(S), NEW types
  PROVE  /\ {i \in DOMAIN events : events[i].type \in types} \subseteq 1 .. Len(events)
         /\ IsFiniteSet({i \in DOMAIN events : events[i].type \in types})
<1>1. DOMAIN events = 1 .. Len(events) /\ Len(events) \in Nat
  OBVIOUS
<1>2. IsFiniteSet(1 .. Len(events))
  BY <1>1, FS_Interval
<1>. QED
  BY <1>1, <1>2, FS_Subset

LEMMA OfTypesSequence ==
  ASSUME NEW S, NEW events \in Seq(S), NEW types
  PROVE  /\ OfTypes(events, types) \in Seq(Range(OfTypes(events, types)))
         /\ Len(OfTypes(events, types)) \in Nat
<1>1. PICK kept : kept = {i \in DOMAIN events : events[i].type \in types}
  OBVIOUS
<1>2. IsFiniteSet(kept)
  BY <1>1, TypedPositions
<1>3. OfTypes(events, types) = Picked(events, kept)
  BY <1>1 DEF OfTypes
<1>. QED
  BY <1>2, <1>3, PickedSequence, FS_CardinalityType

LEMMA NoneOfTypes ==
  ASSUME NEW types
  PROVE  OfTypes(<<>>, types) = <<>>
<1>. DEFINE kept == {i \in DOMAIN <<>> : <<>>[i].type \in types}
<1>1. kept = {}
  OBVIOUS
<1>. HIDE DEF kept
<1>2. IsFiniteSet(kept) /\ Cardinality(kept) = 0
  BY <1>1, FS_EmptySet
<1>3. PICK picked : picked = Picked(<<>>, kept)
  OBVIOUS
<1>4. picked \in Seq(Range(picked)) /\ Len(picked) = 0
  BY <1>2, <1>3, PickedSequence
<1>5. picked = <<>>
  BY <1>4
<1>. QED
  BY <1>3, <1>5 DEF OfTypes, kept

(* One event more is picked last, or not at all.                           *)
LEMMA OfTypesGrows ==
  ASSUME NEW S, NEW events \in Seq(S), NEW event \in S, NEW types
  PROVE  OfTypes(Append(events, event), types) =
           IF event.type \in types THEN Append(OfTypes(events, types), event)
                                   ELSE OfTypes(events, types)
<1>. DEFINE n == Len(events)
            old == {i \in DOMAIN events : events[i].type \in types}
<1>1. PICK more : more = Append(events, event)
  OBVIOUS
<1>. DEFINE new == {i \in DOMAIN more : more[i].type \in types}
            card == Cardinality(old)
<1>2. /\ n \in Nat /\ DOMAIN events = 1 .. n /\ DOMAIN more = 1 .. n + 1
      /\ \A i \in 1 .. n : more[i] = events[i]
      /\ more[n + 1] = event
  BY <1>1
<1>3. old \in SUBSET (1 .. n) /\ IsFiniteSet(old)
  BY TypedPositions
<1>4. card \in Nat
  BY <1>3, FS_CardinalityType
<1>5. new = IF event.type \in types THEN old \cup {n + 1} ELSE old
  BY <1>2
<1>6. PICK a : a = OfTypes(events, types)
  OBVIOUS
<1>7. PICK b : b = OfTypes(more, types)
  OBVIOUS
<1>8. a = Picked(events, old) /\ b = Picked(more, new)
  BY <1>6, <1>7 DEF OfTypes
<1>. HIDE DEF old, new
<1>9. n + 1 \notin old
  BY <1>2, <1>3
<1>10. /\ IsFiniteSet(new)
       /\ Cardinality(new) = IF event.type \in types THEN card + 1 ELSE card
  BY <1>3, <1>5, <1>9, FS_AddElement
<1>11. /\ a \in Seq(Range(a)) /\ Len(a) = card
       /\ b \in Seq(Range(b)) /\ Len(b) = Cardinality(new)
  BY <1>3, <1>8, <1>10, PickedSequence
<1>12. ASSUME NEW k \in old
       PROVE  {j \in new : j <= k} = {j \in old : j <= k}
  BY <1>2, <1>3, <1>5
<1>13. ASSUME NEW k \in old
       PROVE  Cardinality({j \in old : j <= k}) \in 0 .. card
  <2>1. {j \in old : j <= k} \in SUBSET old
    OBVIOUS
  <2>. QED
    BY <1>3, <1>4, <2>1, FS_Subset, FS_CardinalityType
<1>14. {j \in new : j <= n + 1} = new
  <2>1. \A j \in new : j <= n + 1
    BY <1>2, <1>3, <1>5
  <2>. QED
    BY <2>1
<1>15. ASSUME NEW m \in 1 .. card
       PROVE  b[m] = a[m]
  <2>1. PICK i : Ranked(old, m, i)
    BY <1>2, <1>3, RankReached
  <2>2. Ranked(new, m, i)
    <3>1. i \in new
      BY <1>5, <2>1 DEF Ranked
    <3>2. ASSUME NEW k \in new, k \in old
          PROVE  Cardinality({j \in new : j <= k}) = m <=> k = i
      BY <1>12, <2>1, <3>2 DEF Ranked
    <3>3. ASSUME NEW k \in new, k \notin old
          PROVE  Cardinality({j \in new : j <= k}) = m <=> k = i
      <4>1. k = n + 1 /\ event.type \in types
        BY <1>5, <3>3
      <4>2. Cardinality({j \in new : j <= k}) = card + 1
        BY <1>10, <1>14, <4>1
      <4>3. card + 1 # m
        BY <1>4
      <4>4. k # i
        BY <2>1, <3>3 DEF Ranked
      <4>. QED
        BY <4>2, <4>3, <4>4
    <3>. QED
      BY <3>1, <3>2, <3>3 DEF Ranked
  <2>3. m \in 1 .. Cardinality(new)
    BY <1>4, <1>10
  <2>4. a[m] = events[i] /\ b[m] = more[i]
    BY <1>8, <2>1, <2>2, <2>3, PickedAt
  <2>5. i \in 1 .. n
    BY <1>3, <2>1 DEF Ranked
  <2>. QED
    BY <1>2, <2>4, <2>5
<1>16. CASE event.type \in types
  <2>1. Ranked(new, card + 1, n + 1)
    <3>1. \A k \in old : Cardinality({j \in new : j <= k}) # card + 1 /\ k # n + 1
      BY <1>4, <1>9, <1>12, <1>13
    <3>2. Cardinality({j \in new : j <= n + 1}) = card + 1
      BY <1>10, <1>14, <1>16
    <3>. QED
      BY <1>5, <1>16, <3>1, <3>2 DEF Ranked
  <2>2. card + 1 \in 1 .. Cardinality(new)
    BY <1>4, <1>10, <1>16
  <2>3. b[card + 1] = event
    BY <1>2, <1>8, <2>1, <2>2, PickedAt
  <2>4. Len(b) = card + 1
    BY <1>10, <1>11, <1>16
  <2>. HIDE DEF card
  <2>5. b = Append(a, event)
    BY <1>4, <1>11, <1>15, <2>3, <2>4
  <2>. QED
    BY <1>1, <1>6, <1>7, <1>16, <2>5
<1>17. CASE event.type \notin types
  <2>1. Len(b) = card
    BY <1>10, <1>11, <1>17
  <2>. HIDE DEF card
  <2>2. b = a
    BY <1>4, <1>11, <1>15, <2>1
  <2>. QED
    BY <1>1, <1>6, <1>7, <1>17, <2>2
<1>. QED
  BY <1>16, <1>17

-----------------------------------------------------------------------------
(* What the views say after one event more.                                *)

Sampling == {"TEMPERATURE_RECORDED", "TEMPERATURE_SPIKE"}

Marking == MovementEvents \cup {"CONTAINER_CREATED"}

(* What an event does to the parts of a state that the views count again.  *)
LEMMA ApplyCounts ==
  ASSUME NEW s, DOMAIN s = DOMAIN InitialShipment, NEW event, event.type \in EventTypes
  PROVE  /\ ApplyEvent(s, event).currentState =
              IF event.type = "CONTAINER_CREATED" THEN "CREATED"
              ELSE IF event.type \in MovementEvents THEN ReachedState[event.payload.stage]
              ELSE s.currentState
         /\ ApplyEvent(s, event).latest =
              IF event.type \in Sampling THEN event.payload.value ELSE s.latest
         /\ ApplyEvent(s, event).breaches =
              IF event.type \in Sampling
                THEN s.breaches + (IF event.type = "TEMPERATURE_SPIKE" THEN 1 ELSE 0)
                ELSE s.breaches
         /\ event.type = "SHIPMENT_SCHEDULE_PLANNED" =>
              ApplyEvent(s, event).originalPlan = Or(s.originalPlan, event.payload.plan)
         /\ event.type \in {"SHIPMENT_SCHEDULE_REVISED", "SHIPMENT_SCHEDULE_EXTENDED"} =>
              ApplyEvent(s, event).originalPlan = s.originalPlan
<1>1. PICK b : b = [s EXCEPT !.version = event.version, !.lastEventAt = event.at]
  OBVIOUS
<1>2. /\ DOMAIN b = DOMAIN InitialShipment
      /\ b.currentState = s.currentState /\ b.latest = s.latest
      /\ b.breaches = s.breaches /\ b.originalPlan = s.originalPlan
  BY <1>1 DEF InitialShipment
<1>3. CASE event.type = "CONTAINER_CREATED"
  <2>1. ApplyEvent(s, event) = Created(b, event)
    BY <1>1, <1>3, MovementTypes DEF ApplyEvent
  <2>2. /\ Created(b, event).currentState = "CREATED"
        /\ Created(b, event).latest = b.latest /\ Created(b, event).breaches = b.breaches
    BY <1>2 DEF Created, InitialShipment
  <2>. QED
    BY <1>2, <1>3, <2>1, <2>2, MovementTypes DEF Sampling
<1>4. CASE event.type \in MovementEvents
  <2>1. ApplyEvent(s, event) = Moved(b, event)
    BY <1>1, <1>4, MovementTypes DEF ApplyEvent
  <2>2. /\ Moved(b, event).currentState = ReachedState[event.payload.stage]
        /\ Moved(b, event).latest = b.latest /\ Moved(b, event).breaches = b.breaches
    BY <1>2 DEF Moved, InitialShipment
  <2>. QED
    BY <1>2, <1>4, <2>1, <2>2, MovementTypes DEF Sampling
<1>5. CASE event.type \in Sampling
  <2>1. ApplyEvent(s, event) = Sampled(b, event)
    BY <1>1, <1>5, MovementTypes DEF ApplyEvent, Sampling
  <2>2. /\ Sampled(b, event).currentState = b.currentState
        /\ Sampled(b, event).latest = event.payload.value
        /\ Sampled(b, event).breaches
             = b.breaches + (IF event.type = "TEMPERATURE_SPIKE" THEN 1 ELSE 0)
    BY <1>2 DEF Sampled, InitialShipment
  <2>. QED
    BY <1>2, <1>5, <2>1, <2>2, MovementTypes DEF Sampling
<1>6. CASE event.type = "SHIPMENT_DETAILS_AMENDED"
  <2>1. ApplyEvent(s, event) = Amended(b, event)
    BY <1>1, <1>6, MovementTypes DEF ApplyEvent
  <2>2. /\ Amended(b, event).currentState = b.currentState
        /\ Amended(b, event).latest = b.latest /\ Amended(b, event).breaches = b.breaches
    BY <1>2 DEF Amended, InitialShipment
  <2>. QED
    BY <1>2, <1>6, <2>1, <2>2, MovementTypes DEF Sampling
<1>7. CASE event.type = "SHIPMENT_SCHEDULE_PLANNED"
  <2>1. ApplyEvent(s, event) = Planned(b, event)
    BY <1>1, <1>7, MovementTypes DEF ApplyEvent
  <2>2. /\ Planned(b, event).currentState = b.currentState
        /\ Planned(b, event).latest = b.latest /\ Planned(b, event).breaches = b.breaches
        /\ Planned(b, event).originalPlan = Or(b.originalPlan, event.payload.plan)
    BY <1>2 DEF Planned, InitialShipment
  <2>. QED
    BY <1>2, <1>7, <2>1, <2>2, MovementTypes DEF Sampling
<1>8. CASE event.type = "SHIPMENT_SCHEDULE_REVISED"
  <2>1. ApplyEvent(s, event) = Revised(b, event)
    BY <1>1, <1>8, MovementTypes DEF ApplyEvent
  <2>2. /\ Revised(b, event).currentState = b.currentState
        /\ Revised(b, event).latest = b.latest /\ Revised(b, event).breaches = b.breaches
        /\ Revised(b, event).originalPlan = b.originalPlan
    BY <1>2 DEF Revised, InitialShipment
  <2>. QED
    BY <1>2, <1>8, <2>1, <2>2, MovementTypes DEF Sampling
<1>9. CASE event.type = "SHIPMENT_SCHEDULE_EXTENDED"
  <2>1. ApplyEvent(s, event) = Extended(b, event)
    BY <1>1, <1>9, MovementTypes DEF ApplyEvent
  <2>2. /\ Extended(b, event).currentState = b.currentState
        /\ Extended(b, event).latest = b.latest /\ Extended(b, event).breaches = b.breaches
        /\ Extended(b, event).originalPlan = b.originalPlan
    BY <1>2 DEF Extended, InitialShipment
  <2>. QED
    BY <1>2, <1>9, <2>1, <2>2, MovementTypes DEF Sampling
<1>10. CASE event.type \in {"SHIPMENT_ARCHIVED", "SHIPMENT_RESTORED"}
  <2>1. \E archived \in BOOLEAN : ApplyEvent(s, event) = Flagged(b, archived)
    BY <1>1, <1>10, MovementTypes DEF ApplyEvent
  <2>2. \A archived \in BOOLEAN :
          /\ Flagged(b, archived).currentState = b.currentState
          /\ Flagged(b, archived).latest = b.latest
          /\ Flagged(b, archived).breaches = b.breaches
    BY <1>2 DEF Flagged, InitialShipment
  <2>. QED
    BY <1>2, <1>10, <2>1, <2>2, MovementTypes DEF Sampling
<1>. QED
  BY <1>3, <1>4, <1>5, <1>6, <1>7, <1>8, <1>9, <1>10 DEF EventTypes, Sampling

(* What an event that was decided on a state says of the stage it confirms *)
(* and of the dates it moves.                                              *)
LEMMA DecidedChange ==
  ASSUME NEW s, Reached(s), NEW c \in Commands, NEW at, NEW event \in Decide(s, c, at)
  PROVE  /\ event.type = "CONTAINER_CREATED" <=> s.currentState = NULL
         /\ event.type \in MovementEvents =>
              /\ event.payload.stage \in Stages
              /\ s.currentState = RequiredState[event.payload.stage]
         /\ event.type = "SHIPMENT_SCHEDULE_PLANNED" =>
              "previous" \notin DOMAIN event.payload
         /\ event.type \in {"SHIPMENT_SCHEDULE_REVISED", "SHIPMENT_SCHEDULE_EXTENDED"} =>
              /\ "previous" \in DOMAIN event.payload
              /\ event.payload.previous = s.plan
         /\ event.type \in {"SHIPMENT_SCHEDULE_PLANNED", "SHIPMENT_SCHEDULE_REVISED"} =>
              "by" \notin DOMAIN event.payload
         /\ event.type = "SHIPMENT_SCHEDULE_EXTENDED" =>
              /\ event.payload.by \in Int
              /\ \A t \in Stages :
                   event.payload.plan[t].date
                     \in {s.plan[t].date, s.plan[t].date + event.payload.by}
<1>1. CASE c.kind = "create"
  BY <1>1, MovementTypes DEF Decide, Create, Event, Exists
<1>2. CASE c.kind = "move"
  <2>1. c.stage \in Stages
    BY <1>2, CommandKinds
  <2>2. /\ Exists(s) /\ s.currentState = RequiredState[c.stage]
        /\ event.type = ConfirmingEvent[c.stage] /\ event.payload.stage = c.stage
    BY <1>2 DEF Decide, Move, Event, Active
  <2>. QED
    BY <2>1, <2>2, MovementTypes DEF Exists
<1>3. CASE c.kind = "temperature"
  BY <1>3, MovementTypes DEF Decide, RecordTemperature, Event, Active, Exists
<1>4. CASE c.kind = "amend"
  BY <1>4, MovementTypes DEF Decide, Amend, Event, Active, Exists
<1>5. CASE c.kind = "plan"
  BY <1>5, MovementTypes DEF Decide, PlanSchedule, Event, Active, Exists
<1>6. CASE c.kind = "revise"
  BY <1>6, MovementTypes DEF Decide, ReviseSchedule, Event, Active, Exists
<1>7. CASE c.kind = "extend"
  <2>1. /\ Exists(s) /\ s.plan # NULL
        /\ event = Event(s, "SHIPMENT_SCHEDULE_EXTENDED", at,
                    [stage |-> c.stage, by |-> c.days,
                     plan |-> ExtendedPlan(s, c.stage, c.days), previous |-> s.plan,
                     days |-> ExtendedDays(s, ExtendedPlan(s, c.stage, c.days))])
    BY <1>7 DEF Decide, ExtendSchedule, Active
  <2>2. c.days \in Int
    BY <1>7, LedgerAssumption, DomainAssumption
       DEF ValidCommands, CreateCommands, MoveCommands, TemperatureCommands, AmendCommands,
           PlanCommands, ReviseCommands, ExtendCommands, ArchiveCommands, RestoreCommands,
           WholeDays
  <2>3. \A t \in Stages : s.plan[t] = [s.plan[t] EXCEPT !.date = s.plan[t].date]
                          /\ "date" \in DOMAIN s.plan[t]
    BY <2>1 DEF Reached, PlanEntries
  <2>4. \A t \in Stages : ExtendedPlan(s, c.stage, c.days)[t].date
                            \in {s.plan[t].date, s.plan[t].date + c.days}
    BY <2>3 DEF ExtendedPlan
  <2>. QED
    BY <2>1, <2>2, <2>4, MovementTypes DEF Event, Exists
<1>8. CASE c.kind \in {"archive", "restore"}
  BY <1>8, MovementTypes DEF Decide, Archive, Restore, Event, Active, Exists
<1>. QED
  BY <1>1, <1>2, <1>3, <1>4, <1>5, <1>6, <1>7, <1>8, CommandKinds

(* The stages behind a shipment in each state.                             *)
ConfirmedIn(state) ==
  IF state = "IN_TRANSIT" THEN {"LOAD_ON_SHIP"}
  ELSE IF state = "AT_PORT" THEN {"LOAD_ON_SHIP", "ARRIVE_AT_PORT"}
  ELSE IF state = "UNLOADED" THEN {"LOAD_ON_SHIP", "ARRIVE_AT_PORT", "UNLOAD_FROM_SHIP"}
  ELSE {}

(* The chart of a whole stream counts what the state counts.               *)
ChartOK(events, s) ==
  /\ s.currentState \in ShipmentStates \cup {NULL}
  /\ s.currentState = NULL <=> events = <<>>
  /\ {t \in Stages : s.confirmed[t] # NULL} = ConfirmedIn(s.currentState)
  /\ s.breaches \in Nat /\ Len(Alerts(events)) = s.breaches
  /\ s.latest = IF Readings(events) = <<>> THEN NULL ELSE Last(Readings(events)).payload.value
  /\ IF events = <<>> THEN OfTypes(events, Marking) = <<>>
     ELSE Len(OfTypes(events, Marking)) = 1 + Cardinality(ConfirmedIn(s.currentState))

LEMMA StateTables ==
  /\ RequiredState["LOAD_ON_SHIP"] = "CREATED" /\ ReachedState["LOAD_ON_SHIP"] = "IN_TRANSIT"
  /\ RequiredState["ARRIVE_AT_PORT"] = "IN_TRANSIT" /\ ReachedState["ARRIVE_AT_PORT"] = "AT_PORT"
  /\ RequiredState["UNLOAD_FROM_SHIP"] = "AT_PORT" /\ ReachedState["UNLOAD_FROM_SHIP"] = "UNLOADED"
BY DEF RequiredState, ReachedState, Stages

(* A movement confirms one stage more than those behind the shipment.      *)
LEMMA NextConfirmed ==
  ASSUME NEW stage \in Stages
  PROVE  /\ ConfirmedIn(ReachedState[stage]) = ConfirmedIn(RequiredState[stage]) \cup {stage}
         /\ Cardinality(ConfirmedIn(RequiredState[stage])) \in Nat
         /\ Cardinality(ConfirmedIn(ReachedState[stage]))
              = Cardinality(ConfirmedIn(RequiredState[stage])) + 1
<1>1. /\ ConfirmedIn(ReachedState[stage]) = ConfirmedIn(RequiredState[stage]) \cup {stage}
      /\ stage \notin ConfirmedIn(RequiredState[stage])
      /\ ConfirmedIn(RequiredState[stage]) \subseteq Stages
  BY StateTables DEF ConfirmedIn, Stages
<1>2. IsFiniteSet(Stages)
  <2>1. IsFiniteSet({} \cup {"LOAD_ON_SHIP"})
    BY FS_EmptySet, FS_AddElement
  <2>2. IsFiniteSet(({} \cup {"LOAD_ON_SHIP"}) \cup {"ARRIVE_AT_PORT"})
    BY <2>1, FS_AddElement
  <2>3. IsFiniteSet((({} \cup {"LOAD_ON_SHIP"}) \cup {"ARRIVE_AT_PORT"}) \cup {"UNLOAD_FROM_SHIP"})
    BY <2>2, FS_AddElement
  <2>4. Stages = (({} \cup {"LOAD_ON_SHIP"}) \cup {"ARRIVE_AT_PORT"}) \cup {"UNLOAD_FROM_SHIP"}
    BY DEF Stages
  <2>. QED
    BY <2>3, <2>4
<1>3. IsFiniteSet(ConfirmedIn(RequiredState[stage]))
  BY <1>1, <1>2, FS_Subset
<1>. QED
  BY <1>1, <1>3, FS_AddElement, FS_CardinalityType

LEMMA NoneConfirmed ==
  ConfirmedIn(NULL) = {} /\ ConfirmedIn("CREATED") = {} /\ Cardinality(ConfirmedIn("CREATED")) = 0
<1>1. ConfirmedIn(NULL) = {}
  BY NullAssumption DEF ConfirmedIn, ShipmentStates
<1>2. ConfirmedIn("CREATED") = {}
  BY DEF ConfirmedIn
<1>. QED
  BY <1>1, <1>2, FS_EmptySet

LEMMA EmptyChart == ChartOK(<<>>, InitialShipment)
<1>1. \A types : OfTypes(<<>>, types) = <<>>
  BY NoneOfTypes
<1>2. Readings(<<>>) = <<>> /\ Alerts(<<>>) = <<>> /\ OfTypes(<<>>, Marking) = <<>>
  BY <1>1 DEF Readings, Alerts
<1>3. /\ InitialShipment.currentState = NULL /\ InitialShipment.breaches = 0
      /\ InitialShipment.latest = NULL
      /\ \A t \in Stages : InitialShipment.confirmed[t] = NULL
  BY DEF InitialShipment
<1>. QED
  BY <1>2, <1>3, NoneConfirmed DEF ChartOK

(* One reading more is one more on the chart, and so for alerts.           *)
LEMMA ReadingsGrow ==
  ASSUME NEW S, NEW events \in Seq(S), NEW event \in S
  PROVE  /\ Readings(events) \in Seq(Range(Readings(events)))
         /\ Readings(Append(events, event)) =
              IF event.type \in Sampling THEN Append(Readings(events), event)
                                         ELSE Readings(events)
         /\ Len(Alerts(events)) \in Nat
         /\ Len(Alerts(Append(events, event))) =
              Len(Alerts(events)) + (IF event.type = "TEMPERATURE_SPIKE" THEN 1 ELSE 0)
<1>. DEFINE R == Readings(events)
            U == Range(R) \cup {event}
<1>2. R \in Seq(Range(R))
  BY OfTypesSequence DEF Readings
<1>3. Readings(Append(events, event)) = IF event.type \in Sampling THEN Append(R, event) ELSE R
  BY OfTypesGrows DEF Readings, Sampling
<1>4. R \in Seq(U) /\ event \in U
  <2>. HIDE DEF R
  <2>. QED
    BY <1>2
<1>. HIDE DEF R, U
<1>5. PICK alerts : alerts = OfTypes(R, {"TEMPERATURE_SPIKE"})
  OBVIOUS
<1>6. alerts \in Seq(Range(alerts)) /\ Len(alerts) \in Nat
  BY <1>2, <1>5, OfTypesSequence
<1>7. Len(Append(alerts, event)) = Len(alerts) + 1
  BY <1>6
<1>8. OfTypes(Append(R, event), {"TEMPERATURE_SPIKE"})
        = IF event.type = "TEMPERATURE_SPIKE" THEN Append(alerts, event) ELSE alerts
  BY <1>4, <1>5, OfTypesGrows
<1>9. Alerts(events) = alerts
  BY <1>5 DEF Alerts, R
<1>10. Alerts(Append(events, event))
         = IF event.type = "TEMPERATURE_SPIKE" THEN Append(alerts, event) ELSE alerts
  <2>1. CASE event.type \in Sampling
    BY <1>3, <1>8, <2>1 DEF Alerts
  <2>2. CASE event.type \notin Sampling
    BY <1>3, <1>5, <2>2 DEF Alerts, Sampling
  <2>. QED
    BY <2>1, <2>2
<1>11. Len(Alerts(Append(events, event)))
         = Len(Alerts(events)) + (IF event.type = "TEMPERATURE_SPIKE" THEN 1 ELSE 0)
  BY <1>6, <1>7, <1>9, <1>10
<1>. QED
  BY <1>2, <1>3, <1>6, <1>9, <1>11 DEF R

(* Chart and state count alike after one event more.                       *)
LEMMA ChartStep ==
  ASSUME NEW S, NEW events \in Seq(S), NEW event \in S, NEW s, Reached(s), ChartOK(events, s),
         NEW c \in Commands, NEW at \in Times, event \in Decide(s, c, at)
  PROVE  ChartOK(Append(events, event), ApplyEvent(s, event))
<1>1. PICK u : u = ApplyEvent(s, event)
  OBVIOUS
<1>2. PICK more : more = Append(events, event)
  OBVIOUS
<1>3. /\ event.type \in EventTypes /\ DOMAIN s = DOMAIN InitialShipment
      /\ s.confirmed \in [Stages -> Confirmations \cup {NULL}]
  BY DecidedEnvelope DEF Reached
<1>4. /\ u.currentState =
              IF event.type = "CONTAINER_CREATED" THEN "CREATED"
              ELSE IF event.type \in MovementEvents THEN ReachedState[event.payload.stage]
              ELSE s.currentState
      /\ u.latest = IF event.type \in Sampling THEN event.payload.value ELSE s.latest
      /\ u.breaches = IF event.type \in Sampling
                THEN s.breaches + (IF event.type = "TEMPERATURE_SPIKE" THEN 1 ELSE 0)
                ELSE s.breaches
  BY <1>1, <1>3, ApplyCounts
<1>5. u.confirmed = IF event.type \in MovementEvents
                      THEN [s.confirmed EXCEPT ![event.payload.stage] = Entry(s, event)]
                      ELSE s.confirmed
  <2>1. Alike(s, s)
    BY <1>3 DEF Alike
  <2>. QED
    BY <1>1, <1>3, <2>1, ApplyAlike
<1>6. /\ event.type = "CONTAINER_CREATED" <=> s.currentState = NULL
      /\ event.type \in MovementEvents =>
           event.payload.stage \in Stages /\ s.currentState = RequiredState[event.payload.stage]
  BY DecidedChange
<1>7. more # <<>>
  BY <1>2
<1>8. u.breaches \in Nat /\ Len(Alerts(more)) = u.breaches
  <2>1. /\ s.breaches \in Nat /\ Len(Alerts(events)) = s.breaches
        /\ Len(Alerts(more))
             = Len(Alerts(events)) + (IF event.type = "TEMPERATURE_SPIKE" THEN 1 ELSE 0)
    BY <1>2, ReadingsGrow DEF ChartOK
  <2>. QED
    BY <1>4, <2>1 DEF Sampling
<1>9. u.latest = IF Readings(more) = <<>> THEN NULL ELSE Last(Readings(more)).payload.value
  <2>1. PICK r : r = Readings(events)
    OBVIOUS
  <2>2. /\ r \in Seq(Range(r))
        /\ Readings(more) = IF event.type \in Sampling THEN Append(r, event) ELSE r
        /\ s.latest = IF r = <<>> THEN NULL ELSE Last(r).payload.value
    BY <1>2, <2>1, ReadingsGrow DEF ChartOK
  <2>3. Append(r, event) # <<>> /\ Last(Append(r, event)) = event
    BY <2>2 DEF Last
  <2>. QED
    BY <1>4, <2>2, <2>3
<1>10. u.currentState \in ShipmentStates
  BY <1>3, <1>4, <1>6, StateTables DEF ChartOK, ShipmentStates, Stages
<1>11. {t \in Stages : u.confirmed[t] # NULL} = ConfirmedIn(u.currentState)
  <2>1. CASE event.type \in MovementEvents
    <3>1. /\ event.payload.stage \in Stages
          /\ ConfirmedIn(u.currentState) = ConfirmedIn(s.currentState) \cup {event.payload.stage}
      BY <1>4, <1>6, <2>1, NextConfirmed, MovementTypes
    <3>2. {t \in Stages : s.confirmed[t] # NULL} = ConfirmedIn(s.currentState)
      BY DEF ChartOK
    <3>3. Entry(s, event) # NULL
      BY <2>1, EntryIsConfirmation, NullAssumption
    <3>4. \A t \in Stages : u.confirmed[t] # NULL <=>
            s.confirmed[t] # NULL \/ t = event.payload.stage
      BY <1>3, <1>5, <2>1, <3>1, <3>3
    <3>. QED
      BY <3>1, <3>2, <3>4
  <2>2. CASE event.type \notin MovementEvents
    BY <1>4, <1>5, <1>6, <2>2, NoneConfirmed DEF ChartOK
  <2>. QED
    BY <2>1, <2>2
<1>12. Len(OfTypes(more, Marking)) = 1 + Cardinality(ConfirmedIn(u.currentState))
  <2>1. PICK m : m = OfTypes(events, Marking)
    OBVIOUS
  <2>2. /\ m \in Seq(Range(m))
        /\ OfTypes(more, Marking) = IF event.type \in Marking THEN Append(m, event) ELSE m
        /\ events = <<>> => m = <<>>
        /\ events # <<>> => Len(m) = 1 + Cardinality(ConfirmedIn(s.currentState))
    BY <1>2, <2>1, OfTypesGrows, OfTypesSequence DEF ChartOK
  <2>3. Len(Append(m, event)) = Len(m) + 1 /\ Len(m) \in Nat
    BY <2>2
  <2>4. CASE event.type = "CONTAINER_CREATED"
    <3>1. events = <<>>
      BY <1>6, <2>4 DEF ChartOK
    <3>2. Len(m) = 0 /\ event.type \in Marking
      BY <2>2, <2>4, <3>1 DEF Marking
    <3>. QED
      BY <1>4, <2>2, <2>3, <2>4, <3>2, NoneConfirmed
  <2>5. CASE event.type \in MovementEvents
    <3>1. /\ event.type \in Marking
          /\ Cardinality(ConfirmedIn(s.currentState)) \in Nat
          /\ Cardinality(ConfirmedIn(u.currentState))
               = Cardinality(ConfirmedIn(s.currentState)) + 1
      BY <1>4, <1>6, <2>5, NextConfirmed, MovementTypes DEF Marking
    <3>2. events # <<>>
      BY <1>6, <2>5, MovementTypes DEF ChartOK
    <3>. QED
      BY <2>2, <2>3, <3>1, <3>2
  <2>6. CASE event.type \notin Marking
    <3>1. events # <<>> /\ u.currentState = s.currentState
      BY <1>4, <1>6, <2>6 DEF ChartOK, Marking
    <3>. QED
      BY <2>2, <2>6, <3>1
  <2>. QED
    BY <2>4, <2>5, <2>6 DEF Marking
<1>13. u.currentState # NULL
  BY <1>10, NullAssumption
<1>. QED
  BY <1>1, <1>2, <1>7, <1>8, <1>9, <1>10, <1>11, <1>12, <1>13 DEF ChartOK

-----------------------------------------------------------------------------
(* The lines of the report.                                                *)

(* A set of positions has a largest one.                                   *)
LEMMA LargestElement ==
  ASSUME NEW n \in Nat, NEW S \in SUBSET (1 .. n), S # {}
  PROVE  Max(S) \in S /\ \A m \in S : m <= Max(S)
<1>. DEFINE T == {n - m : m \in S}
<1>1. \A m \in S : m \in Nat /\ m <= n
  OBVIOUS
<1>2. T \in SUBSET Nat /\ T # {}
  <2>1. \A m \in S : n - m \in Nat
    BY <1>1
  <2>2. PICK m : m \in S
    OBVIOUS
  <2>3. n - m \in T
    BY <2>2
  <2>4. \A l \in T : \E k \in S : l = n - k
    OBVIOUS
  <2>. HIDE DEF T
  <2>. QED
    BY <2>1, <2>3, <2>4
<1>3. PICK l \in T : \A m \in T : l <= m
  <2>. HIDE DEF T
  <2>. QED
    BY <1>2, LeastElement
<1>4. PICK x \in S : l = n - x
  BY <1>3
<1>5. \A m \in S : n - x <= n - m
  BY <1>3, <1>4
<1>6. \A m \in S : x >= m
  BY <1>1, <1>4, <1>5
<1>7. Max(S) \in S /\ \A m \in S : Max(S) >= m
  BY <1>4, <1>6 DEF Max
<1>. QED
  BY <1>1, <1>7

(* Following no line at all leads nowhere.                                 *)
LEMMA FollowedNone ==
  ASSUME NEW plan, NEW changes, NEW stage
  PROVE  FollowedDate(plan, changes, 0, stage) = plan[stage].date
<1>1. 1 .. 0 = {}
  OBVIOUS
<1>. QED
  BY <1>1 DEF FollowedDate

(* Later lines do not change where the earlier ones lead.                  *)
LEMMA FollowedStays ==
  ASSUME NEW T, NEW changes \in Seq(T), NEW line, NEW i \in 0 .. Len(changes),
         NEW plan, NEW stage
  PROVE  FollowedDate(plan, Append(changes, line), i, stage)
           = FollowedDate(plan, changes, i, stage)
<1>1. PICK more : more = Append(changes, line)
  OBVIOUS
<1>2. \A j \in 1 .. i : more[j] = changes[j]
  BY <1>1
<1>. DEFINE lines(j) == {shift \in changes[j].shifts : shift.stage = stage}
            lines1(j) == {shift \in more[j].shifts : shift.stage = stage}
            moving == {j \in 1 .. i : lines(j) # {}}
            moving1 == {j \in 1 .. i : lines1(j) # {}}
<1>3. \A j \in 1 .. i : lines1(j) = lines(j)
  BY <1>2
<1>4. /\ FollowedDate(plan, changes, i, stage)
           = IF moving = {} THEN plan[stage].date ELSE (CHOOSE shift \in lines(Max(moving)) : TRUE).to
      /\ FollowedDate(plan, more, i, stage)
           = IF moving1 = {} THEN plan[stage].date ELSE (CHOOSE shift \in lines1(Max(moving1)) : TRUE).to
  BY DEF FollowedDate
<1>5. moving1 = moving
  <2>. HIDE DEF lines, lines1
  <2>. QED
    BY <1>3
<1>6. moving # {} => Max(moving) \in 1 .. i
  <2>1. i \in Nat /\ moving \in SUBSET (1 .. i)
    OBVIOUS
  <2>. HIDE DEF moving
  <2>. QED
    BY <2>1, LargestElement
<1>. HIDE DEF lines, lines1, moving, moving1
<1>7. moving # {} => lines1(Max(moving1)) = lines(Max(moving))
  BY <1>3, <1>5, <1>6
<1>. QED
  BY <1>1, <1>4, <1>5, <1>7

(* What a change says of a stage, and the date it leads to.                *)
SaidOf(line, stage) == {shift \in line.shifts : shift.stage = stage}

EndOf(line, stage) == (CHOOSE shift \in SaidOf(line, stage) : TRUE).to

(* The next line leads on, if it names the stage.                          *)
LEMMA FollowedGrows ==
  ASSUME NEW T, NEW changes \in Seq(T), NEW line, NEW plan, NEW stage
  PROVE  FollowedDate(plan, Append(changes, line), Len(changes) + 1, stage)
           = IF SaidOf(line, stage) # {} THEN EndOf(line, stage)
             ELSE FollowedDate(plan, changes, Len(changes), stage)
<1>1. PICK more : more = Append(changes, line)
  OBVIOUS
<1>2. PICK n \in Nat : n = Len(changes)
  OBVIOUS
<1>3. more[n + 1] = line
  BY <1>1, <1>2
<1>. DEFINE lines(j) == {shift \in more[j].shifts : shift.stage = stage}
            moving(m) == {j \in 1 .. m : lines(j) # {}}
<1>4. \A m : FollowedDate(plan, more, m, stage)
        = IF moving(m) = {} THEN plan[stage].date ELSE (CHOOSE shift \in lines(Max(moving(m))) : TRUE).to
  BY DEF FollowedDate
<1>5. FollowedDate(plan, more, n, stage) = FollowedDate(plan, changes, n, stage)
  BY <1>1, <1>2, FollowedStays
<1>6. lines(n + 1) = SaidOf(line, stage)
  BY <1>3 DEF SaidOf
<1>7. moving(n + 1) = IF lines(n + 1) # {} THEN moving(n) \cup {n + 1} ELSE moving(n)
  <2>1. \A j : j \in 1 .. n + 1 <=> j \in 1 .. n \/ j = n + 1
    OBVIOUS
  <2>. HIDE DEF lines
  <2>. QED
    BY <2>1
<1>8. lines(n + 1) # {} => Max(moving(n + 1)) = n + 1
  <2>. HIDE DEF lines
  <2>1. SUFFICES ASSUME lines(n + 1) # {} PROVE Max(moving(n + 1)) = n + 1
    OBVIOUS
  <2>2. PICK h \in Nat : h = n + 1
    OBVIOUS
  <2>3. PICK S : S = moving(h)
    OBVIOUS
  <2>4. S \in SUBSET (1 .. h) /\ \A j \in S : j \in Nat /\ j <= h
    BY <2>3
  <2>. HIDE DEF moving
  <2>5. h \in S /\ S # {}
    BY <1>7, <2>1, <2>2, <2>3
  <2>6. Max(S) \in S /\ h <= Max(S)
    BY <2>2, <2>4, <2>5, LargestElement
  <2>7. Max(S) \in Nat /\ Max(S) <= h
    BY <2>4, <2>6
  <2>8. Max(S) = h
    BY <2>2, <2>6, <2>7
  <2>. QED
    BY <2>2, <2>3, <2>8
<1>. HIDE DEF lines, moving
<1>9. CASE lines(n + 1) # {}
  <2>1. moving(n + 1) # {}
    BY <1>7, <1>9
  <2>2. FollowedDate(plan, more, n + 1, stage)
          = (CHOOSE shift \in lines(Max(moving(n + 1))) : TRUE).to
    BY <1>4, <2>1
  <2>3. lines(Max(moving(n + 1))) = SaidOf(line, stage)
    BY <1>6, <1>8, <1>9
  <2>4. FollowedDate(plan, more, n + 1, stage) = EndOf(line, stage)
    BY <2>2, <2>3 DEF EndOf
  <2>. QED
    BY <1>1, <1>2, <1>6, <1>9, <2>4
<1>10. CASE lines(n + 1) = {}
  <2>1. FollowedDate(plan, more, n + 1, stage) = FollowedDate(plan, more, n, stage)
    BY <1>4, <1>7, <1>10
  <2>. QED
    BY <1>1, <1>2, <1>5, <1>6, <1>10, <2>1
<1>. QED
  BY <1>9, <1>10

(* Lines that join up, from the plan made first to the plan in force.      *)
LinesJoin(original, changes, plan) ==
  /\ changes \in Seq(Range(changes))
  /\ \A i \in 1 .. Len(changes) : \A shift \in changes[i].shifts :
       /\ shift.from = FollowedDate(original, changes, i - 1, shift.stage)
       /\ changes[i].by # NULL => shift.to - shift.from = changes[i].by
  /\ \A stage \in Stages :
       FollowedDate(original, changes, Len(changes), stage) = plan[stage].date

LEMMA NoLineYet ==
  ASSUME NEW plan
  PROVE  LinesJoin(plan, <<>>, plan)
<1>1. <<>> \in Seq(Range(<<>>)) /\ Len(<<>>) = 0 /\ 1 .. 0 = {}
  OBVIOUS
<1>. QED
  BY <1>1, FollowedNone DEF LinesJoin

(* A line that starts at the plan in force joins up with those before it.  *)
LEMMA NextLine ==
  ASSUME NEW original, NEW changes, NEW plan \in PlanEntries, LinesJoin(original, changes, plan),
         NEW next \in PlanEntries, NEW line,
         line.shifts = {[stage |-> t, from |-> plan[t].date, to |-> next[t].date] :
                          t \in {u \in Stages : plan[u].date # next[u].date}},
         line.by # NULL =>
           /\ line.by \in Int
           /\ \A t \in Stages : next[t].date \in {plan[t].date, plan[t].date + line.by}
  PROVE  LinesJoin(original, Append(changes, line), next)
<1>1. PICK more : more = Append(changes, line)
  OBVIOUS
<1>2. PICK n \in Nat : n = Len(changes)
  BY DEF LinesJoin
<1>3. changes \in Seq(Range(changes))
  BY DEF LinesJoin
<1>4. /\ Len(more) = n + 1 /\ more[n + 1] = line
      /\ \A i \in 1 .. n : more[i] = changes[i]
      /\ more \in Seq(Range(changes) \cup {line})
  BY <1>1, <1>2, <1>3
<1>5. more \in Seq(Range(more))
  <2>1. DOMAIN more = 1 .. n + 1 /\ more = [i \in 1 .. n + 1 |-> more[i]]
    BY <1>4
  <2>2. \A i \in 1 .. n + 1 : more[i] \in Range(more)
    BY <2>1 DEF Range
  <2>3. n + 1 \in Nat
    OBVIOUS
  <2>. QED
    BY <2>1, <2>2, <2>3
<1>6. \A i \in 0 .. n : \A stage :
        FollowedDate(original, more, i, stage) = FollowedDate(original, changes, i, stage)
  BY <1>1, <1>2, <1>3, FollowedStays
<1>7. \A stage \in Stages : /\ FollowedDate(original, changes, n, stage) = plan[stage].date
                            /\ plan[stage].date \in Int /\ next[stage].date \in Int
  BY <1>2 DEF LinesJoin, PlanEntries
<1>8. \A shift \in line.shifts :
        /\ shift.stage \in Stages /\ plan[shift.stage].date # next[shift.stage].date
        /\ shift.from = plan[shift.stage].date /\ shift.to = next[shift.stage].date
  OBVIOUS
<1>9. \A stage \in Stages : plan[stage].date # next[stage].date
        <=> \E shift \in line.shifts : shift.stage = stage
  <2>1. ASSUME NEW t \in Stages, plan[t].date # next[t].date
        PROVE  \E shift \in line.shifts : shift.stage = t
    <3>1. PICK shift : shift = [stage |-> t, from |-> plan[t].date, to |-> next[t].date]
      OBVIOUS
    <3>2. shift \in line.shifts /\ shift.stage = t
      BY <2>1, <3>1
    <3>. QED
      BY <3>2
  <2>. QED
    BY <1>8, <2>1
<1>10. ASSUME NEW i \in 1 .. n + 1, NEW shift \in more[i].shifts
       PROVE  /\ shift.from = FollowedDate(original, more, i - 1, shift.stage)
              /\ more[i].by # NULL => shift.to - shift.from = more[i].by
  <2>1. CASE i = n + 1
    <3>1. more[i] = line /\ i - 1 = n /\ n \in 0 .. n
      BY <1>4, <2>1
    <3>2. shift.from = FollowedDate(original, more, i - 1, shift.stage)
      BY <1>6, <1>7, <1>8, <1>10, <3>1
    <3>3. ASSUME line.by # NULL
          PROVE  shift.to - shift.from = line.by
      <4>1. PICK t \in Stages : t = shift.stage
        BY <1>8, <1>10, <3>1
      <4>2. /\ shift.from = plan[t].date /\ shift.to = next[t].date
            /\ plan[t].date # next[t].date
        BY <1>8, <1>10, <3>1, <4>1
      <4>3. next[t].date = plan[t].date + line.by /\ line.by \in Int
        BY <3>3, <4>2
      <4>. QED
        BY <1>7, <4>2, <4>3
    <3>. QED
      BY <3>1, <3>2, <3>3
  <2>2. CASE i # n + 1
    <3>1. i \in 1 .. n /\ i - 1 \in 0 .. n
      BY <2>2
    <3>2. more[i] = changes[i]
      BY <1>4, <3>1
    <3>. QED
      BY <1>2, <1>6, <1>10, <3>1, <3>2 DEF LinesJoin
  <2>. QED
    BY <2>1, <2>2
<1>11. ASSUME NEW stage \in Stages
       PROVE  FollowedDate(original, more, n + 1, stage) = next[stage].date
  <2>1. FollowedDate(original, more, n + 1, stage)
          = IF SaidOf(line, stage) # {} THEN EndOf(line, stage) ELSE plan[stage].date
    <3>1. FollowedDate(original, Append(changes, line), Len(changes) + 1, stage)
            = IF SaidOf(line, stage) # {} THEN EndOf(line, stage)
              ELSE FollowedDate(original, changes, Len(changes), stage)
      BY <1>3, FollowedGrows
    <3>. QED
      BY <1>1, <1>2, <1>7, <3>1
  <2>2. CASE SaidOf(line, stage) # {}
    <3>1. PICK shift : shift = CHOOSE l \in SaidOf(line, stage) : TRUE
      OBVIOUS
    <3>2. shift \in SaidOf(line, stage)
      BY <2>2, <3>1
    <3>3. EndOf(line, stage) = shift.to
      BY <3>1 DEF EndOf
    <3>4. shift \in line.shifts /\ shift.stage = stage
      BY <3>2 DEF SaidOf
    <3>. QED
      BY <1>8, <2>1, <2>2, <3>3, <3>4
  <2>3. CASE SaidOf(line, stage) = {}
    <3>1. ~\E shift \in line.shifts : shift.stage = stage
      BY <2>3 DEF SaidOf
    <3>. QED
      BY <1>9, <2>1, <2>3, <3>1
  <2>. QED
    BY <2>2, <2>3
<1>. QED
  BY <1>1, <1>4, <1>5, <1>10, <1>11 DEF LinesJoin

(* One scheduling event more is one line more.                             *)
LEMMA ChangesGrow ==
  ASSUME NEW S, NEW events \in Seq(S), NEW event \in S
  PROVE  ScheduleChanges(Append(events, event)) =
           IF event.type \in ScheduleEvents
             THEN Append(ScheduleChanges(events), ScheduleChange(event))
             ELSE ScheduleChanges(events)
<1>1. PICK c : c = OfTypes(events, ScheduleEvents)
  OBVIOUS
<1>2. c \in Seq(Range(c)) /\ Len(c) \in Nat
  BY <1>1, OfTypesSequence
<1>3. PICK d : d = OfTypes(Append(events, event), ScheduleEvents)
  OBVIOUS
<1>4. d = IF event.type \in ScheduleEvents THEN Append(c, event) ELSE c
  BY <1>1, <1>3, OfTypesGrows
<1>5. /\ ScheduleChanges(events) = [i \in DOMAIN c |-> ScheduleChange(c[i])]
      /\ ScheduleChanges(Append(events, event)) = [i \in DOMAIN d |-> ScheduleChange(d[i])]
  BY <1>1, <1>3 DEF ScheduleChanges
<1>6. CASE event.type \in ScheduleEvents
  <2>1. d = Append(c, event)
    BY <1>4, <1>6
  <2>. DEFINE change(e) == ScheduleChange(e)
              R == {change(e) : e \in Range(c)}
              lines == [i \in DOMAIN c |-> change(c[i])]
  <2>2. /\ DOMAIN c = 1 .. Len(c) /\ DOMAIN d = 1 .. Len(c) + 1
        /\ \A i \in 1 .. Len(c) : d[i] = c[i]
        /\ d[Len(c) + 1] = event
    BY <1>2, <2>1
  <2>. HIDE DEF change
  <2>3. lines \in Seq(R)
    <3>1. \A i \in DOMAIN c : c[i] \in Range(c)
      BY DEF Range
    <3>. QED
      BY <1>2, <2>2, <3>1
  <2>4. Len(lines) = Len(c)
    BY <1>2, <2>2, <2>3
  <2>5. Append(lines, change(event)) = [i \in DOMAIN d |-> change(d[i])]
    <3>1. PICK n \in Nat : n = Len(c)
      BY <1>2
    <3>2. PICK l : l = lines
      OBVIOUS
    <3>3. /\ l \in Seq(R) /\ Len(l) = n
          /\ \A i \in 1 .. n : l[i] = change(d[i])
      BY <2>2, <2>3, <2>4, <3>1, <3>2
    <3>4. d[n + 1] = event /\ DOMAIN d = 1 .. n + 1
      BY <2>2, <3>1
    <3>. HIDE DEF lines
    <3>5. PICK x : x = change(event)
      OBVIOUS
    <3>6. PICK more : more = Append(l, x)
      OBVIOUS
    <3>7. /\ DOMAIN more = 1 .. n + 1 /\ more = [i \in 1 .. n + 1 |-> more[i]]
          /\ \A i \in 1 .. n : more[i] = l[i]
          /\ more[n + 1] = x
      <4>1. l \in Seq(R \cup {x})
        BY <3>3
      <4>. HIDE DEF R
      <4>2. /\ more \in Seq(R \cup {x}) /\ Len(more) = n + 1 /\ more[n + 1] = x
            /\ \A i \in 1 .. n : more[i] = l[i]
        BY <3>3, <3>6, <4>1
      <4>. QED
        BY <4>2
    <3>8. ASSUME NEW i \in 1 .. n + 1
          PROVE  more[i] = change(d[i])
      <4>1. CASE i = n + 1
        BY <3>4, <3>5, <3>7, <4>1
      <4>2. CASE i # n + 1
        <5>1. i \in 1 .. n
          BY <4>2
        <5>. QED
          BY <3>3, <3>7, <5>1
      <4>. QED
        BY <4>1, <4>2
    <3>. QED
      BY <3>2, <3>4, <3>5, <3>6, <3>7, <3>8
  <2>. QED
    BY <1>5, <1>6, <2>5 DEF change
<1>7. CASE event.type \notin ScheduleEvents
  BY <1>4, <1>5, <1>7
<1>. QED
  BY <1>6, <1>7

(* The lines of a whole stream lead to the plan its events fold to.        *)
LinesOK(events, s) ==
  IF s.plan = NULL THEN ScheduleChanges(events) = <<>>
  ELSE LinesJoin(s.originalPlan, ScheduleChanges(events), s.plan)

LEMMA NoLines == LinesOK(<<>>, InitialShipment)
<1>1. PICK c : c = OfTypes(<<>>, ScheduleEvents)
  OBVIOUS
<1>2. c = <<>>
  BY <1>1, NoneOfTypes
<1>3. ScheduleChanges(<<>>) = [i \in DOMAIN c |-> ScheduleChange(c[i])]
  BY <1>1 DEF ScheduleChanges
<1>4. ScheduleChanges(<<>>) = <<>>
  BY <1>2, <1>3
<1>. QED
  BY <1>4 DEF LinesOK, InitialShipment

(* What a decided scheduling event is written down as.                     *)
LEMMA ChangeLine ==
  ASSUME NEW s, Reached(s), NEW c \in Commands, NEW at, NEW event \in Decide(s, c, at)
  PROVE  /\ event.type = "SHIPMENT_SCHEDULE_PLANNED" =>
              /\ ScheduleChange(event).shifts = {}
              /\ ScheduleChange(event).by = NULL
         /\ event.type \in {"SHIPMENT_SCHEDULE_REVISED", "SHIPMENT_SCHEDULE_EXTENDED"} =>
              LET next == event.payload.plan
              IN  ScheduleChange(event).shifts =
                    {[stage |-> t, from |-> s.plan[t].date, to |-> next[t].date] :
                       t \in {u \in Stages : s.plan[u].date # next[u].date}}
         /\ event.type = "SHIPMENT_SCHEDULE_REVISED" => ScheduleChange(event).by = NULL
         /\ event.type = "SHIPMENT_SCHEDULE_EXTENDED" =>
              ScheduleChange(event).by = NULL \/ ScheduleChange(event).by = event.payload.by
<1>1. /\ ScheduleChange(event).shifts = Shifts(event)
      /\ ScheduleChange(event).by
           = IF "by" \in DOMAIN event.payload THEN event.payload.by ELSE NULL
  BY DEF ScheduleChange
<1>2. event.type = "SHIPMENT_SCHEDULE_PLANNED" => Shifts(event) = {}
  BY DecidedChange DEF Shifts
<1>3. ASSUME event.type \in {"SHIPMENT_SCHEDULE_REVISED", "SHIPMENT_SCHEDULE_EXTENDED"}
      PROVE  Shifts(event) =
               {[stage |-> t, from |-> s.plan[t].date, to |-> event.payload.plan[t].date] :
                  t \in {u \in Stages : s.plan[u].date # event.payload.plan[u].date}}
  <2>1. "previous" \in DOMAIN event.payload /\ event.payload.previous = s.plan
    BY <1>3, DecidedChange
  <2>2. PICK p : p = event.payload.previous
    OBVIOUS
  <2>3. Shifts(event) =
               {[stage |-> t, from |-> p[t].date, to |-> event.payload.plan[t].date] :
                  t \in {u \in Stages : p[u].date # event.payload.plan[u].date}}
    BY <2>1, <2>2 DEF Shifts
  <2>. QED
    BY <2>1, <2>2, <2>3
<1>4. event.type \in {"SHIPMENT_SCHEDULE_PLANNED", "SHIPMENT_SCHEDULE_REVISED"} =>
        "by" \notin DOMAIN event.payload
  BY DecidedChange
<1>. QED
  BY <1>1, <1>2, <1>3, <1>4

(* The lines lead on to the plan after one event more.                     *)
LEMMA LinesStep ==
  ASSUME NEW S, NEW events \in Seq(S), NEW event \in S, NEW s, Reached(s), LinesOK(events, s),
         NEW c \in Commands, NEW at \in Times, event \in Decide(s, c, at)
  PROVE  LinesOK(Append(events, event), ApplyEvent(s, event))
<1>1. PICK u : u = ApplyEvent(s, event)
  OBVIOUS
<1>2. PICK more : more = ScheduleChanges(Append(events, event))
  OBVIOUS
<1>3. PICK changes : changes = ScheduleChanges(events)
  OBVIOUS
<1>4. PICK line : line = ScheduleChange(event)
  OBVIOUS
<1>5. more = IF event.type \in ScheduleEvents THEN Append(changes, line) ELSE changes
  BY <1>2, <1>3, <1>4, ChangesGrow
<1>6. event.type \in EventTypes /\ DOMAIN s = DOMAIN InitialShipment
  BY DecidedEnvelope DEF Reached
<1>7. /\ event.type \in ScheduleEvents => u.plan = event.payload.plan
      /\ event.type \notin ScheduleEvents =>
           u.plan = s.plan /\ u.originalPlan = s.originalPlan
  <2>1. Alike(s, s)
    BY <1>6 DEF Alike
  <2>. QED
    BY <1>1, <1>6, <2>1, ApplyAlike DEF ScheduleEvents
<1>8. CASE event.type \notin ScheduleEvents
  BY <1>1, <1>2, <1>3, <1>5, <1>7, <1>8 DEF LinesOK
<1>9. CASE event.type = "SHIPMENT_SCHEDULE_PLANNED"
  <2>1. PICK next : next = event.payload.plan
    OBVIOUS
  <2>2. /\ s.plan = NULL /\ s.originalPlan = NULL /\ next \in PlanEntries
        /\ u.originalPlan = Or(s.originalPlan, next)
    BY <1>1, <1>6, <1>9, <2>1, DecidedPayload, ApplyCounts DEF Reached
  <2>3. u.plan = next /\ u.originalPlan = next /\ next # NULL
    BY <1>7, <1>9, <2>1, <2>2, NullAssumption DEF ScheduleEvents, Or
  <2>4. line.shifts = {} /\ line.by = NULL
    BY <1>4, <1>9, ChangeLine
  <2>5. changes = <<>> /\ LinesJoin(next, changes, next)
    BY <1>3, <2>2, NoLineYet DEF LinesOK
  <2>6. line.shifts = {[stage |-> t, from |-> next[t].date, to |-> next[t].date] :
                         t \in {v \in Stages : next[v].date # next[v].date}}
    BY <2>4
  <2>7. LinesJoin(next, Append(changes, line), next)
    BY <2>2, <2>4, <2>5, <2>6, NextLine
  <2>8. more = Append(changes, line)
    BY <1>5, <1>9 DEF ScheduleEvents
  <2>. QED
    BY <1>1, <1>2, <2>3, <2>7, <2>8 DEF LinesOK
<1>10. CASE event.type \in {"SHIPMENT_SCHEDULE_REVISED", "SHIPMENT_SCHEDULE_EXTENDED"}
  <2>1. PICK next : next = event.payload.plan
    OBVIOUS
  <2>2. /\ s.plan # NULL /\ s.plan \in PlanEntries /\ next \in PlanEntries
        /\ u.originalPlan = s.originalPlan
    BY <1>1, <1>6, <1>10, <2>1, DecidedPayload, ApplyCounts DEF Reached
  <2>3. u.plan = next /\ next # NULL
    BY <1>7, <1>10, <2>1, <2>2, NullAssumption DEF ScheduleEvents
  <2>4. line.shifts = {[stage |-> t, from |-> s.plan[t].date, to |-> next[t].date] :
                         t \in {v \in Stages : s.plan[v].date # next[v].date}}
    BY <1>4, <1>10, <2>1, ChangeLine
  <2>5. line.by # NULL =>
           /\ line.by \in Int
           /\ \A t \in Stages : next[t].date \in {s.plan[t].date, s.plan[t].date + line.by}
    <3>1. CASE event.type = "SHIPMENT_SCHEDULE_REVISED"
      BY <1>4, <3>1, ChangeLine
    <3>2. CASE event.type = "SHIPMENT_SCHEDULE_EXTENDED"
      <4>1. line.by # NULL => line.by = event.payload.by
        BY <1>4, <3>2, ChangeLine
      <4>2. /\ event.payload.by \in Int
            /\ \A t \in Stages :
                 next[t].date \in {s.plan[t].date, s.plan[t].date + event.payload.by}
        BY <2>1, <3>2, DecidedChange
      <4>. QED
        BY <4>1, <4>2
    <3>. QED
      BY <1>10, <3>1, <3>2
  <2>6. changes \in Seq(Range(changes)) /\ LinesJoin(s.originalPlan, changes, s.plan)
    BY <1>3, <2>2 DEF LinesOK, LinesJoin
  <2>7. LinesJoin(s.originalPlan, Append(changes, line), next)
    BY <2>2, <2>4, <2>5, <2>6, NextLine
  <2>8. more = Append(changes, line)
    BY <1>5, <1>10 DEF ScheduleEvents
  <2>. QED
    BY <1>1, <1>2, <2>2, <2>3, <2>7, <2>8 DEF LinesOK
<1>. QED
  BY <1>8, <1>9, <1>10 DEF ScheduleEvents

-----------------------------------------------------------------------------
(* The views of a stream.                                                  *)

(* Chart and report of the first events are of the state after them.       *)
ViewsOK(events, s) == ChartOK(events, s) /\ LinesOK(events, s)

LEMMA ViewsAfter ==
  ASSUME NEW events, StreamOK(events), EachDecided(events), NEW k \in 0 .. Len(events)
  PROVE  ViewsOK(SubSeq(events, 1, k), After(events, k))
<1>. DEFINE n == Len(events)
            Bad == {m \in 0 .. n : ~ViewsOK(SubSeq(events, 1, m), After(events, m))}
<1>1. PICK S : events \in Seq(S)
  BY DEF StreamOK
<1>2. n \in Nat
  BY <1>1
<1>3. ASSUME Bad # {} PROVE FALSE
  <2>1. PICK m \in Bad : \A i \in Bad : m <= i
    <3>1. Bad \in SUBSET Nat
      BY <1>2
    <3>. HIDE DEF Bad
    <3>. QED
      BY <1>3, <3>1, LeastElement
  <2>2. m # 0
    <3>1. SubSeq(events, 1, 0) = <<>>
      BY <1>1
    <3>. QED
      BY <1>1, <3>1, AfterNothing, EmptyChart, NoLines DEF ViewsOK
  <2>3. m \in 1 .. n /\ m - 1 \in 0 .. n /\ m - 1 < m
    BY <1>2, <2>2
  <2>4. m - 1 \notin Bad
    <3>1. m \in Nat
      BY <1>2
    <3>. HIDE DEF Bad
    <3>. QED
      BY <2>1, <2>3, <3>1
  <2>5. PICK past : past = SubSeq(events, 1, m - 1)
    OBVIOUS
  <2>6. PICK s : s = After(events, m - 1)
    OBVIOUS
  <2>7. ChartOK(past, s) /\ LinesOK(past, s) /\ Reached(s)
    BY <2>3, <2>4, <2>5, <2>6, AfterReached DEF ViewsOK
  <2>8. PICK c \in Commands, at \in Times : events[m] \in Decide(s, c, at)
    BY <2>3, <2>6 DEF EachDecided
  <2>9. After(events, m) = ApplyEvent(s, events[m])
    BY <1>1, <2>3, <2>6, AfterOneMore
  <2>10. /\ past \in Seq(S) /\ events[m] \in S
         /\ SubSeq(events, 1, m) = Append(past, events[m])
    BY <1>1, <2>3, <2>5
  <2>11. ViewsOK(SubSeq(events, 1, m), After(events, m))
    BY <2>7, <2>8, <2>9, <2>10, ChartStep, LinesStep DEF ViewsOK
  <2>. QED
    BY <2>11
<1>. QED
  BY <1>3

(* Whatever the instant, the scrubber's state and the chart beside it.     *)
LEMMA ChartIsOfTheState ==
  ASSUME NEW events, StreamOK(events), EachDecided(events), events # <<>>
  PROVE  ChartAgrees(events)
<1>. SUFFICES ASSUME NEW instant \in Times
              PROVE  LET chart == Chart(events, instant)
                         reply == StateAt(events, instant)
                         s     == reply.state
                     IN  IF reply.boundary = "BEFORE_FIRST_EVENT"
                           THEN chart.readings = <<>> /\ chart.markers = <<>>
                         ELSE /\ chart.summary.alerts = s.breaches
                              /\ s.latest = (IF chart.readings = <<>> THEN NULL
                                             ELSE Last(chart.readings).payload.value)
                              /\ Len(chart.markers)
                                   = 1 + Cardinality({t \in Stages : s.confirmed[t] # NULL})
  BY DEF ChartAgrees
<1>1. PICK k \in 0 .. Len(events) :
        /\ EventsUntil(events, instant) = SubSeq(events, 1, k)
        /\ Len(SubSeq(events, 1, k)) = k
  BY PastIsPrefix
<1>2. PICK past : past = SubSeq(events, 1, k)
  OBVIOUS
<1>3. PICK u : u = After(events, k)
  OBVIOUS
<1>4. ChartOK(past, u) /\ u = Replay(past) /\ EventsUntil(events, instant) = past
  BY <1>1, <1>2, <1>3, ViewsAfter DEF ViewsOK, After
<1>5. PICK chart : chart = Chart(events, instant)
  OBVIOUS
<1>6. /\ chart.readings = Readings(past) /\ chart.summary.alerts = Len(Alerts(past))
      /\ chart.markers = OfTypes(past, Marking)
  BY <1>4, <1>5 DEF Chart, Figures, Marking
<1>7. PICK reply : reply = StateAt(events, instant)
  OBVIOUS
<1>8. /\ reply.boundary = "BEFORE_FIRST_EVENT" <=> past = <<>>
      /\ past # <<>> => reply.state = u
  BY <1>4, <1>7 DEF StateAt
<1>9. CASE past = <<>>
  <2>1. Readings(past) = <<>> /\ OfTypes(past, Marking) = <<>>
    BY <1>9, NoneOfTypes DEF Readings
  <2>. QED
    BY <1>5, <1>6, <1>7, <1>8, <1>9, <2>1
<1>10. CASE past # <<>>
  BY <1>4, <1>5, <1>6, <1>7, <1>8, <1>10 DEF ChartOK
<1>. QED
  BY <1>9, <1>10

(* The lines of the report join up, from the plan made first to the one in *)
(* force.                                                                  *)
LEMMA LinesAreOfTheState ==
  ASSUME NEW events, StreamOK(events), EachDecided(events)
  PROVE  LinesJoinUp(events)
<1>1. PICK s : s = Replay(events)
  OBVIOUS
<1>2. PICK changes : changes = ScheduleChanges(events)
  OBVIOUS
<1>3. LinesOK(events, s)
  <2>1. /\ events \in Seq(Range(events)) /\ Len(events) \in 0 .. Len(events)
        /\ SubSeq(events, 1, Len(events)) = events
    BY DEF StreamOK
  <2>2. ViewsOK(events, After(events, Len(events)))
    BY <2>1, ViewsAfter
  <2>. QED
    BY <1>1, <2>1, <2>2, AfterAll DEF ViewsOK
<1>4. CASE s.plan = NULL
  <2>1. changes = <<>>
    BY <1>2, <1>3, <1>4 DEF LinesOK
  <2>2. DOMAIN changes = {}
    BY <2>1
  <2>. QED
    BY <1>2, <2>2 DEF LinesJoinUp
<1>5. CASE s.plan # NULL
  <2>1. LinesJoin(s.originalPlan, changes, s.plan)
    BY <1>2, <1>3, <1>5 DEF LinesOK
  <2>2. DOMAIN changes = 1 .. Len(changes)
    BY <2>1 DEF LinesJoin
  <2>. QED
    BY <1>1, <1>2, <2>1, <2>2 DEF LinesJoinUp, LinesJoin
<1>. QED
  BY <1>4, <1>5


-----------------------------------------------------------------------------
(* The figures of the dashboard.                                           *)

Recorded == {a \in Aggregates : log[a] # <<>>}

(* However many identifiers there are, finitely many have been used.       *)
FinitelyMany == IsFiniteSet(Recorded)

LEMMA RecordedIsFinite == Spec => []FinitelyMany
<1>1. Init => FinitelyMany
  <2>1. Init => Recorded = {}
    BY DEF Init, Recorded
  <2>. QED
    BY <2>1, FS_EmptySet DEF FinitelyMany
<1>2. ASSUME Inv, FinitelyMany, [Next]_log
      PROVE  FinitelyMany'
  <2>1. CASE UNCHANGED log
    <3>1. Recorded' = Recorded
      BY <2>1 DEF Recorded
    <3>. QED
      BY <1>2, <3>1 DEF FinitelyMany
  <2>2. ASSUME NEW a \in Aggregates, NEW c \in Commands, NEW at \in Times, Record(a, c, at)
        PROVE  FinitelyMany'
    <3>1. PICK event \in Decide(Replay(log[a]), c, at) :
            log' = [log EXCEPT ![a] = Append(log[a], event)]
      BY <2>2 DEF Record
    <3>2. \A b \in Aggregates \ {a} : log'[b] = log[b]
      BY <1>2, <3>1 DEF Inv
    <3>3. Recorded' \in SUBSET (Recorded \cup {a})
      BY <3>2 DEF Recorded
    <3>4. IsFiniteSet(Recorded \cup {a})
      BY <1>2, FS_AddElement DEF FinitelyMany
    <3>. QED
      BY <3>3, <3>4, FS_Subset DEF FinitelyMany
  <2>. QED
    BY <1>2, <2>1, <2>2 DEF Next
<1>. QED
  BY <1>1, <1>2, LedgerInvariance, PTL DEF Spec

(* Sets without a common element count up to their union.                  *)
LEMMA Disjoint ==
  ASSUME NEW S, IsFiniteSet(S), NEW T, IsFiniteSet(T), S \cap T = {}
  PROVE  /\ IsFiniteSet(S \cup T)
         /\ Cardinality(S \cup T) = Cardinality(S) + Cardinality(T)
<1>1. Cardinality(S \cap T) = 0
  BY FS_EmptySet
<1>2. Cardinality(S) \in Nat /\ Cardinality(T) \in Nat
  BY FS_CardinalityType
<1>3. /\ IsFiniteSet(S \cup T)
      /\ Cardinality(S \cup T) = Cardinality(S) + Cardinality(T) - Cardinality(S \cap T)
  BY FS_Union
<1>. QED
  BY <1>1, <1>2, <1>3

(* Every shipment is in one of the four buckets, and no shipment in two.   *)
LEMMA BucketsAddUp ==
  ASSUME NEW S, IsFiniteSet(S), NEW ships, DOMAIN ships = S,
         \A a \in S : ships[a].currentState \in ShipmentStates
  PROVE  Cardinality(S) = ByState(ships)["CREATED"] + ByState(ships)["IN_TRANSIT"]
                            + ByState(ships)["AT_PORT"] + ByState(ships)["UNLOADED"]
<1>. DEFINE in(state) == {a \in S : ships[a].currentState = state}
<1>1. /\ in("CREATED") \in SUBSET S /\ in("IN_TRANSIT") \in SUBSET S
      /\ in("AT_PORT") \in SUBSET S /\ in("UNLOADED") \in SUBSET S
  OBVIOUS
<1>2. /\ S = ((in("CREATED") \cup in("IN_TRANSIT")) \cup in("AT_PORT")) \cup in("UNLOADED")
      /\ in("CREATED") \cap in("IN_TRANSIT") = {}
      /\ (in("CREATED") \cup in("IN_TRANSIT")) \cap in("AT_PORT") = {}
      /\ ((in("CREATED") \cup in("IN_TRANSIT")) \cup in("AT_PORT")) \cap in("UNLOADED") = {}
  BY DEF ShipmentStates
<1>3. /\ ByState(ships)["CREATED"] = Cardinality(in("CREATED"))
      /\ ByState(ships)["IN_TRANSIT"] = Cardinality(in("IN_TRANSIT"))
      /\ ByState(ships)["AT_PORT"] = Cardinality(in("AT_PORT"))
      /\ ByState(ships)["UNLOADED"] = Cardinality(in("UNLOADED"))
  BY DEF ByState, ShipmentStates
<1>. HIDE DEF in
<1>4. PICK A, B, C, D : /\ A = in("CREATED") /\ B = in("IN_TRANSIT")
                        /\ C = in("AT_PORT") /\ D = in("UNLOADED")
  OBVIOUS
<1>5. IsFiniteSet(A) /\ IsFiniteSet(B) /\ IsFiniteSet(C) /\ IsFiniteSet(D)
  BY <1>1, <1>4, FS_Subset
<1>6. IsFiniteSet(A \cup B) /\ Cardinality(A \cup B) = Cardinality(A) + Cardinality(B)
  BY <1>2, <1>4, <1>5, Disjoint
<1>7. /\ IsFiniteSet((A \cup B) \cup C)
      /\ Cardinality((A \cup B) \cup C) = Cardinality(A \cup B) + Cardinality(C)
  BY <1>2, <1>4, <1>5, <1>6, Disjoint
<1>8. Cardinality(((A \cup B) \cup C) \cup D) = Cardinality((A \cup B) \cup C) + Cardinality(D)
  BY <1>2, <1>4, <1>5, <1>7, Disjoint
<1>9. Cardinality(S) = ((Cardinality(A) + Cardinality(B)) + Cardinality(C)) + Cardinality(D)
  BY <1>2, <1>4, <1>6, <1>7, <1>8
<1>. QED
  BY <1>3, <1>4, <1>9

(* Buckets and breaches, counted over all that has been recorded.          *)
LEMMA FiguresAreOfTheStates ==
  ASSUME FinitelyMany,
         \A a \in Aggregates : StreamOK(log[a]) /\ EachDecided(log[a])
  PROVE  FiguresAddUp
<1>. DEFINE ships == [a \in Recorded |-> Replay(log[a])]
            reports == [a \in Recorded |-> Report(log[a], Today)]
            figures == Metrics(ships)
<1>1. ASSUME NEW a \in Recorded
      PROVE  ChartOK(log[a], Replay(log[a])) /\ log[a] # <<>>
  <2>1. /\ StreamOK(log[a]) /\ EachDecided(log[a]) /\ log[a] # <<>>
    BY DEF Recorded
  <2>2. PICK events : events = log[a]
    OBVIOUS
  <2>3. /\ events \in Seq(Range(events)) /\ Len(events) \in 0 .. Len(events)
        /\ SubSeq(events, 1, Len(events)) = events
    BY <2>1, <2>2 DEF StreamOK
  <2>4. ViewsOK(SubSeq(events, 1, Len(events)), After(events, Len(events)))
    BY <2>1, <2>2, <2>3, ViewsAfter
  <2>. QED
    BY <2>1, <2>2, <2>3, <2>4, AfterAll DEF ViewsOK
<1>2. ASSUME NEW a \in Recorded
      PROVE  /\ Replay(log[a]).currentState \in ShipmentStates
             /\ Replay(log[a]).breaches = Len(Alerts(log[a]))
  BY <1>1 DEF ChartOK
<1>3. ASSUME NEW a \in Recorded
      PROVE  reports[a].figures.alerts = Len(Alerts(log[a]))
  <2>1. reports[a].figures = Figures(log[a])
    BY DEF Report
  <2>. QED
    BY <2>1 DEF Figures
<1>4. Cardinality(Recorded) = ByState(ships)["CREATED"] + ByState(ships)["IN_TRANSIT"]
                                + ByState(ships)["AT_PORT"] + ByState(ships)["UNLOADED"]
  <2>1. DOMAIN ships = Recorded /\ \A a \in Recorded : ships[a].currentState \in ShipmentStates
    BY <1>2
  <2>. HIDE DEF ships
  <2>. QED
    BY <2>1, BucketsAddUp DEF FinitelyMany
<1>5. /\ figures.total = Cardinality(Recorded) /\ figures.byState = ByState(ships)
      /\ figures.breaches = SumFunction([a \in Recorded |-> ships[a].breaches])
  <2>1. DOMAIN ships = Recorded
    OBVIOUS
  <2>. HIDE DEF ships
  <2>. QED
    BY <2>1 DEF Metrics
<1>6. [a \in Recorded |-> ships[a].breaches]
        = [a \in Recorded |-> reports[a].figures.alerts]
  <2>1. \A a \in Recorded : ships[a].breaches = reports[a].figures.alerts
    BY <1>2, <1>3
  <2>. HIDE DEF ships, reports
  <2>. QED
    BY <2>1
<1>7. figures.breaches = SumFunction([a \in Recorded |-> reports[a].figures.alerts])
  <2>. HIDE DEF figures, ships, reports
  <2>. QED
    BY <1>5, <1>6
<1>. QED
  BY <1>4, <1>5, <1>7 DEF FiguresAddUp, Recorded

-----------------------------------------------------------------------------
(* Chart, scrubber, report and dashboard do not contradict one another: of *)
(* every stream and at every instant the scrubber's label, the chart's     *)
(* counts and the report's lines are those of the states its events fold   *)
(* to, and the dashboard's figures are theirs added up.                    *)
THEOREM ViewsNeverContradict == QueriesSpec => []ViewsAgree
<1>1. QueriesInv /\ FinitelyMany => ViewsAgree
  <2>. SUFFICES ASSUME QueriesInv, FinitelyMany
                PROVE  ViewsAgree
    OBVIOUS
  <2>1. \A a \in Aggregates : StreamOK(log[a]) /\ EachDecided(log[a])
    BY DEF QueriesInv, Inv
  <2>2. ASSUME NEW a \in Aggregates, log[a] # <<>>
        PROVE  BoundaryIsTold(log[a]) /\ ChartAgrees(log[a]) /\ LinesJoinUp(log[a])
    BY <2>1, <2>2, BoundaryIsOfTheState, ChartIsOfTheState, LinesAreOfTheState
  <2>3. FiguresAddUp
    BY <2>1, FiguresAreOfTheStates
  <2>. QED
    BY <2>2, <2>3 DEF ViewsAgree
<1>. QED
  BY <1>1, QueriesInvariance, SurroundsTheLedger, RecordedIsFinite, PTL
=============================================================================
