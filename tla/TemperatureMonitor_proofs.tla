----------------------- MODULE TemperatureMonitor_proofs -----------------------
(***************************************************************************)
(* The temperature monitor, for any number of processes and shipments, any *)
(* interval and feed, and whatever fails: timers are those the entries     *)
(* name, and automatic readings are in order, spaced and inside the window.*)
(*                                                                         *)
(* The argument for the readings: a pass plans its slots from the stream as*)
(* it read it, and says so with the version it expects.  Streams only grow,*)
(* so while a stream is at that version it is the very stream the plan was *)
(* made from, and the plan stands; once it is not, what is left of the plan*)
(* is refused.  A reading of the pass itself moves both on by one.         *)
(***************************************************************************)
EXTENDS TemperatureMonitor, SequenceTheorems, TLAPS

Kinds == {"created", "moved", "unloaded", "archived", "restored", "reading"}

EventRecords == [kind : Kinds, at : Nat, recordedAt : Nat, auto : BOOLEAN]

Modes == {"down", "starting", "running", "stopping"}

LiveTimers == [shipment : Shipments, at : Int]

Samples ==
  [phase : {"loaded", "asking", "answered"}, by : {"timer", "sweep"}, asOf : Nat,
   version : Nat, slots : Seq(Nat), expected : Nat, latest : Nat \cup {NULL}]

Registering == [shipment : Shipments, version : Nat]

Sweeps == [todo : SUBSET Shipments, asOf : Nat, at : Shipments \cup {NULL}]

-----------------------------------------------------------------------------
(* The inductive invariant, by the part of the state each piece is about.  *)

(* Streams are dated in order and not in the future.                       *)
InOrder(events) ==
  \A i, j \in DOMAIN events : events[i].at <= now /\ (i < j => events[i].at <= events[j].at)

WorldOK ==
  /\ now \in Nat
  /\ stream \in [Shipments -> Seq(EventRecords)]
  /\ \A s \in Shipments : InOrder(stream[s])

(* No two entries of a process name the same handle.                       *)
NamedOnce ==
  \A p \in Processes : \A s, t \in Shipments :
    /\ s # t /\ entry[p][s] # NULL /\ entry[p][t] # NULL
    /\ entry[p][s].timer = entry[p][t].timer
    => entry[p][s].timer = NULL

EntriesOK ==
  /\ mode \in [Processes -> Modes]
  /\ entry \in [Processes -> [Shipments -> Entries \cup {NULL}]]
  /\ timers \in [Processes -> [Handles -> LiveTimers \cup {NULL}]]
  /\ TimersAreHeld
  /\ NamedOnce

(* A registration is of a live process, and holds a prefix of a stream.    *)
RegistrationsOK ==
  /\ registering \in [Processes -> [Tasks -> Registering \cup {NULL}]]
  /\ \A p \in Processes, r \in Tasks : registering[p][r] # NULL =>
       /\ mode[p] # "down"
       /\ registering[p][r].version <= Len(stream[registering[p][r].shipment])

SweepsOK ==
  /\ sweep \in [Processes -> Sweeps]
  /\ \A p \in Processes :
       /\ sweep[p].asOf <= now
       /\ sweep[p].todo # {} => mode[p] # "down"

(* What makes slots worth recording next in a stream.                      *)
Planned(events, slots) ==
  /\ IsMonitored(events)
  /\ slots[1] > LastAt(events)
  /\ \A i \in DOMAIN events :
       IsLatestReading(events, i) => slots[1] >= events[i].recordedAt + Interval
  /\ \A i \in DOMAIN slots : slots[i] <= now
  /\ \A i \in DOMAIN slots : i > 1 => slots[i] = slots[i - 1] + Interval

(* A pass holds a prefix of the stream; and while the stream is at the     *)
(* version it expects, its plan stands.                                    *)
SampleOK(p, s) ==
  LET task == sampling[p][s]
  IN  /\ mode[p] # "down"
      /\ task.asOf <= now
      /\ task.version <= Len(stream[s]) /\ task.expected <= Len(stream[s])
      /\ task.phase # "loaded" => stream[s] # <<>>
      /\ task.phase = "asking" => task.slots # <<>>
      /\ /\ task.phase # "loaded" /\ task.slots # <<>>
         /\ task.expected = Len(stream[s])
         => Planned(stream[s], task.slots)

SamplesOK ==
  /\ sampling \in [Processes -> [Shipments -> Samples \cup {NULL}]]
  /\ \A p \in Processes, s \in Shipments : sampling[p][s] # NULL => SampleOK(p, s)

MonitorInv ==
  /\ WorldOK /\ EntriesOK /\ RegistrationsOK /\ SweepsOK /\ SamplesOK
  /\ ObservationsAreSpaced /\ NothingAfterTheWindow

-----------------------------------------------------------------------------
(* Streams and slots.                                                      *)

LEMMA EventAt ==
  ASSUME NEW events \in Seq(EventRecords)
  PROVE  /\ Len(events) \in Nat /\ DOMAIN events = 1 .. Len(events)
         /\ events # <<>> => 1 \in DOMAIN events /\ Len(events) \in DOMAIN events
         /\ \A i \in DOMAIN events :
              /\ events[i] \in EventRecords
              /\ events[i].at \in Nat /\ events[i].recordedAt \in Nat
<1>1. Len(events) \in Nat /\ DOMAIN events = 1 .. Len(events)
  OBVIOUS
<1>2. events # <<>> => Len(events) >= 1
  OBVIOUS
<1>3. ASSUME NEW i \in DOMAIN events
      PROVE  events[i] \in EventRecords
  BY <1>1, ElementOfSeq
<1>. QED
  BY <1>1, <1>2, <1>3 DEF EventRecords

LEMMA LatestReading ==
  ASSUME NEW events \in Seq(EventRecords)
  PROVE  /\ LatestReadingAt(events) \in Nat \cup {NULL}
         /\ \A i \in DOMAIN events :
              IsLatestReading(events, i) => LatestReadingAt(events) = events[i].recordedAt
<1>1. ASSUME NEW i \in DOMAIN events, IsLatestReading(events, i)
      PROVE  LatestReadingAt(events) = events[i].recordedAt
  <2>1. ASSUME NEW j \in DOMAIN events, IsLatestReading(events, j)
        PROVE  j = i
    BY <1>1, <2>1 DEF IsLatestReading
  <2>2. (CHOOSE j \in DOMAIN events : IsLatestReading(events, j)) = i
    BY <1>1, <2>1
  <2>. QED
    BY <1>1, <2>2 DEF LatestReadingAt
<1>2. ASSUME NEW i \in DOMAIN events
      PROVE  events[i].recordedAt \in Nat
  BY EventAt
<1>3. CASE \E i \in DOMAIN events : IsLatestReading(events, i)
  BY <1>1, <1>2, <1>3
<1>4. CASE ~\E i \in DOMAIN events : IsLatestReading(events, i)
  BY <1>4 DEF LatestReadingAt
<1>. QED
  BY <1>1, <1>3, <1>4

LEMMA NextDue ==
  ASSUME NEW events \in Seq(EventRecords), events # <<>>, NEW latest \in Nat \cup {NULL}
  PROVE  /\ NextDueAt(events, latest) \in Nat
         /\ latest # NULL => NextDueAt(events, latest) = latest + Interval
<1>1. events[1].at \in Nat
  BY EventAt
<1>. QED
  BY <1>1, MonitorAssumption DEF NextDueAt

LEMMA RoundedUp ==
  ASSUME NEW a \in Nat, NEW d \in Nat \ {0}
  PROVE  /\ a \div d \in Nat
         /\ (a \div d) * d <= a /\ ((a \div d) + 1) * d > a
OBVIOUS

LEMMA FirstSlotIsNext ==
  ASSUME NEW events \in Seq(EventRecords), events # <<>>
  PROVE  /\ LastAt(events) \in Nat
         /\ FirstSlot(events) \in Nat
         /\ FirstSlot(events) > LastAt(events)
         /\ FirstSlot(events) >= NextDueAt(events, LatestReadingAt(events))
<1>. DEFINE due == NextDueAt(events, LatestReadingAt(events))
            behind == LastAt(events) - due
<1>1. due \in Nat
  BY LatestReading, NextDue
<1>2. LastAt(events) \in Nat
  BY EventAt DEF LastAt, Last
<1>3. CASE due > LastAt(events)
  BY <1>1, <1>2, <1>3 DEF FirstSlot
<1>4. CASE ~(due > LastAt(events))
  <2>1. behind \in Nat
    BY <1>1, <1>2, <1>4
  <2>2. FirstSlot(events) = due + (behind \div Interval + 1) * Interval
    BY <1>4 DEF FirstSlot
  <2>. HIDE DEF due
  <2>3. /\ (behind \div Interval + 1) * Interval \in Nat
        /\ (behind \div Interval + 1) * Interval > behind
    <3>1. Interval \in Nat \ {0}
      BY MonitorAssumption
    <3>2. behind \div Interval \in Nat /\ (behind \div Interval + 1) * Interval > behind
      BY <2>1, <3>1, RoundedUp
    <3>. QED
      BY <3>1, <3>2
  <2>. QED
    BY <1>1, <1>2, <2>2, <2>3 DEF due
<1>. QED
  BY <1>2, <1>3, <1>4

(* Due instants follow the last event and each other by an interval, and   *)
(* none is in the future of the pass.                                      *)
LEMMA SlotsAreDue ==
  ASSUME NEW events \in Seq(EventRecords), events # <<>>, NEW asOf \in Nat
  PROVE  LET slots == DueSlots(events, asOf)
         IN  /\ slots \in Seq(Nat)
             /\ slots # <<>> => slots[1] = FirstSlot(events)
             /\ \A i \in DOMAIN slots : slots[i] <= asOf
             /\ \A i \in DOMAIN slots : i > 1 => slots[i] = slots[i - 1] + Interval
<1>. DEFINE first == FirstSlot(events)
            count == SlotsUntil(first, asOf)
            n == Min({count, MaxCatchUp})
            slots == [i \in 1 .. n |-> first + (i - 1) * Interval]
<1>1. DueSlots(events, asOf) = slots
  BY DEF DueSlots
<1>2. first \in Nat /\ Interval \in Nat \ {0} /\ MaxCatchUp \in Nat \ {0}
  BY FirstSlotIsNext, MonitorAssumption
<1>. HIDE DEF first
<1>3. count \in Nat /\ (count > 0 => (count - 1) * Interval <= asOf - first)
  <2>1. CASE first > asOf
    BY <2>1 DEF SlotsUntil
  <2>2. CASE ~(first > asOf)
    <3>1. asOf - first \in Nat
      BY <1>2, <2>2
    <3>2. count = (asOf - first) \div Interval + 1
      BY <2>2 DEF SlotsUntil
    <3>. QED
      BY <1>2, <3>1, <3>2, RoundedUp
  <2>. QED
    BY <2>1, <2>2
<1>. HIDE DEF count
<1>4. n \in Nat /\ n <= count
  <2>1. CASE count <= MaxCatchUp
    <3>1. n = count
      BY <1>2, <1>3, <2>1 DEF Min
    <3>. QED
      BY <1>3, <3>1
  <2>2. CASE ~(count <= MaxCatchUp)
    <3>1. n = MaxCatchUp
      BY <1>2, <1>3, <2>2 DEF Min
    <3>. QED
      BY <1>2, <1>3, <2>2, <3>1
  <2>. QED
    BY <2>1, <2>2
<1>. HIDE DEF n
<1>5. ASSUME NEW i \in 1 .. n
      PROVE  (i - 1) * Interval \in Nat /\ (i - 1) * Interval <= (count - 1) * Interval
  <2>1. i - 1 \in Nat /\ count - 1 \in Nat /\ i - 1 <= count - 1
    BY <1>3, <1>4
  <2>. QED
    BY <1>2, <2>1
<1>6. ASSUME NEW i \in 1 .. n
      PROVE  slots[i] = first + (i - 1) * Interval /\ slots[i] \in Nat /\ slots[i] <= asOf
  <2>1. count > 0 /\ (count - 1) * Interval \in Int
    BY <1>2, <1>3, <1>4
  <2>. QED
    BY <1>2, <1>3, <1>5, <2>1
<1>7. slots \in Seq(Nat) /\ DOMAIN slots = 1 .. n
  BY <1>4, <1>6
<1>8. slots # <<>> => slots[1] = first
  <2>1. CASE n = 0
    BY <1>7, <2>1
  <2>2. CASE n # 0
    BY <1>2, <1>4, <1>6, <2>2
  <2>. QED
    BY <2>1, <2>2
<1>9. ASSUME NEW i \in 1 .. n, i > 1
      PROVE  slots[i] = slots[i - 1] + Interval
  <2>1. i - 1 \in 1 .. n /\ (i - 1) - 1 = i - 2 /\ i \in Int
    BY <1>4, <1>9
  <2>2. slots[i] = first + (i - 1) * Interval /\ slots[i - 1] = first + (i - 2) * Interval
    BY <2>1, <1>6
  <2>3. (i - 1) * Interval = (i - 2) * Interval + Interval
    BY <1>2, <2>1
  <2>. QED
    BY <1>2, <2>1, <2>2, <2>3, <1>5
<1>. QED
  <2>. HIDE DEF slots
  <2>. QED
    BY <1>1, <1>6, <1>7, <1>8, <1>9 DEF first
-----------------------------------------------------------------------------
(* Entries and timers.                                                     *)

(* The handle of a new timer is one no entry names and no timer has.       *)
LEMMA FreshIsFree ==
  ASSUME EntriesOK, NEW p \in Processes
  PROVE  /\ Fresh(p) \in Handles /\ Fresh(p) # NULL
         /\ timers[p][Fresh(p)] = NULL
         /\ \A s \in Shipments : entry[p][s] # NULL => entry[p][s].timer # Fresh(p)
<1>. DEFINE Free(h) ==
       timers[p][h] = NULL /\ \A s \in Shipments : entry[p][s] # NULL => entry[p][s].timer # h
            any == CHOOSE h \in Handles : TRUE
            named == [s \in Shipments |->
                        IF entry[p][s] # NULL /\ entry[p][s].timer # NULL
                          THEN entry[p][s].timer ELSE any]
<1>1. any \in Handles
  BY MonitorAssumption
<1>2. ASSUME NEW s \in Shipments, entry[p][s] # NULL
      PROVE  entry[p][s] \in Entries /\ entry[p][s].timer \in Handles \cup {NULL}
  <2>1. entry[p][s] \in Entries
    BY <1>2 DEF EntriesOK
  <2>. QED
    BY <2>1 DEF Entries
<1>3. named \in [Shipments -> Handles]
  BY <1>1, <1>2
<1>4. PICK h \in Handles : \A s \in Shipments : named[s] # h
  <2>. HIDE DEF named
  <2>. QED
    BY <1>3, MonitorAssumption
<1>5. h # NULL
  BY MonitorAssumption
<1>6. ASSUME NEW s \in Shipments, entry[p][s] # NULL
      PROVE  entry[p][s].timer # h
  BY <1>4, <1>5, <1>6
<1>7. timers[p][h] = NULL
  <2>1. SUFFICES ASSUME timers[p][h] # NULL
                 PROVE  FALSE
    OBVIOUS
  <2>2. timers[p][h].shipment \in Shipments
    BY <2>1 DEF EntriesOK, LiveTimers
  <2>. QED
    BY <1>6, <2>1, <2>2 DEF EntriesOK, TimersAreHeld
<1>8. Free(h)
  BY <1>6, <1>7
<1>9. Fresh(p) = CHOOSE k \in Handles : Free(k)
  BY DEF Fresh
<1>. HIDE DEF Free
<1>10. Fresh(p) \in Handles /\ Free(Fresh(p))
  BY <1>8, <1>9
<1>. QED
  BY <1>10, MonitorAssumption DEF Free

LEMMA EntriesKept ==
  ASSUME EntriesOK, UNCHANGED <<mode, entry, timers>>
  PROVE  EntriesOK'
BY DEF EntriesOK, TimersAreHeld, NamedOnce, Up

(* An entry is replaced or dropped, and the timer it named cleared; a new  *)
(* timer is one that the new entry names.                                  *)
Replaces(p, s, new, live) ==
  /\ new \in Entries \cup {NULL} /\ live \in [Handles -> LiveTimers \cup {NULL}]
  /\ entry' = [entry EXCEPT ![p][s] = new]
  /\ timers' = [timers EXCEPT ![p] = live]
  /\ UNCHANGED mode
  /\ \A h \in Handles : live[h] # NULL =>
       \/ /\ live[h] = timers[p][h]
          /\ ~(entry[p][s] # NULL /\ entry[p][s].timer = h)
       \/ live[h].shipment = s /\ Up(p) /\ new # NULL /\ new.timer = h
  /\ new # NULL =>
       \/ new.timer = NULL
       \/ \A t \in Shipments : entry[p][t] # NULL => entry[p][t].timer # new.timer

LEMMA EntryReplaced ==
  ASSUME EntriesOK, NEW p \in Processes, NEW s \in Shipments, NEW new, NEW live,
         Replaces(p, s, new, live)
  PROVE  EntriesOK'
<1>. USE DEF Replaces
<1>1. mode' \in [Processes -> Modes]
  BY DEF EntriesOK
<1>2. entry' \in [Processes -> [Shipments -> Entries \cup {NULL}]]
  BY DEF EntriesOK
<1>3. timers' \in [Processes -> [Handles -> LiveTimers \cup {NULL}]]
  BY DEF EntriesOK
<1>4. /\ timers'[p] = live
      /\ \A q \in Processes : q # p => timers'[q] = timers[q] /\ entry'[q] = entry[q]
      /\ entry'[p][s] = new
      /\ \A t \in Shipments : t # s => entry'[p][t] = entry[p][t]
  BY DEF EntriesOK
<1>5. TimersAreHeld'
  <2>1. SUFFICES ASSUME NEW q \in Processes, NEW h \in Handles, timers'[q][h] # NULL
                 PROVE  /\ Up(q)'
                        /\ entry'[q][timers'[q][h].shipment] # NULL
                        /\ entry'[q][timers'[q][h].shipment].timer = h
    BY DEF TimersAreHeld
  <2>2. CASE q # p
    BY <1>4, <2>1, <2>2 DEF EntriesOK, TimersAreHeld, Up
  <2>3. CASE q = p /\ live[h] = timers[p][h] /\ ~(entry[p][s] # NULL /\ entry[p][s].timer = h)
    <3>1. timers[p][h] # NULL /\ timers[p][h].shipment \in Shipments
      BY <1>4, <2>1, <2>3 DEF EntriesOK, LiveTimers
    <3>2. timers[p][h].shipment # s
      BY <2>3, <3>1 DEF EntriesOK, TimersAreHeld
    <3>. QED
      BY <1>4, <2>3, <3>1, <3>2 DEF EntriesOK, TimersAreHeld, Up
  <2>4. CASE q = p /\ live[h].shipment = s /\ Up(p) /\ new # NULL /\ new.timer = h
    BY <1>4, <2>4 DEF Up
  <2>. QED
    BY <1>4, <2>1, <2>2, <2>3, <2>4
<1>6. NamedOnce'
  <2>1. SUFFICES ASSUME NEW q \in Processes, NEW t \in Shipments, NEW u \in Shipments,
                        t # u, entry'[q][t] # NULL, entry'[q][u] # NULL,
                        entry'[q][t].timer = entry'[q][u].timer
                 PROVE  entry'[q][t].timer = NULL
    BY DEF NamedOnce
  <2>2. CASE q # p
    BY <1>4, <2>1, <2>2 DEF EntriesOK, NamedOnce
  <2>3. CASE q = p /\ t # s /\ u # s
    BY <1>4, <2>1, <2>3 DEF EntriesOK, NamedOnce
  <2>4. CASE q = p /\ t = s
    BY <1>4, <2>1, <2>4
  <2>5. CASE q = p /\ u = s
    BY <1>4, <2>1, <2>5
  <2>. QED
    BY <2>2, <2>3, <2>4, <2>5
<1>. QED
  BY <1>1, <1>2, <1>3, <1>5, <1>6 DEF EntriesOK

LEMMA ClearedTimers ==
  ASSUME EntriesOK, NEW p \in Processes, NEW s \in Shipments
  PROVE  /\ Cleared(p, s) \in [Handles -> LiveTimers \cup {NULL}]
         /\ \A h \in Handles : Cleared(p, s)[h] # NULL =>
              /\ Cleared(p, s)[h] = timers[p][h]
              /\ ~(entry[p][s] # NULL /\ entry[p][s].timer = h)
BY DEF Cleared, EntriesOK

LEMMA ReleaseKeeps ==
  ASSUME EntriesOK, NEW p \in Processes, NEW s \in Shipments, Release(p, s), UNCHANGED mode
  PROVE  EntriesOK'
<1>1. /\ entry' = [entry EXCEPT ![p][s] = NULL]
      /\ timers' = [timers EXCEPT ![p] = Cleared(p, s)]
  BY DEF Release
<1>2. Replaces(p, s, NULL, Cleared(p, s))
  BY <1>1, ClearedTimers DEF Replaces
<1>. QED
  BY <1>2, EntryReplaced

LEMMA ScheduleKeeps ==
  ASSUME EntriesOK, NEW p \in Processes, NEW s \in Shipments, NEW dueAt \in Int,
         ScheduleNext(p, s, dueAt), mode[p] # "down", UNCHANGED mode
  PROVE  EntriesOK'
<1>1. CASE AlreadyScheduled(p, s, dueAt) /\ UNCHANGED <<entry, timers>>
  BY <1>1, EntriesKept
<1>2. CASE /\ mode[p] # "stopping"
           /\ entry' = [entry EXCEPT ![p][s] = [dueAt |-> dueAt, timer |-> Fresh(p)]]
           /\ timers' = [timers EXCEPT ![p] =
                [Cleared(p, s) EXCEPT ![Fresh(p)] = [shipment |-> s, at |-> dueAt]]]
  <2>. DEFINE new == [dueAt |-> dueAt, timer |-> Fresh(p)]
              live == [Cleared(p, s) EXCEPT ![Fresh(p)] = [shipment |-> s, at |-> dueAt]]
  <2>1. new \in Entries /\ new # NULL /\ new.timer = Fresh(p)
    BY FreshIsFree, MonitorAssumption DEF Entries
  <2>2. [shipment |-> s, at |-> dueAt] \in LiveTimers
    BY DEF LiveTimers
  <2>3. live \in [Handles -> LiveTimers \cup {NULL}]
    BY <2>2, ClearedTimers
  <2>4. Up(p)
    BY <1>2 DEF EntriesOK, Modes, Up
  <2>5. \A t \in Shipments : entry[p][t] # NULL => entry[p][t].timer # new.timer
    BY <2>1, FreshIsFree
  <2>6. ASSUME NEW h \in Handles, live[h] # NULL
        PROVE  \/ /\ live[h] = timers[p][h]
                  /\ ~(entry[p][s] # NULL /\ entry[p][s].timer = h)
               \/ live[h].shipment = s /\ Up(p) /\ new # NULL /\ new.timer = h
    <3>1. CASE h = Fresh(p)
      <4>1. live[h] = [shipment |-> s, at |-> dueAt]
        BY <3>1, ClearedTimers
      <4>. QED
        BY <2>1, <2>4, <3>1, <4>1
    <3>2. CASE h # Fresh(p)
      <4>1. live[h] = Cleared(p, s)[h]
        BY <3>2, ClearedTimers
      <4>. QED
        BY <2>6, <4>1, ClearedTimers
    <3>. QED
      BY <3>1, <3>2
  <2>7. /\ entry' = [entry EXCEPT ![p][s] = new]
        /\ timers' = [timers EXCEPT ![p] = live]
    BY <1>2
  <2>. HIDE DEF new, live
  <2>8. Replaces(p, s, new, live)
    BY <2>1, <2>3, <2>5, <2>6, <2>7 DEF Replaces
  <2>. QED
    BY <2>8, EntryReplaced
<1>3. CASE /\ entry' = [entry EXCEPT ![p][s] = [dueAt |-> dueAt, timer |-> NULL]]
           /\ timers' = [timers EXCEPT ![p] = Cleared(p, s)]
  <2>1. /\ [dueAt |-> dueAt, timer |-> NULL] \in Entries
        /\ [dueAt |-> dueAt, timer |-> NULL].timer = NULL
    BY DEF Entries
  <2>2. Replaces(p, s, [dueAt |-> dueAt, timer |-> NULL], Cleared(p, s))
    BY <1>3, <2>1, ClearedTimers DEF Replaces
  <2>. QED
    BY <2>2, EntryReplaced
<1>. QED
  BY <1>1, <1>2, <1>3 DEF ScheduleNext
-----------------------------------------------------------------------------
(* Streams grow by one event at a time.                                    *)

(* The two properties, of one stream.                                      *)
Spaced(events) ==
  \A i, j \in DOMAIN events :
    /\ i < j /\ events[j].auto => events[i].at < events[j].at
    /\ /\ i < j /\ events[i].kind = "reading" /\ events[j].auto
       /\ \A k \in i + 1 .. j - 1 : events[k].kind # "reading"
       => events[j].at >= events[i].recordedAt + Interval

Windowed(events) ==
  \A j \in DOMAIN events : events[j].auto => IsMonitored(SubSeq(events, 1, j - 1))

LEMMA PropertiesByStream ==
  /\ ObservationsAreSpaced <=> \A s \in Shipments : Spaced(stream[s])
  /\ NothingAfterTheWindow <=> \A s \in Shipments : Windowed(stream[s])
BY DEF ObservationsAreSpaced, NothingAfterTheWindow, Spaced, Windowed

(* An automatic event is one that was worth recording then.                *)
Warranted(events, event) ==
  /\ IsMonitored(events)
  /\ event.at > LastAt(events)
  /\ \A i \in DOMAIN events :
       IsLatestReading(events, i) => event.at >= events[i].recordedAt + Interval

LEMMA AppendedEvents ==
  ASSUME NEW events \in Seq(EventRecords), NEW event \in EventRecords
  PROVE  LET longer == Append(events, event)
         IN  /\ longer \in Seq(EventRecords) /\ longer # <<>>
             /\ Len(longer) = Len(events) + 1 /\ DOMAIN longer = 1 .. Len(events) + 1
             /\ \A i \in 1 .. Len(events) : longer[i] = events[i]
             /\ longer[Len(events) + 1] = event
             /\ SubSeq(longer, 1, Len(events)) = events
             /\ \A j \in 1 .. Len(events) : SubSeq(longer, 1, j - 1) = SubSeq(events, 1, j - 1)
             /\ LastAt(longer) = event.at
<1>. DEFINE longer == Append(events, event)
<1>1. /\ longer \in Seq(EventRecords) /\ longer # <<>>
      /\ Len(longer) = Len(events) + 1 /\ DOMAIN longer = 1 .. Len(events) + 1
      /\ \A i \in 1 .. Len(events) : longer[i] = events[i]
      /\ longer[Len(events) + 1] = event
  BY AppendProperties
<1>2. SubSeq(longer, 1, Len(events)) = events
  BY AppendProperties
<1>3. ASSUME NEW j \in 1 .. Len(events)
      PROVE  SubSeq(longer, 1, j - 1) = SubSeq(events, 1, j - 1)
  BY <1>1
<1>4. LastAt(longer) = event.at
  BY <1>1 DEF LastAt, Last
<1>. QED
  BY <1>1, <1>2, <1>3, <1>4

LEMMA AppendKeepsOrder ==
  ASSUME now \in Nat, NEW events \in Seq(EventRecords), NEW event \in EventRecords,
         InOrder(events), event.at <= now, events # <<>> => LastAt(events) <= event.at
  PROVE  InOrder(Append(events, event))
<1>. DEFINE longer == Append(events, event)
            n == Len(events)
<1>0. n \in Nat /\ event.at \in Nat
  BY DEF EventRecords
<1>1. SUFFICES ASSUME NEW i \in DOMAIN longer, NEW j \in DOMAIN longer
               PROVE  longer[i].at <= now /\ (i < j => longer[i].at <= longer[j].at)
  BY DEF InOrder
<1>2. i \in 1 .. n + 1 /\ j \in 1 .. n + 1
  BY AppendedEvents
<1>3. ASSUME NEW k \in 1 .. n
      PROVE  longer[k] = events[k] /\ events[k].at \in Nat /\ events[k].at <= event.at
  <2>1. longer[k] = events[k]
    BY AppendedEvents
  <2>2. k \in DOMAIN events /\ n \in DOMAIN events /\ events # <<>>
    BY EventAt
  <2>3. events[k].at \in Nat /\ events[n].at \in Nat /\ events[k].at <= events[n].at
    BY <1>0, <2>2, EventAt DEF InOrder
  <2>4. LastAt(events) = events[n].at
    BY DEF LastAt, Last
  <2>. QED
    BY <1>0, <2>1, <2>2, <2>3, <2>4
<1>4. longer[n + 1] = event
  BY AppendedEvents
<1>5. CASE i \in 1 .. n /\ j \in 1 .. n
  BY <1>3, <1>5, EventAt DEF InOrder
<1>6. CASE i \in 1 .. n /\ j = n + 1
  BY <1>0, <1>3, <1>4, <1>6
<1>7. CASE i = n + 1
  BY <1>0, <1>2, <1>4, <1>7
<1>. QED
  BY <1>0, <1>2, <1>5, <1>6, <1>7

LEMMA AppendKeepsSpacing ==
  ASSUME now \in Nat, NEW events \in Seq(EventRecords), NEW event \in EventRecords,
         InOrder(events), Spaced(events), Windowed(events),
         event.auto => Warranted(events, event)
  PROVE  Spaced(Append(events, event)) /\ Windowed(Append(events, event))
<1>. DEFINE longer == Append(events, event)
            n == Len(events)
<1>0. n \in Nat /\ event.at \in Nat
  BY DEF EventRecords
<1>1. /\ DOMAIN longer = 1 .. n + 1 /\ longer[n + 1] = event
      /\ \A k \in 1 .. n : longer[k] = events[k] /\ k \in DOMAIN events
  BY AppendedEvents, EventAt
<1>. HIDE DEF longer
<1>2. ASSUME NEW i \in DOMAIN longer, NEW j \in DOMAIN longer, i < j, longer[j].auto
      PROVE  /\ longer[i].at < longer[j].at
             /\ /\ longer[i].kind = "reading"
                /\ \A k \in i + 1 .. j - 1 : longer[k].kind # "reading"
                => longer[j].at >= longer[i].recordedAt + Interval
  <2>1. i \in 1 .. n /\ longer[i] = events[i] /\ i \in DOMAIN events /\ j \in 1 .. n + 1
    BY <1>0, <1>1, <1>2
  <2>2. CASE j \in 1 .. n
    <3>1. longer[j] = events[j] /\ j \in DOMAIN events
      BY <1>1, <2>2
    <3>2. \A k \in i + 1 .. j - 1 : longer[k] = events[k]
      BY <1>0, <1>1, <2>1, <2>2
    <3>. QED
      BY <1>2, <2>1, <3>1, <3>2 DEF Spaced
  <2>3. CASE j = n + 1
    <3>1. longer[j] = event /\ Warranted(events, event)
      BY <1>1, <1>2, <2>3
    <3>2. events[i].at <= LastAt(events) /\ events[i].at \in Nat /\ LastAt(events) \in Nat
      <4>1. n \in DOMAIN events /\ events[n].at \in Nat /\ events[i].at \in Nat
        BY <1>0, <2>1, EventAt
      <4>. QED
        BY <1>0, <2>1, <4>1 DEF InOrder, LastAt, Last
    <3>3. ASSUME longer[i].kind = "reading",
                 \A k \in i + 1 .. j - 1 : longer[k].kind # "reading"
          PROVE  longer[j].at >= longer[i].recordedAt + Interval
      <4>1. \A k \in i + 1 .. n : longer[k] = events[k]
        BY <1>0, <1>1, <2>1
      <4>2. IsLatestReading(events, i)
        BY <1>0, <2>1, <2>3, <3>3, <4>1 DEF IsLatestReading
      <4>. QED
        BY <2>1, <3>1, <4>2 DEF Warranted
    <3>. QED
      BY <1>0, <2>1, <3>1, <3>2, <3>3 DEF Warranted
  <2>. QED
    BY <1>0, <2>1, <2>2, <2>3
<1>3. Spaced(longer)
  BY <1>2 DEF Spaced
<1>4. ASSUME NEW j \in DOMAIN longer, longer[j].auto
      PROVE  IsMonitored(SubSeq(longer, 1, j - 1))
  <2>1. CASE j \in 1 .. n
    <3>1. SubSeq(longer, 1, j - 1) = SubSeq(events, 1, j - 1)
      BY <2>1, AppendedEvents DEF longer
    <3>. QED
      BY <1>1, <1>4, <2>1, <3>1 DEF Windowed
  <2>2. CASE j = n + 1
    <3>1. SubSeq(longer, 1, j - 1) = events
      BY <1>0, <2>2, AppendedEvents DEF longer
    <3>. QED
      BY <1>1, <1>4, <2>2, <3>1 DEF Warranted
  <2>. QED
    BY <1>0, <1>1, <2>1, <2>2
<1>. QED
  BY <1>3, <1>4 DEF Windowed, longer

(* A reading leaves the window open and is the latest one.                 *)
LEMMA ReadingAppended ==
  ASSUME NEW events \in Seq(EventRecords), NEW event \in EventRecords,
         event.kind = "reading", IsMonitored(events)
  PROVE  LET longer == Append(events, event)
         IN  /\ IsMonitored(longer)
             /\ \A i \in DOMAIN longer : IsLatestReading(longer, i) => i = Len(events) + 1
<1>. DEFINE longer == Append(events, event)
            n == Len(events)
<1>1. /\ DOMAIN longer = 1 .. n + 1 /\ longer[n + 1] = event /\ n \in Nat
      /\ \A k \in 1 .. n : longer[k] = events[k]
      /\ DOMAIN events = 1 .. n /\ Len(longer) = n + 1 /\ longer # <<>>
  BY AppendedEvents, EventAt
<1>. HIDE DEF longer
<1>2. ~Unloaded(longer)
  BY <1>1 DEF IsMonitored, Unloaded
<1>3. ~Archived(longer)
  <2>1. SUFFICES ASSUME NEW i \in DOMAIN longer, longer[i].kind = "archived"
                 PROVE  \E j \in i + 1 .. n + 1 : longer[j].kind = "restored"
    BY <1>1 DEF Archived
  <2>2. i \in 1 .. n /\ events[i].kind = "archived"
    BY <1>1, <2>1
  <2>3. PICK j \in i + 1 .. n : events[j].kind = "restored"
    BY <1>1, <2>2 DEF IsMonitored, Archived
  <2>4. j \in 1 .. n /\ j \in i + 1 .. n + 1
    BY <1>1, <2>2
  <2>. QED
    BY <1>1, <2>3, <2>4
<1>4. ASSUME NEW i \in DOMAIN longer, IsLatestReading(longer, i)
      PROVE  i = n + 1
  <2>1. SUFFICES ASSUME i # n + 1
                 PROVE  FALSE
    OBVIOUS
  <2>2. n + 1 \in i + 1 .. n + 1
    BY <1>1, <2>1
  <2>. QED
    BY <1>1, <1>4, <2>2 DEF IsLatestReading
<1>. QED
  BY <1>1, <1>2, <1>3, <1>4 DEF IsMonitored, longer
-----------------------------------------------------------------------------
(* What a step leaves alone.                                               *)

LEMMA WorldKept ==
  ASSUME MonitorInv, UNCHANGED world
  PROVE  WorldOK' /\ ObservationsAreSpaced' /\ NothingAfterTheWindow'
<1>. USE DEF MonitorInv, world
<1>1. WorldOK'
  BY DEF WorldOK, InOrder
<1>2. ObservationsAreSpaced'
  BY DEF ObservationsAreSpaced
<1>3. NothingAfterTheWindow'
  BY DEF NothingAfterTheWindow
<1>. QED
  BY <1>1, <1>2, <1>3

(* No process goes down.                                                   *)
StayUp == \A p \in Processes : mode[p] # "down" => mode'[p] # "down"

LEMMA RegistrationsKept ==
  ASSUME RegistrationsOK, StayUp, UNCHANGED <<registering, stream>>
  PROVE  RegistrationsOK'
BY DEF RegistrationsOK, StayUp

LEMMA SweepsKept ==
  ASSUME SweepsOK, StayUp, UNCHANGED <<sweep, now>>
  PROVE  SweepsOK'
BY DEF SweepsOK, StayUp

LEMMA SampleKept ==
  ASSUME NEW p \in Processes, NEW s \in Shipments, SampleOK(p, s), StayUp,
         sampling'[p][s] = sampling[p][s], UNCHANGED <<stream, now>>
  PROVE  SampleOK(p, s)'
BY DEF SampleOK, StayUp, Planned

LEMMA SamplesKept ==
  ASSUME SamplesOK, StayUp, UNCHANGED <<sampling, stream, now>>
  PROVE  SamplesOK'
BY SampleKept DEF SamplesOK

(* One sample is begun, goes on or ends; the others are as they were.      *)
LEMMA SampleReplaced ==
  ASSUME SamplesOK, StayUp, UNCHANGED world, NEW p \in Processes, NEW s \in Shipments,
         NEW new, new \in Samples \cup {NULL},
         sampling' = [sampling EXCEPT ![p][s] = new],
         new # NULL => SampleOK(p, s)'
  PROVE  SamplesOK'
<1>1. sampling' \in [Processes -> [Shipments -> Samples \cup {NULL}]]
  BY DEF SamplesOK
<1>2. ASSUME NEW q \in Processes, NEW t \in Shipments, sampling'[q][t] # NULL
      PROVE  SampleOK(q, t)'
  <2>1. CASE q = p /\ t = s
    BY <1>2, <2>1 DEF SamplesOK
  <2>2. CASE ~(q = p /\ t = s)
    <3>1. sampling'[q][t] = sampling[q][t]
      BY <2>2 DEF SamplesOK
    <3>. QED
      BY <1>2, <3>1, SampleKept DEF SamplesOK, world
  <2>. QED
    BY <2>1, <2>2
<1>. QED
  BY <1>1, <1>2 DEF SamplesOK

-----------------------------------------------------------------------------
(* The world.                                                              *)

LEMMA MonitorInit == Init => MonitorInv
<1>. SUFFICES ASSUME Init PROVE MonitorInv
  OBVIOUS
<1>. USE DEF Init
<1>1. \A s \in Shipments :
        /\ stream[s] \in Seq(EventRecords)
        /\ \A i \in DOMAIN stream[s] : i = 1 /\ stream[s][i].at = 0 /\ ~stream[s][i].auto
  <2>1. Operated("created", 0) \in EventRecords
    BY DEF Operated, EventRecords, Kinds
  <2>. HIDE DEF EventRecords
  <2>. QED
    BY <2>1 DEF Operated
<1>2. WorldOK
  <2>1. stream \in [Shipments -> Seq(EventRecords)]
    BY <1>1
  <2>. QED
    BY <1>1, <2>1 DEF WorldOK, InOrder
<1>3. EntriesOK
  BY DEF EntriesOK, Modes, NoEntries, NoTimers, TimersAreHeld, NamedOnce
<1>4. RegistrationsOK
  BY DEF RegistrationsOK, NoRegistrations
<1>5. SweepsOK
  BY <1>2 DEF SweepsOK, Sweeps, NoSweep, WorldOK
<1>6. SamplesOK
  BY DEF SamplesOK, NoEntries
<1>7. ObservationsAreSpaced /\ NothingAfterTheWindow
  BY <1>1 DEF ObservationsAreSpaced, NothingAfterTheWindow
<1>. QED
  BY <1>2, <1>3, <1>4, <1>5, <1>6, <1>7 DEF MonitorInv

LEMMA TickStep ==
  ASSUME MonitorInv, Tick
  PROVE  MonitorInv'
<1>. USE DEF Tick, MonitorInv, monitors
<1>0. now \in Nat /\ now' = now + 1
  BY DEF WorldOK
<1>1. WorldOK'
  <2>1. ASSUME NEW s \in Shipments, NEW i \in DOMAIN stream[s]
        PROVE  stream[s][i].at \in Nat
    BY EventAt DEF WorldOK
  <2>. QED
    BY <1>0, <2>1 DEF WorldOK, InOrder
<1>2. EntriesOK'
  BY EntriesKept
<1>3. RegistrationsOK'
  BY RegistrationsKept DEF StayUp
<1>4. SweepsOK'
  BY <1>0 DEF SweepsOK, Sweeps
<1>5. SamplesOK'
  <2>1. ASSUME NEW p \in Processes, NEW s \in Shipments, sampling[p][s] # NULL
        PROVE  SampleOK(p, s)'
    <3>1. sampling[p][s] \in Samples
      BY <2>1 DEF SamplesOK
    <3>2. sampling[p][s].asOf \in Nat /\ sampling[p][s].slots \in Seq(Nat)
      BY <3>1 DEF Samples
    <3>3. \A i \in DOMAIN sampling[p][s].slots : sampling[p][s].slots[i] \in Nat
      BY <3>2, ElementOfSeq
    <3>. QED
      BY <1>0, <2>1, <3>2, <3>3 DEF SamplesOK, SampleOK, Planned
  <2>. QED
    BY <2>1 DEF SamplesOK
<1>6. ObservationsAreSpaced' /\ NothingAfterTheWindow'
  BY DEF ObservationsAreSpaced, NothingAfterTheWindow
<1>. QED
  BY <1>1, <1>2, <1>3, <1>4, <1>5, <1>6

(* An event is recorded: streams stay in order, what has been planned for  *)
(* an older version is void, and nothing else is touched.                  *)
LEMMA EventRecorded ==
  ASSUME MonitorInv, NEW s \in Shipments, NEW event \in EventRecords,
         stream' = [stream EXCEPT ![s] = Append(@, event)], UNCHANGED <<now, mode>>,
         event.at <= now, stream[s] # <<>> => LastAt(stream[s]) <= event.at,
         event.auto => Warranted(stream[s], event)
  PROVE  /\ WorldOK' /\ ObservationsAreSpaced' /\ NothingAfterTheWindow'
         /\ UNCHANGED registering => RegistrationsOK'
         /\ \A p \in Processes, t \in Shipments :
              /\ sampling[p][t] # NULL
              /\ sampling'[p][t] = sampling[p][t]
              => SampleOK(p, t)'
<1>. USE DEF MonitorInv
<1>1. /\ now \in Nat /\ stream[s] \in Seq(EventRecords)
      /\ InOrder(stream[s])
      /\ Spaced(stream[s]) /\ Windowed(stream[s])
  BY PropertiesByStream DEF WorldOK
<1>2. /\ stream'[s] = Append(stream[s], event)
      /\ \A t \in Shipments : t # s => stream'[t] = stream[t]
      /\ stream'[s] \in Seq(EventRecords) /\ stream'[s] # <<>>
      /\ Len(stream[s]) \in Nat /\ Len(stream'[s]) = Len(stream[s]) + 1
  BY <1>1, AppendedEvents DEF WorldOK
<1>3. WorldOK'
  <2>1. stream' \in [Shipments -> Seq(EventRecords)]
    BY <1>2 DEF WorldOK
  <2>2. InOrder(stream'[s])
    BY <1>1, <1>2, AppendKeepsOrder
  <2>3. \A t \in Shipments : InOrder(stream'[t])
    BY <1>2, <2>2 DEF WorldOK
  <2>4. \A t \in Shipments : InOrder(stream[t])'
    BY <2>3 DEF InOrder
  <2>. QED
    BY <1>1, <2>1, <2>4 DEF WorldOK
<1>4. ObservationsAreSpaced' /\ NothingAfterTheWindow'
  <2>1. Spaced(stream'[s]) /\ Windowed(stream'[s])
    BY <1>1, <1>2, AppendKeepsSpacing
  <2>2. \A t \in Shipments : Spaced(stream'[t]) /\ Windowed(stream'[t])
    BY <1>2, <2>1, PropertiesByStream
  <2>. QED
    BY <2>2 DEF ObservationsAreSpaced, NothingAfterTheWindow, Spaced, Windowed
<1>5. \A t \in Shipments : Len(stream[t]) \in Nat /\ Len(stream[t]) <= Len(stream'[t])
  <2>1. \A t \in Shipments : Len(stream[t]) \in Nat
    BY EventAt DEF WorldOK
  <2>. QED
    BY <1>2, <2>1
<1>6. ASSUME UNCHANGED registering
      PROVE  RegistrationsOK'
  <2>1. ASSUME NEW p \in Processes, NEW r \in Tasks, registering[p][r] # NULL
        PROVE  /\ registering[p][r].shipment \in Shipments
               /\ registering[p][r].version \in Nat
    BY <2>1 DEF RegistrationsOK, Registering
  <2>2. ASSUME NEW p \in Processes, NEW r \in Tasks, registering[p][r] # NULL
        PROVE  registering[p][r].version <= Len(stream'[registering[p][r].shipment])
    <3>1. registering[p][r].version <= Len(stream[registering[p][r].shipment])
      BY <2>2 DEF RegistrationsOK
    <3>. QED
      BY <1>5, <2>1, <2>2, <3>1
  <2>. QED
    BY <1>6, <2>2 DEF RegistrationsOK
<1>7. ASSUME NEW p \in Processes, NEW t \in Shipments, sampling[p][t] # NULL,
             sampling'[p][t] = sampling[p][t]
      PROVE  SampleOK(p, t)'
  <2>1. SampleOK(p, t) /\ sampling[p][t] \in Samples
    BY <1>7 DEF SamplesOK
  <2>2. sampling[p][t].version \in Nat /\ sampling[p][t].expected \in Nat
    BY <2>1 DEF Samples
  <2>3. CASE t = s
    <3>1. sampling[p][t].expected # Len(stream'[t])
      BY <1>2, <2>1, <2>2, <2>3 DEF SampleOK
    <3>. QED
      BY <1>2, <1>5, <1>7, <2>1, <2>2, <2>3, <3>1 DEF SampleOK
  <2>4. CASE t # s
    BY <1>2, <1>7, <2>1, <2>4 DEF SampleOK, Planned
  <2>. QED
    BY <2>3, <2>4
<1>. QED
  BY <1>3, <1>4, <1>6, <1>7

LEMMA IssueStep ==
  ASSUME MonitorInv, NEW s \in Shipments, NEW kind \in Kinds, NEW recordedAt \in Nat,
         Issue(s, kind, recordedAt)
  PROVE  MonitorInv'
<1>. USE DEF MonitorInv
<1>. DEFINE event == [Operated(kind, now) EXCEPT !.recordedAt = recordedAt]
<1>1. now \in Nat /\ stream[s] \in Seq(EventRecords)
  BY DEF WorldOK
<1>2. event \in EventRecords /\ event.at = now /\ ~event.auto
  BY <1>1 DEF Operated, EventRecords
<1>3. stream[s] # <<>> => LastAt(stream[s]) <= now
  BY <1>1, EventAt DEF WorldOK, InOrder, LastAt, Last
<1>4. /\ stream' = [stream EXCEPT ![s] = Append(@, event)]
      /\ UNCHANGED <<now, mode, entry, timers, registering, sweep, sampling>>
  BY DEF Issue, monitors
<1>. HIDE DEF event
<1>5. /\ WorldOK' /\ ObservationsAreSpaced' /\ NothingAfterTheWindow'
      /\ RegistrationsOK'
      /\ \A p \in Processes, t \in Shipments : sampling[p][t] # NULL => SampleOK(p, t)'
  <2>1. event.at <= now
    BY <1>1, <1>2
  <2>. QED
    BY <1>2, <1>3, <1>4, <2>1, EventRecorded
<1>6. SamplesOK'
  BY <1>4, <1>5 DEF SamplesOK
<1>7. EntriesOK' /\ SweepsOK'
  BY <1>4, EntriesKept, SweepsKept DEF StayUp
<1>. QED
  BY <1>5, <1>6, <1>7

LEMMA OperateStep ==
  ASSUME MonitorInv, NEW s \in Shipments, Operate(s)
  PROVE  MonitorInv'
<1>1. now \in Nat
  BY DEF MonitorInv, WorldOK
<1>2. CASE EnterReading(s)
  <2>1. PICK lag \in Lags : lag <= now /\ Issue(s, "reading", now - lag)
    BY <1>2 DEF EnterReading
  <2>2. now - lag \in Nat /\ "reading" \in Kinds
    BY <1>1, <2>1, MonitorAssumption DEF Kinds
  <2>. QED
    BY <2>1, <2>2, IssueStep
<1>3. CASE \E kind \in Kinds : Issue(s, kind, now)
  BY <1>1, <1>3, IssueStep
<1>4. \/ EnterReading(s) \/ \E kind \in Kinds : Issue(s, kind, now)
  BY DEF Operate, CreateShipment, MoveShipment, UnloadShipment, ArchiveShipment,
         RestoreShipment, Kinds
<1>. QED
  BY <1>2, <1>3, <1>4
-----------------------------------------------------------------------------
(* Starting, stopping, dying.                                              *)

LEMMA LifeStep ==
  ASSUME MonitorInv, NEW p \in Processes, Start(p) \/ BeginLoop(p)
  PROVE  MonitorInv'
<1>. USE DEF MonitorInv, world
<1>1. /\ \E m \in {"starting", "running"} : mode' = [mode EXCEPT ![p] = m]
      /\ UNCHANGED <<world, entry, timers, sampling, registering, sweep>>
  BY DEF Start, BeginLoop
<1>2. StayUp
  BY <1>1 DEF EntriesOK, StayUp
<1>3. EntriesOK'
  BY <1>1 DEF EntriesOK, Modes, TimersAreHeld, NamedOnce, Up
<1>. QED
  BY <1>1, <1>2, <1>3, WorldKept, RegistrationsKept, SweepsKept, SamplesKept

LEMMA StopStep ==
  ASSUME MonitorInv, NEW p \in Processes, Stop(p)
  PROVE  MonitorInv'
<1>. USE DEF MonitorInv, world
<1>1. /\ mode' = [mode EXCEPT ![p] = "stopping"]
      /\ UNCHANGED <<world, sampling, registering, sweep>>
  BY DEF Stop
<1>2. StayUp
  BY <1>1 DEF EntriesOK, StayUp
<1>3. EntriesOK'
  <2>1. mode' \in [Processes -> Modes]
    BY <1>1 DEF EntriesOK, Modes
  <2>2. ASSUME NEW s \in Shipments
        PROVE  entry'[p][s] = IF entry[p][s] = NULL THEN NULL
                              ELSE [entry[p][s] EXCEPT !.timer = NULL]
    BY DEF Stop, EntriesOK
  <2>3. ASSUME NEW s \in Shipments, entry[p][s] # NULL
        PROVE  entry'[p][s] \in Entries /\ entry'[p][s].timer = NULL
    <3>1. entry[p][s] \in Entries
      BY <2>3 DEF EntriesOK
    <3>. QED
      BY <2>2, <2>3, <3>1 DEF Entries
  <2>4. entry' \in [Processes -> [Shipments -> Entries \cup {NULL}]]
    <3>1. entry' = [entry EXCEPT ![p] =
            [s \in Shipments |-> IF entry[p][s] = NULL THEN NULL
                                 ELSE [entry[p][s] EXCEPT !.timer = NULL]]]
      BY DEF Stop
    <3>2. [s \in Shipments |-> IF entry[p][s] = NULL THEN NULL
                               ELSE [entry[p][s] EXCEPT !.timer = NULL]]
            \in [Shipments -> Entries \cup {NULL}]
      BY <2>2, <2>3
    <3>. QED
      BY <3>1, <3>2 DEF EntriesOK
  <2>5. timers' \in [Processes -> [Handles -> LiveTimers \cup {NULL}]]
    BY DEF Stop, EntriesOK
  <2>6. \A h \in Handles : timers'[p][h] = NULL
    <3>1. ASSUME NEW h \in Handles, timers[p][h] # NULL
          PROVE  \E s \in Shipments : entry[p][s] # NULL /\ entry[p][s].timer = h
      <4>1. timers[p][h].shipment \in Shipments
        BY <3>1 DEF EntriesOK, LiveTimers
      <4>. QED
        BY <3>1, <4>1 DEF EntriesOK, TimersAreHeld
    <3>2. \A h \in Handles : timers'[p][h] =
            IF \E s \in Shipments : entry[p][s] # NULL /\ entry[p][s].timer = h
              THEN NULL ELSE timers[p][h]
      BY DEF Stop, EntriesOK
    <3>. QED
      BY <3>1, <3>2
  <2>7. \A q \in Processes : q # p =>
          mode'[q] = mode[q] /\ timers'[q] = timers[q] /\ entry'[q] = entry[q]
    BY DEF Stop, EntriesOK
  <2>8. TimersAreHeld'
    BY <2>6, <2>7 DEF EntriesOK, TimersAreHeld, Up
  <2>9. NamedOnce'
    <3>1. SUFFICES ASSUME NEW q \in Processes, NEW s \in Shipments, NEW t \in Shipments,
                          s # t, entry'[q][s] # NULL, entry'[q][t] # NULL,
                          entry'[q][s].timer = entry'[q][t].timer
                   PROVE  entry'[q][s].timer = NULL
      BY DEF NamedOnce
    <3>2. CASE q = p
      BY <2>2, <2>3, <3>1, <3>2
    <3>3. CASE q # p
      BY <2>7, <3>1, <3>3 DEF EntriesOK, NamedOnce
    <3>. QED
      BY <3>2, <3>3
  <2>. QED
    BY <2>1, <2>4, <2>5, <2>8, <2>9 DEF EntriesOK
<1>. QED
  BY <1>1, <1>2, <1>3, WorldKept, RegistrationsKept, SweepsKept, SamplesKept

LEMMA GoneStep ==
  ASSUME MonitorInv, NEW p \in Processes, Gone(p)
  PROVE  MonitorInv'
<1>. USE DEF MonitorInv, Gone, world
<1>1. EntriesOK'
  BY DEF EntriesOK, Modes, NoEntries, NoTimers, TimersAreHeld, NamedOnce, Up
<1>2. RegistrationsOK'
  <2>1. NoRegistrations \in [Tasks -> Registering \cup {NULL}]
    BY DEF NoRegistrations
  <2>2. registering' \in [Processes -> [Tasks -> Registering \cup {NULL}]]
    BY <2>1 DEF RegistrationsOK
  <2>3. ASSUME NEW q \in Processes, NEW r \in Tasks, registering'[q][r] # NULL
        PROVE  q # p
    BY <2>3 DEF RegistrationsOK, NoRegistrations
  <2>. QED
    BY <2>2, <2>3 DEF RegistrationsOK, EntriesOK
<1>3. SweepsOK'
  <2>1. NoSweep \in Sweeps /\ NoSweep.asOf = 0 /\ NoSweep.todo = {}
    BY DEF NoSweep, Sweeps
  <2>. QED
    BY <2>1 DEF SweepsOK, EntriesOK, WorldOK
<1>4. SamplesOK'
  <2>1. sampling' \in [Processes -> [Shipments -> Samples \cup {NULL}]]
    BY DEF SamplesOK, NoEntries
  <2>2. ASSUME NEW q \in Processes, NEW s \in Shipments, sampling'[q][s] # NULL
        PROVE  SampleOK(q, s)'
    <3>1. q # p
      BY <2>2 DEF SamplesOK, NoEntries
    <3>2. sampling'[q] = sampling[q] /\ mode'[q] = mode[q]
      BY <3>1 DEF SamplesOK, EntriesOK
    <3>. QED
      BY <2>2, <3>2 DEF SamplesOK, SampleOK, Planned
  <2>. QED
    BY <2>1, <2>2 DEF SamplesOK
<1>. QED
  BY <1>1, <1>2, <1>3, <1>4, WorldKept

-----------------------------------------------------------------------------
(* Registration.                                                           *)

LEMMA BeginRegistrationKeeps ==
  ASSUME MonitorInv, NEW p \in Processes, NEW r \in Tasks, NEW s \in Shipments,
         BeginRegistration(p, r, s), mode[p] # "down", UNCHANGED <<world, mode>>
  PROVE  RegistrationsOK'
<1>. USE DEF MonitorInv, world
<1>1. [shipment |-> s, version |-> Len(stream[s])] \in Registering
  BY EventAt DEF WorldOK, Registering
<1>2. registering' = [registering EXCEPT ![p][r] =
                        [shipment |-> s, version |-> Len(stream[s])]]
  BY DEF BeginRegistration
<1>3. registering' \in [Processes -> [Tasks -> Registering \cup {NULL}]]
  BY <1>1, <1>2 DEF RegistrationsOK
<1>4. ASSUME NEW q \in Processes, NEW k \in Tasks, registering'[q][k] # NULL
      PROVE  /\ mode'[q] # "down"
             /\ registering'[q][k].version <= Len(stream'[registering'[q][k].shipment])
  <2>1. CASE q = p /\ k = r
    <3>1. registering'[q][k] = [shipment |-> s, version |-> Len(stream[s])]
      BY <1>2, <2>1 DEF RegistrationsOK
    <3>2. Len(stream[s]) \in Nat
      BY EventAt DEF WorldOK
    <3>. QED
      BY <2>1, <3>1, <3>2
  <2>2. CASE ~(q = p /\ k = r)
    <3>1. registering'[q][k] = registering[q][k]
      BY <1>2, <2>2 DEF RegistrationsOK
    <3>. QED
      BY <1>4, <3>1 DEF RegistrationsOK
  <2>. QED
    BY <2>1, <2>2
<1>. QED
  BY <1>3, <1>4 DEF RegistrationsOK

LEMMA NotificationStep ==
  ASSUME MonitorInv, NEW p \in Processes, NEW s \in Shipments, HandleNotification(p, s)
  PROVE  MonitorInv'
<1>. USE DEF MonitorInv
<1>1. Up(p) /\ mode[p] # "down" /\ StayUp /\ UNCHANGED <<world, mode, sampling, sweep>>
  BY DEF HandleNotification, Up, StayUp
<1>2. CASE (\E r \in Registrations : BeginRegistration(p, r, s)) /\ UNCHANGED <<entry, timers>>
  BY <1>1, <1>2, BeginRegistrationKeeps, EntriesKept, WorldKept, SweepsKept, SamplesKept
     DEF Tasks, world
<1>3. CASE Release(p, s) /\ UNCHANGED registering
  BY <1>1, <1>3, ReleaseKeeps, RegistrationsKept, WorldKept, SweepsKept, SamplesKept DEF world
<1>. QED
  BY <1>2, <1>3 DEF HandleNotification

LEMMA ResumeStepKeeps ==
  ASSUME MonitorInv, NEW p \in Processes, NEW s \in Shipments, ResumeNext(p, s)
  PROVE  MonitorInv'
<1>. USE DEF MonitorInv
<1>1. /\ mode[p] # "down" /\ StayUp
      /\ UNCHANGED <<world, mode, entry, timers, sampling, sweep>>
  BY DEF ResumeNext, StayUp
<1>2. BeginRegistration(p, "resume", s) \/ UNCHANGED registering
  BY DEF ResumeNext
<1>3. RegistrationsOK'
  BY <1>1, <1>2, BeginRegistrationKeeps, RegistrationsKept DEF Tasks, world
<1>. QED
  BY <1>1, <1>3, EntriesKept, WorldKept, SweepsKept, SamplesKept DEF world

(* A prefix of a stream is one.                                            *)
LEMMA PrefixRead ==
  ASSUME WorldOK, NEW s \in Shipments, NEW version \in Nat, version <= Len(stream[s])
  PROVE  /\ At(s, version) \in Seq(EventRecords)
         /\ version = Len(stream[s]) => At(s, version) = stream[s]
<1>1. stream[s] \in Seq(EventRecords)
  BY DEF WorldOK
<1>2. ASSUME NEW i \in 1 .. version
      PROVE  stream[s][i] \in EventRecords
  BY <1>1, <1>2, EventAt
<1>3. At(s, version) = [i \in 1 .. version |-> stream[s][i]]
  BY <1>1 DEF At
<1>4. At(s, version) \in Seq(EventRecords)
  BY <1>2, <1>3
<1>5. version = Len(stream[s]) => At(s, version) = stream[s]
  BY <1>1 DEF At
<1>. QED
  BY <1>4, <1>5

LEMMA FinishRegistrationStep ==
  ASSUME MonitorInv, NEW p \in Processes, NEW r \in Tasks, FinishRegistration(p, r)
  PROVE  MonitorInv'
<1>. USE DEF MonitorInv
<1>. DEFINE task == registering[p][r]
            s == task.shipment
            events == At(s, task.version)
<1>1. task # NULL /\ UNCHANGED <<world, mode, sampling, sweep>>
  BY DEF FinishRegistration
<1>2. task \in Registering /\ mode[p] # "down" /\ task.version <= Len(stream[s])
  BY <1>1 DEF RegistrationsOK
<1>3. s \in Shipments /\ task.version \in Nat /\ StayUp
  BY <1>1, <1>2 DEF Registering, StayUp
<1>4. EntriesOK'
  <2>1. CASE IsMonitored(events) /\ ScheduleNext(p, s, NextDueAt(events, LatestReadingAt(events)))
    <3>1. events \in Seq(EventRecords) /\ events # <<>>
      BY <1>2, <1>3, <2>1, PrefixRead DEF IsMonitored
    <3>2. NextDueAt(events, LatestReadingAt(events)) \in Int
      BY <3>1, LatestReading, NextDue
    <3>. QED
      BY <1>1, <1>2, <1>3, <2>1, <3>2, ScheduleKeeps
  <2>2. CASE Release(p, s)
    BY <1>1, <1>3, <2>2, ReleaseKeeps
  <2>. QED
    BY <2>1, <2>2 DEF FinishRegistration
<1>5. RegistrationsOK'
  <2>1. registering' = [registering EXCEPT ![p][r] = NULL]
    BY DEF FinishRegistration
  <2>2. registering' \in [Processes -> [Tasks -> Registering \cup {NULL}]]
    BY <2>1 DEF RegistrationsOK
  <2>3. \A q \in Processes, k \in Tasks :
          registering'[q][k] # NULL => registering'[q][k] = registering[q][k]
    BY <2>1 DEF RegistrationsOK
  <2>. QED
    BY <1>1, <2>2, <2>3 DEF RegistrationsOK, world
<1>. QED
  BY <1>1, <1>3, <1>4, <1>5, WorldKept, SweepsKept, SamplesKept DEF world
-----------------------------------------------------------------------------
(* Sampling.                                                               *)

LEMMA SampleBegun ==
  ASSUME MonitorInv, NEW p \in Processes, NEW s \in Shipments, mode[p] # "down",
         NEW by \in {"timer", "sweep"}, NEW asOf \in Nat, asOf <= now,
         UNCHANGED <<world, mode>>,
         sampling' = [sampling EXCEPT ![p][s] = Sample(s, by, asOf)]
  PROVE  SamplesOK'
<1>. USE DEF MonitorInv, world
<1>. DEFINE task == Sample(s, by, asOf)
<1>1. stream[s] \in Seq(EventRecords) /\ Len(stream[s]) \in Nat /\ StayUp
  BY EventAt DEF WorldOK, StayUp
<1>2. /\ task \in Samples
      /\ task.phase = "loaded" /\ task.asOf = asOf /\ task.version = Len(stream[s])
      /\ task.expected = 0
  BY <1>1 DEF Sample, Samples
<1>3. sampling'[p][s] = task
  BY DEF SamplesOK
<1>. HIDE DEF task
<1>4. SampleOK(p, s)'
  BY <1>1, <1>2, <1>3 DEF SampleOK
<1>5. sampling' = [sampling EXCEPT ![p][s] = task]
  BY DEF task
<1>. QED
  BY <1>1, <1>2, <1>4, <1>5, SampleReplaced

LEMMA FireTimerStep ==
  ASSUME MonitorInv, NEW p \in Processes, NEW h \in Handles, FireTimer(p, h)
  PROVE  MonitorInv'
<1>. USE DEF MonitorInv
<1>. DEFINE s == timers[p][h].shipment
<1>1. /\ timers[p][h] # NULL
      /\ timers' = [timers EXCEPT ![p][h] = NULL]
      /\ UNCHANGED <<world, mode, entry, registering, sweep>>
  BY DEF FireTimer
<1>2. s \in Shipments /\ mode[p] # "down" /\ StayUp /\ now \in Nat
  <2>1. timers[p][h] \in LiveTimers
    BY <1>1 DEF EntriesOK
  <2>2. Up(p)
    BY <1>1 DEF EntriesOK, TimersAreHeld
  <2>. QED
    BY <1>1, <2>1, <2>2 DEF LiveTimers, Up, StayUp, WorldOK
<1>3. EntriesOK'
  <2>1. timers' \in [Processes -> [Handles -> LiveTimers \cup {NULL}]]
    BY <1>1 DEF EntriesOK
  <2>2. \A q \in Processes, k \in Handles :
          timers'[q][k] # NULL => timers'[q][k] = timers[q][k]
    BY <1>1 DEF EntriesOK
  <2>3. TimersAreHeld'
    BY <1>1, <2>2 DEF EntriesOK, TimersAreHeld, Up
  <2>. QED
    BY <1>1, <2>1, <2>3 DEF EntriesOK, NamedOnce
<1>4. SamplesOK'
  <2>1. \/ UNCHANGED sampling
        \/ sampling' = [sampling EXCEPT ![p][s] = Sample(s, "timer", now)]
    BY DEF FireTimer
  <2>. HIDE DEF s
  <2>2. now <= now
    BY <1>2
  <2>. QED
    BY <1>1, <1>2, <2>1, <2>2, SamplesKept, SampleBegun DEF world
<1>. QED
  BY <1>1, <1>2, <1>3, <1>4, WorldKept, RegistrationsKept, SweepsKept DEF world

LEMMA SweepReplaced ==
  ASSUME SweepsOK, NEW p \in Processes, NEW new \in Sweeps, UNCHANGED <<now, mode>>,
         new.asOf <= now, new.todo # {} => mode[p] # "down",
         sweep' = [sweep EXCEPT ![p] = new]
  PROVE  SweepsOK'
BY DEF SweepsOK

LEMMA RestOfSweep ==
  ASSUME WorldOK, SweepsOK, NEW p \in Processes, NEW s \in Shipments
  PROVE  /\ NoSweep \in Sweeps /\ NoSweep.asOf <= now /\ NoSweep.todo = {}
         /\ Rest(p, s) \in Sweeps
         /\ Rest(p, s).asOf <= now
         /\ Rest(p, s).todo \subseteq sweep[p].todo
<1>1. NoSweep \in Sweeps /\ NoSweep.asOf <= now /\ NoSweep.todo = {}
  BY DEF NoSweep, Sweeps, WorldOK
<1>2. sweep[p] \in Sweeps /\ sweep[p].asOf <= now
  BY DEF SweepsOK
<1>. HIDE DEF NoSweep
<1>3. /\ [sweep[p] EXCEPT !.todo = @ \ {s}, !.at = NULL] \in Sweeps
      /\ [sweep[p] EXCEPT !.todo = @ \ {s}, !.at = NULL].asOf = sweep[p].asOf
      /\ [sweep[p] EXCEPT !.todo = @ \ {s}, !.at = NULL].todo \subseteq sweep[p].todo
  BY <1>2 DEF Sweeps
<1>. QED
  BY <1>1, <1>2, <1>3 DEF Rest

LEMMA SweepStepKeeps ==
  ASSUME MonitorInv, NEW p \in Processes, SweepStep(p)
  PROVE  MonitorInv'
<1>. USE DEF MonitorInv
<1>1. UNCHANGED <<world, mode, entry, timers, registering>> /\ StayUp /\ now \in Nat
  BY DEF SweepStep, StartSweep, BreakSweep, VisitShipment, StayUp, WorldOK
<1>2. CASE StartSweep(p)
  <2>. DEFINE new == [todo |-> {s \in Shipments : stream[s] # <<>>}, asOf |-> now, at |-> NULL]
  <2>1. new \in Sweeps /\ new.asOf <= now
    BY <1>1 DEF Sweeps
  <2>2. sweep' = [sweep EXCEPT ![p] = new] /\ mode[p] # "down" /\ UNCHANGED sampling
    BY <1>2 DEF StartSweep
  <2>. HIDE DEF new
  <2>3. SweepsOK'
    BY <1>1, <2>1, <2>2, SweepReplaced DEF world
  <2>. QED
    BY <1>1, <2>2, <2>3, EntriesKept, WorldKept, RegistrationsKept, SamplesKept DEF world
<1>3. CASE BreakSweep(p)
  <2>1. sweep' = [sweep EXCEPT ![p] = NoSweep] /\ UNCHANGED sampling
    BY <1>3 DEF BreakSweep
  <2>2. NoSweep \in Sweeps /\ NoSweep.asOf <= now /\ NoSweep.todo = {}
    BY <1>1 DEF NoSweep, Sweeps
  <2>3. SweepsOK'
    BY <1>1, <2>1, <2>2, SweepReplaced DEF world
  <2>. QED
    BY <1>1, <2>1, <2>3, EntriesKept, WorldKept, RegistrationsKept, SamplesKept DEF world
<1>4. ASSUME NEW s \in Shipments, VisitShipment(p, s)
      PROVE  MonitorInv'
  <2>1. s \in sweep[p].todo /\ mode[p] # "down"
    BY <1>4 DEF VisitShipment, SweepsOK
  <2>2. CASE \E new \in {Rest(p, s), NoSweep} : sweep' = [sweep EXCEPT ![p] = new] /\ UNCHANGED sampling
    <3>1. SweepsOK'
      BY <1>1, <2>1, <2>2, RestOfSweep, SweepReplaced DEF world
    <3>. QED
      BY <1>1, <2>2, <3>1, EntriesKept, WorldKept, RegistrationsKept, SamplesKept DEF world
  <2>3. CASE /\ sweep' = [sweep EXCEPT ![p].at = s]
             /\ sampling' = [sampling EXCEPT ![p][s] = Sample(s, "sweep", sweep[p].asOf)]
    <3>1. SweepsOK'
      BY <1>1, <2>1, <2>3 DEF SweepsOK, Sweeps, world
    <3>2. sweep[p].asOf \in Nat /\ sweep[p].asOf <= now
      BY DEF SweepsOK, Sweeps
    <3>3. SamplesOK'
      BY <1>1, <2>1, <2>3, <3>2, SampleBegun
    <3>. QED
      BY <1>1, <3>1, <3>3, EntriesKept, WorldKept, RegistrationsKept DEF world
  <2>. QED
    BY <1>4, <2>2, <2>3 DEF VisitShipment
<1>. QED
  BY <1>2, <1>3, <1>4 DEF SweepStep

LEMMA LeaveKeeps ==
  ASSUME MonitorInv, NEW p \in Processes, NEW s \in Shipments, Leave(p, s),
         UNCHANGED <<world, mode>>
  PROVE  SweepsOK' /\ SamplesOK'
<1>. USE DEF MonitorInv, world
<1>1. StayUp
  BY DEF StayUp
<1>2. SamplesOK'
  BY <1>1, SampleReplaced DEF Leave
<1>3. SweepsOK'
  <2>1. \/ sweep' = [sweep EXCEPT ![p] = Rest(p, s)]
        \/ UNCHANGED sweep
    BY DEF Leave
  <2>2. Rest(p, s).todo # {} => mode[p] # "down"
    BY RestOfSweep DEF SweepsOK
  <2>. QED
    BY <1>1, <2>1, <2>2, RestOfSweep, SweepReplaced, SweepsKept
<1>. QED
  BY <1>2, <1>3

(* What a plan is made from.                                               *)
LEMMA PlanMade ==
  ASSUME MonitorInv, NEW s \in Shipments, NEW asOf \in Nat, asOf <= now,
         IsMonitored(stream[s]), DueSlots(stream[s], asOf) # <<>>
  PROVE  Planned(stream[s], DueSlots(stream[s], asOf))
<1>. DEFINE events == stream[s]
            slots == DueSlots(events, asOf)
<1>1. events \in Seq(EventRecords) /\ events # <<>> /\ now \in Nat
  BY DEF MonitorInv, WorldOK, IsMonitored
<1>. HIDE DEF events
<1>2. /\ slots \in Seq(Nat) /\ slots[1] = FirstSlot(events)
      /\ \A i \in DOMAIN slots : slots[i] <= asOf
      /\ \A i \in DOMAIN slots : i > 1 => slots[i] = slots[i - 1] + Interval
  BY <1>1, SlotsAreDue DEF events
<1>3. ASSUME NEW i \in DOMAIN slots
      PROVE  slots[i] <= now
  <2>1. slots[i] \in Nat
    BY <1>2, ElementOfSeq
  <2>. QED
    BY <1>1, <1>2, <2>1
<1>4. ASSUME NEW i \in DOMAIN events, IsLatestReading(events, i)
      PROVE  slots[1] >= events[i].recordedAt + Interval
  <2>1. LatestReadingAt(events) = events[i].recordedAt /\ events[i].recordedAt \in Nat
    BY <1>1, <1>4, LatestReading, EventAt
  <2>2. events[i].recordedAt # NULL
    BY <2>1, MonitorAssumption
  <2>3. NextDueAt(events, LatestReadingAt(events)) = events[i].recordedAt + Interval
    BY <1>1, <2>1, <2>2, NextDue
  <2>. QED
    BY <1>1, <1>2, <2>3, FirstSlotIsNext
<1>5. slots[1] > LastAt(events)
  BY <1>1, <1>2, FirstSlotIsNext
<1>. QED
  BY <1>2, <1>3, <1>4, <1>5 DEF Planned, events

LEMMA AssessStep ==
  ASSUME MonitorInv, NEW p \in Processes, NEW s \in Shipments, Assess(p, s)
  PROVE  MonitorInv'
<1>. USE DEF MonitorInv
<1>. DEFINE task == sampling[p][s]
            events == At(s, task.version)
            slots == DueSlots(events, task.asOf)
            latest == LatestReadingAt(events)
<1>1. task # NULL /\ UNCHANGED <<world, mode, registering>> /\ StayUp
  BY DEF Assess, InPhase, StayUp
<1>2. task \in Samples /\ SampleOK(p, s)
  BY <1>1 DEF SamplesOK
<1>3. /\ mode[p] # "down" /\ task.version \in Nat /\ task.version <= Len(stream[s])
      /\ task.asOf \in Nat /\ task.asOf <= now
  BY <1>2 DEF SampleOK, Samples
<1>4. events \in Seq(EventRecords) /\ (IsMonitored(events) => events # <<>>)
  BY <1>3, PrefixRead DEF IsMonitored
<1>5. latest \in Nat \cup {NULL}
  BY <1>4, LatestReading
<1>6. CASE Release(p, s) /\ Leave(p, s)
  BY <1>1, <1>6, ReleaseKeeps, LeaveKeeps, WorldKept, RegistrationsKept DEF world
<1>7. CASE IsMonitored(events) /\ ScheduleNext(p, s, NextDueAt(events, latest)) /\ Leave(p, s)
  <2>. HIDE DEF events, latest
  <2>1. NextDueAt(events, latest) \in Int
    BY <1>4, <1>5, <1>7, NextDue
  <2>2. EntriesOK'
    BY <1>1, <1>3, <1>7, <2>1, ScheduleKeeps
  <2>. QED
    BY <1>1, <1>7, <2>2, LeaveKeeps, WorldKept, RegistrationsKept DEF world
<1>8. CASE /\ IsMonitored(events) /\ slots # <<>>
           /\ sampling' = [sampling EXCEPT ![p][s] =
                [task EXCEPT !.phase = "asking", !.slots = slots,
                             !.expected = task.version, !.latest = latest]]
           /\ UNCHANGED <<entry, timers, sweep>>
  <2>1. slots \in Seq(Nat)
    BY <1>3, <1>4, <1>8, SlotsAreDue
  <2>. DEFINE new == [task EXCEPT !.phase = "asking", !.slots = slots,
                                  !.expected = task.version, !.latest = latest]
  <2>2. stream[s] # <<>> /\ Len(stream[s]) \in Nat
    <3>1. stream[s] \in Seq(EventRecords) /\ Len(stream[s]) \in Nat
      BY EventAt DEF WorldOK
    <3>2. task.version # 0
      BY <1>4, <1>8, <3>1 DEF At
    <3>. QED
      BY <1>3, <3>1, <3>2
  <2>3. task.version = Len(stream[s]) => Planned(stream[s], slots)
    BY <1>3, <1>8, PrefixRead, PlanMade
  <2>. HIDE DEF slots, latest, task
  <2>4. /\ new \in Samples
        /\ new.phase = "asking" /\ new.slots = slots /\ new.expected = task.version
        /\ new.version = task.version /\ new.asOf = task.asOf
    BY <1>2, <1>3, <1>5, <2>1 DEF Samples
  <2>. HIDE DEF new
  <2>5. sampling' = [sampling EXCEPT ![p][s] = new] /\ sampling'[p][s] = new
    BY <1>8 DEF task, new, SamplesOK
  <2>6. SampleOK(p, s)'
    BY <1>1, <1>3, <1>8, <2>2, <2>3, <2>4, <2>5 DEF SampleOK, Planned, world
  <2>7. SamplesOK'
    BY <1>1, <2>4, <2>5, <2>6, SampleReplaced
  <2>. QED
    BY <1>1, <1>8, <2>7, EntriesKept, WorldKept, RegistrationsKept, SweepsKept DEF world
<1>. QED
  BY <1>6, <1>7, <1>8 DEF Assess
(* A reading is recorded, and the rest of the plan is one for the stream   *)
(* with it.                                                                *)
LEMMA PlanGoesOn ==
  ASSUME now \in Nat, NEW events \in Seq(EventRecords), NEW event \in EventRecords,
         NEW slots \in Seq(Nat), Len(slots) > 1, Planned(events, slots),
         event.kind = "reading", event.at = slots[1], event.recordedAt <= slots[1]
  PROVE  Planned(Append(events, event), Tail(slots))
<1>. DEFINE longer == Append(events, event)
            rest == Tail(slots)
<1>1. /\ Interval \in Nat \ {0} /\ Len(slots) \in Nat
      /\ event.recordedAt \in Nat /\ slots[1] \in Nat
  BY MonitorAssumption, ElementOfSeq DEF EventRecords
<1>2. /\ DOMAIN slots = 1 .. Len(slots) /\ DOMAIN rest = 1 .. Len(slots) - 1
      /\ \A i \in 1 .. Len(slots) - 1 : rest[i] = slots[i + 1]
  BY <1>1, HeadTailProperties
<1>. HIDE DEF rest
<1>3. IsMonitored(longer) /\ LastAt(longer) = slots[1]
  BY ReadingAppended, AppendedEvents DEF Planned
<1>4. rest[1] = slots[1] + Interval
  <2>1. 2 \in DOMAIN slots /\ 1 \in 1 .. Len(slots) - 1 /\ 2 > 1
    BY <1>1, <1>2
  <2>2. slots[2] = slots[2 - 1] + Interval
    BY <2>1 DEF Planned
  <2>. QED
    BY <1>2, <2>1, <2>2
<1>5. ASSUME NEW i \in DOMAIN longer, IsLatestReading(longer, i)
      PROVE  rest[1] >= longer[i].recordedAt + Interval
  <2>1. i = Len(events) + 1
    BY <1>5, ReadingAppended DEF Planned
  <2>2. longer[i] = event
    BY <2>1, AppendedEvents
  <2>. QED
    BY <1>1, <1>4, <2>2
<1>6. ASSUME NEW i \in DOMAIN rest
      PROVE  rest[i] <= now /\ (i > 1 => rest[i] = rest[i - 1] + Interval)
  <2>1. i + 1 \in DOMAIN slots /\ rest[i] = slots[i + 1] /\ i + 1 > 1
    BY <1>1, <1>2
  <2>2. slots[i + 1] <= now /\ slots[i + 1] = slots[(i + 1) - 1] + Interval
    BY <2>1 DEF Planned
  <2>3. i > 1 => rest[i - 1] = slots[(i + 1) - 1]
    BY <1>1, <1>2
  <2>. QED
    BY <2>1, <2>2, <2>3
<1>7. rest[1] > LastAt(longer)
  BY <1>1, <1>3, <1>4
<1>. QED
  BY <1>3, <1>5, <1>6, <1>7 DEF Planned, rest

LEMMA TakenInTime ==
  ASSUME NEW slot \in Nat, NEW taken \in Answers(slot) \ {NULL}
  PROVE  taken \in Nat /\ taken <= slot
BY MonitorAssumption DEF Answers, SimulatedReadings, ExternalReadings

LEMMA RecordStep ==
  ASSUME MonitorInv, NEW p \in Processes, NEW s \in Shipments, Record(p, s)
  PROVE  MonitorInv'
<1>. USE DEF MonitorInv
<1>. DEFINE task == sampling[p][s]
            slot == Head(task.slots)
<1>1. /\ task # NULL /\ task.phase = "asking"
      /\ UNCHANGED <<now, mode, resume, entry, timers, registering, sweep>>
      /\ StayUp
  BY DEF Record, InPhase, StayUp
<1>2. task \in Samples /\ SampleOK(p, s)
  BY <1>1 DEF SamplesOK
<1>3. /\ mode[p] # "down" /\ stream[s] # <<>> /\ task.slots # <<>>
      /\ task.asOf <= now /\ task.asOf \in Nat
      /\ task.version \in Nat /\ task.version <= Len(stream[s])
      /\ task.expected \in Nat /\ task.expected <= Len(stream[s])
      /\ task.slots \in Seq(Nat)
  BY <1>1, <1>2 DEF SampleOK, Samples
<1>4. EntriesOK' /\ SweepsOK'
  BY <1>1, EntriesKept, SweepsKept
<1>5. CASE /\ sampling' = [sampling EXCEPT ![p][s] =
                [task EXCEPT !.phase = "answered", !.slots = <<>>]]
           /\ UNCHANGED stream
  <2>. DEFINE new == [task EXCEPT !.phase = "answered", !.slots = <<>>]
  <2>1. sampling' = [sampling EXCEPT ![p][s] = new]
    BY <1>5
  <2>. HIDE DEF task
  <2>2. /\ new \in Samples
        /\ new.phase = "answered" /\ new.slots = <<>> /\ new.expected = task.expected
        /\ new.version = task.version /\ new.asOf = task.asOf
    <3>1. <<>> \in Seq(Nat)
      OBVIOUS
    <3>. QED
      BY <1>2, <3>1 DEF Samples
  <2>. HIDE DEF new
  <2>3. sampling'[p][s] = new
    BY <2>1 DEF SamplesOK
  <2>4. SampleOK(p, s)'
    BY <1>1, <1>3, <1>5, <2>2, <2>3 DEF SampleOK
  <2>5. SamplesOK'
    BY <1>1, <1>5, <2>1, <2>2, <2>4, SampleReplaced DEF world
  <2>. QED
    BY <1>1, <1>4, <1>5, <2>5, WorldKept, RegistrationsKept DEF world
<1>6. ASSUME Accepts(stream[s], task.expected, slot),
             NEW taken \in Answers(slot) \ {NULL},
             stream' = [stream EXCEPT ![s] = Append(@,
                [kind |-> "reading", at |-> slot, recordedAt |-> taken, auto |-> TRUE])],
             sampling' = [sampling EXCEPT ![p][s] =
                [task EXCEPT !.phase = "answered", !.slots = Tail(task.slots),
                             !.latest = taken, !.expected = Len(stream[s]) + 1]]
      PROVE  MonitorInv'
  <2>. DEFINE event == [kind |-> "reading", at |-> slot, recordedAt |-> taken, auto |-> TRUE]
              rest == Tail(task.slots)
              new == [task EXCEPT !.phase = "answered", !.slots = rest,
                                  !.latest = taken, !.expected = Len(stream[s]) + 1]
  <2>1. Planned(stream[s], task.slots)
    BY <1>1, <1>2, <1>3, <1>6 DEF Accepts, SampleOK
  <2>2. /\ slot = task.slots[1] /\ slot \in Nat /\ 1 \in DOMAIN task.slots
        /\ rest \in Seq(Nat) /\ Len(task.slots) \in Nat /\ Len(rest) = Len(task.slots) - 1
        /\ Len(task.slots) > 0
    BY <1>3, HeadTailProperties
  <2>3. taken \in Nat /\ taken <= slot
    BY <2>2, TakenInTime
  <2>4. /\ event \in EventRecords /\ event.kind = "reading" /\ event.at = slot
        /\ event.recordedAt = taken /\ event.auto
    BY <2>2, <2>3 DEF EventRecords, Kinds
  <2>5. /\ stream[s] \in Seq(EventRecords) /\ Len(stream[s]) \in Nat /\ now \in Nat
        /\ LastAt(stream[s]) \in Nat
    BY <1>3, EventAt, FirstSlotIsNext DEF WorldOK
  <2>6. event.at <= now /\ Warranted(stream[s], event) /\ LastAt(stream[s]) <= event.at
    BY <2>1, <2>2, <2>4, <2>5 DEF Planned, Warranted
  <2>7. stream' = [stream EXCEPT ![s] = Append(@, event)]
    BY <1>6
  <2>8. sampling' = [sampling EXCEPT ![p][s] = new]
    BY <1>6
  <2>. HIDE DEF task, slot, event, rest
  <2>9. /\ WorldOK' /\ ObservationsAreSpaced' /\ NothingAfterTheWindow'
        /\ RegistrationsOK'
        /\ \A q \in Processes, t \in Shipments :
             sampling[q][t] # NULL /\ sampling'[q][t] = sampling[q][t] => SampleOK(q, t)'
    BY <1>1, <2>4, <2>6, <2>7, EventRecorded
  <2>10. /\ new \in Samples
         /\ new.phase = "answered" /\ new.slots = rest /\ new.expected = Len(stream[s]) + 1
         /\ new.version = task.version /\ new.asOf = task.asOf
    <3>1. Len(stream[s]) + 1 \in Nat /\ taken \in Nat \cup {NULL}
      BY <2>3, <2>5
    <3>. QED
      BY <1>2, <2>2, <3>1 DEF Samples
  <2>. HIDE DEF new
  <2>11. /\ sampling'[p][s] = new
         /\ \A q \in Processes, t \in Shipments :
              ~(q = p /\ t = s) => sampling'[q][t] = sampling[q][t]
         /\ sampling' \in [Processes -> [Shipments -> Samples \cup {NULL}]]
    BY <2>8, <2>10 DEF SamplesOK
  <2>12. /\ stream'[s] = Append(stream[s], event)
         /\ stream'[s] # <<>> /\ Len(stream'[s]) = Len(stream[s]) + 1
    BY <2>4, <2>5, <2>7, AppendedEvents DEF WorldOK
  <2>13. rest # <<>> => Planned(stream'[s], rest)
    <3>1. SUFFICES ASSUME rest # <<>>
                   PROVE  Planned(stream'[s], rest)
      OBVIOUS
    <3>2. Len(task.slots) > 1
      BY <2>2, <3>1
    <3>. QED
      BY <1>3, <2>1, <2>2, <2>3, <2>4, <2>5, <2>12, <3>2, PlanGoesOn DEF rest
  <2>14. SampleOK(p, s)'
    <3>1. now' = now /\ mode'[p] = mode[p] /\ Len(stream[s]) + 1 <= Len(stream'[s])
      BY <1>1, <2>5, <2>12
    <3>2. \A slots : Planned(stream'[s], slots) => Planned(stream[s], slots)'
      BY <3>1 DEF Planned
    <3>3. task.version <= Len(stream'[s])
      BY <1>3, <2>5, <2>12
    <3>. QED
      BY <1>3, <2>10, <2>11, <2>12, <2>13, <3>1, <3>2, <3>3 DEF SampleOK
  <2>15. SamplesOK'
    BY <2>9, <2>11, <2>14 DEF SamplesOK
  <2>. QED
    BY <1>4, <2>9, <2>15
<1>. QED
  BY <1>5, <1>6 DEF Record

LEMMA ContinueStep ==
  ASSUME MonitorInv, NEW p \in Processes, NEW s \in Shipments, Continue(p, s)
  PROVE  MonitorInv'
<1>. USE DEF MonitorInv
<1>. DEFINE task == sampling[p][s]
<1>1. task # NULL /\ task.phase = "answered" /\ UNCHANGED <<world, mode, registering>> /\ StayUp
  BY DEF Continue, InPhase, StayUp
<1>2. task \in Samples /\ SampleOK(p, s)
  BY <1>1 DEF SamplesOK
<1>3. CASE /\ task.slots # <<>>
           /\ sampling' = [sampling EXCEPT ![p][s].phase = "asking"]
           /\ UNCHANGED <<entry, timers, sweep>>
  <2>. DEFINE new == [task EXCEPT !.phase = "asking"]
  <2>1. sampling' = [sampling EXCEPT ![p][s] = new]
    BY <1>3
  <2>2. /\ new \in Samples
        /\ new.phase = "asking" /\ new.slots = task.slots /\ new.expected = task.expected
        /\ new.version = task.version /\ new.asOf = task.asOf
    <3>. HIDE DEF task
    <3>. QED
      BY <1>2 DEF Samples
  <2>. HIDE DEF new
  <2>3. sampling'[p][s] = new
    BY <2>1 DEF SamplesOK
  <2>4. SampleOK(p, s)'
    BY <1>1, <1>2, <1>3, <2>2, <2>3 DEF SampleOK, Planned, world
  <2>5. SamplesOK'
    BY <1>1, <2>1, <2>2, <2>4, SampleReplaced
  <2>. QED
    BY <1>1, <1>3, <2>5, EntriesKept, WorldKept, RegistrationsKept, SweepsKept DEF world
<1>4. CASE ScheduleNext(p, s, NextDueAt(stream[s], task.latest)) /\ Leave(p, s)
  <2>1. stream[s] \in Seq(EventRecords) /\ stream[s] # <<>> /\ mode[p] # "down"
    BY <1>1, <1>2 DEF WorldOK, SampleOK
  <2>2. task.latest \in Nat \cup {NULL}
    BY <1>2 DEF Samples
  <2>3. NextDueAt(stream[s], task.latest) \in Nat
    <3>. HIDE DEF task
    <3>. QED
      BY <2>1, <2>2, NextDue
  <2>4. EntriesOK'
    BY <1>1, <1>4, <2>1, <2>3, ScheduleKeeps
  <2>. QED
    BY <1>1, <1>4, <2>4, LeaveKeeps, WorldKept, RegistrationsKept DEF world
<1>. QED
  BY <1>3, <1>4 DEF Continue

-----------------------------------------------------------------------------
(* Every step.                                                             *)

LEMMA ProcessStep ==
  ASSUME MonitorInv, NEW p \in Processes,
         \/ Start(p) \/ Stop(p) \/ Exit(p) \/ Crash(p)
         \/ ResumeStep(p) \/ SweepStep(p)
         \/ \E s \in Shipments : HandleNotification(p, s) \/ SampleStep(p, s)
         \/ \E r \in Tasks : FinishRegistration(p, r)
         \/ \E h \in Handles : FireTimer(p, h)
  PROVE  MonitorInv'
<1>1. CASE Start(p) \/ BeginLoop(p)
  BY <1>1, LifeStep
<1>2. CASE Stop(p)
  BY <1>2, StopStep
<1>3. CASE Exit(p) \/ Crash(p)
  BY <1>3, GoneStep DEF Exit, Crash
<1>4. CASE \E s \in Shipments : ResumeNext(p, s)
  BY <1>4, ResumeStepKeeps
<1>5. CASE SweepStep(p)
  BY <1>5, SweepStepKeeps
<1>6. CASE \E s \in Shipments : HandleNotification(p, s)
  BY <1>6, NotificationStep
<1>7. CASE \E s \in Shipments : SampleStep(p, s)
  BY <1>7, AssessStep, RecordStep, ContinueStep DEF SampleStep
<1>8. CASE \E r \in Tasks : FinishRegistration(p, r)
  BY <1>8, FinishRegistrationStep
<1>9. CASE \E h \in Handles : FireTimer(p, h)
  BY <1>9, FireTimerStep
<1>. QED
  BY <1>1, <1>2, <1>3, <1>4, <1>5, <1>6, <1>7, <1>8, <1>9 DEF ResumeStep

LEMMA MonitorStutters ==
  ASSUME MonitorInv, UNCHANGED vars
  PROVE  MonitorInv'
<1>1. StayUp /\ UNCHANGED <<world, mode, entry, timers, sampling, registering, sweep>>
  BY DEF vars, world, StayUp
<1>. QED
  BY <1>1, WorldKept, EntriesKept, RegistrationsKept, SweepsKept, SamplesKept
     DEF MonitorInv, world

(* The inductive invariant of the monitors.                                *)
THEOREM MonitorInvariance == Spec => []MonitorInv
<1>1. MonitorInv /\ [Next]_vars => MonitorInv'
  BY TickStep, OperateStep, ProcessStep, MonitorStutters DEF Next
<1>. QED
  BY <1>1, MonitorInit, PTL DEF Spec

(* Whatever is announced twice, late or out of order, replaced, released or*)
(* stopped: a live timer is the one its shipment's entry holds, and only a *)
(* process that has not been told to stop has any.                         *)
THEOREM LiveTimersAreHeld == Spec => []TimersAreHeld
<1>1. MonitorInv => TimersAreHeld
  BY DEF MonitorInv, EntriesOK
<1>. QED
  BY <1>1, MonitorInvariance, PTL

(* However many processes sample a shipment at once, an automatic reading  *)
(* follows every event before it, and the reading before it by an interval.*)
THEOREM NothingIsObservedTwice == Spec => []ObservationsAreSpaced
<1>1. MonitorInv => ObservationsAreSpaced
  BY DEF MonitorInv
<1>. QED
  BY <1>1, MonitorInvariance, PTL

(* No automatic reading of a container that was delivered or archived,     *)
(* although windows close while samples are in flight.                     *)
THEOREM WindowIsRespected == Spec => []NothingAfterTheWindow
<1>1. MonitorInv => NothingAfterTheWindow
  BY DEF MonitorInv
<1>. QED
  BY <1>1, MonitorInvariance, PTL
=============================================================================
