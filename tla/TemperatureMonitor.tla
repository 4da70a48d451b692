------------------------- MODULE TemperatureMonitor -------------------------
(***************************************************************************)
(* The automatic temperature monitor: every process that serves the API    *)
(* runs one.  It learns of shipments from notifications, from a resume at  *)
(* start-up and from a periodic sweep, keeps at most one timer for each,   *)
(* and records the observations that are due by sending ordinary commands. *)
(*                                                                         *)
(* Every step ends at an await of the source.  A read is answered in the   *)
(* step that makes it and acted on in a later one.  The command service is *)
(* represented by what it guarantees (see CommandService.tla): a reading   *)
(* is appended in one step, or refused when the stream is not at the       *)
(* version it was based on.  A shipment is its stream of events, of which  *)
(* only the instants and what opens or closes the monitoring window are    *)
(* kept; the state a step acts on is the prefix that was read, named by    *)
(* its version.  Of a reading only the instant it was taken is kept.       *)
(***************************************************************************)
EXTENDS Integers, Sequences, SequencesExt, FiniteSets

CONSTANTS
  NULL,            \* the absent value
  Shipments,
  Existing,        \* shipments created before the monitors start
  Processes,
  Handles,         \* timer handles
  Registrations,   \* announced registrations in progress in a process (bound)
  Source,          \* sensors.source, of a deployment that has one
  Lags,            \* how long before it is recorded a reading may be taken
  Interval,        \* sensors.intervalMs
  FirstDelay,      \* sensors.firstReadingDelayMs
  MaxCatchUp,      \* sensors.maxCatchUpReadings
  MaxTime,         \* bound on the clock
  MaxCommands,     \* bound on the commands of operators
  MaxFaults        \* bound on failed calls, silent sensors and crashes

(* What #monitored keeps of a shipment: the instant of its next observation*)
(* and the handle of the timer set for it, if one was.                     *)
Entries == [dueAt : Int, timer : Handles \cup {NULL}]

(* Handles do not run out: however the entries of all shipments name them, *)
(* there is another.                                                       *)
ASSUME MonitorAssumption ==
  /\ Existing \subseteq Shipments /\ NULL \notin Shipments /\ NULL \notin Handles
  /\ NULL \notin Nat /\ NULL \notin Entries
  /\ Handles # {}
  /\ \A named \in [Shipments -> Handles] :
       \E h \in Handles : \A s \in Shipments : named[s] # h
  /\ Interval \in Nat \ {0} /\ FirstDelay \in Nat
  /\ MaxCatchUp \in Nat \ {0}
  /\ Source \in {"simulated", "external"}
  /\ Lags \subseteq Nat /\ "resume" \notin Registrations
  /\ MaxTime \in Nat /\ MaxCommands \in Nat /\ MaxFaults \in Nat

VARIABLES
  now,           \* the wall clock, shared by all processes
  stream,        \* the recorded events of each shipment
  faults,        \* failures so far
  mode,          \* life of each process
  resume,        \* shipments a starting process has still to adopt
  entry,         \* #monitored
  timers,        \* live timers of the process: handle -> shipment and instant
  sampling,      \* #inFlight, with the local variables of sampleShipment
  registering,   \* registrations in progress
  sweep          \* the sweep in progress

vars == <<now, stream, faults, mode, resume, entry, timers, sampling,
          registering, sweep>>

world == <<now, stream>>

-----------------------------------------------------------------------------
(* A stream, and what is derived from a prefix of it.                      *)

Operated(kind, at) == [kind |-> kind, at |-> at, recordedAt |-> at, auto |-> FALSE]

At(s, version) == SubSeq(stream[s], 1, version)

LastAt(events) == Last(events).at

Archived(events) ==
  \E i \in DOMAIN events :
    /\ events[i].kind = "archived"
    /\ \A j \in i + 1 .. Len(events) : events[j].kind # "restored"

Unloaded(events) == \E i \in DOMAIN events : events[i].kind = "unloaded"

(* The monitoring window: created, not archived, not unloaded.             *)
IsMonitored(events) == events # <<>> /\ ~Archived(events) /\ ~Unloaded(events)

(* The reading after which there is none.                                  *)
IsLatestReading(events, i) ==
  /\ events[i].kind = "reading"
  /\ \A j \in i + 1 .. Len(events) : events[j].kind # "reading"

LatestReadingAt(events) ==
  IF \E i \in DOMAIN events : IsLatestReading(events, i)
    THEN events[CHOOSE i \in DOMAIN events : IsLatestReading(events, i)].recordedAt
    ELSE NULL

(* The next observation: one interval after the latest reading, or a short *)
(* delay after creation.                                                   *)
NextDueAt(events, latest) ==
  IF latest # NULL THEN latest + Interval ELSE events[1].at + FirstDelay

(* The first slot after the last event, and how many are due from there.   *)
FirstSlot(events) ==
  LET due == NextDueAt(events, LatestReadingAt(events))
  IN  IF due > LastAt(events) THEN due
      ELSE due + ((LastAt(events) - due) \div Interval + 1) * Interval

SlotsUntil(first, asOf) ==
  IF first > asOf THEN 0 ELSE (asOf - first) \div Interval + 1

(* Due instants that follow the last event, oldest first, up to the limit. *)
DueSlots(events, asOf) ==
  LET first == FirstSlot(events)
  IN  [i \in 1 .. Min({SlotsUntil(first, asOf), MaxCatchUp}) |-> first + (i - 1) * Interval]

(* The simulation answers for the instant it is asked about.               *)
SimulatedReadings(slot) == {slot}

(* A feed answers with the reading it has, taken then or earlier; one that *)
(* is out of reach, late or unusable is no reading.                        *)
ExternalReadings(slot) == {slot - lag : lag \in {l \in Lags : l <= slot}} \cup {NULL}

(* When the readings the sensor may answer with were taken.                *)
Answers(slot) ==
  IF Source = "simulated" THEN SimulatedReadings(slot) ELSE ExternalReadings(slot)

(* Mutant: the monitor does not say which version it read.                 *)
AcceptsAnyVersion(events, version, at) == ~Archived(events) /\ at >= LastAt(events)

(* What the command service accepts of the monitor.                        *)
Accepts(events, version, at) ==
  Len(events) = version /\ ~Archived(events) /\ at >= LastAt(events)

-----------------------------------------------------------------------------
(* Entries and timers.                                                     *)

(* A handle no live timer has and no entry still names.                    *)
Fresh(p) ==
  CHOOSE h \in Handles :
    timers[p][h] = NULL /\ \A s \in Shipments : entry[p][s] # NULL => entry[p][s].timer # h

(* The live timers once the timer of a shipment's entry has been cleared.  *)
Cleared(p, s) ==
  [h \in Handles |->
     IF entry[p][s] # NULL /\ entry[p][s].timer = h THEN NULL ELSE timers[p][h]]

Release(p, s) ==
  /\ entry' = [entry EXCEPT ![p][s] = NULL]
  /\ timers' = [timers EXCEPT ![p] = Cleared(p, s)]

(* Same instant and a timer, fired or not: nothing to do.                  *)
AlreadyScheduled(p, s, dueAt) ==
  entry[p][s] # NULL /\ entry[p][s].dueAt = dueAt /\ entry[p][s].timer # NULL

(* Mutant: the timer an entry held is not cleared.                         *)
ScheduleBeside(p, s, dueAt) ==
  \/ AlreadyScheduled(p, s, dueAt) /\ UNCHANGED <<entry, timers>>
  \/ /\ ~AlreadyScheduled(p, s, dueAt) /\ mode[p] # "stopping"
     /\ entry' = [entry EXCEPT ![p][s] = [dueAt |-> dueAt, timer |-> Fresh(p)]]
     /\ timers' = [timers EXCEPT ![p][Fresh(p)] = [shipment |-> s, at |-> dueAt]]
  \/ /\ ~AlreadyScheduled(p, s, dueAt) /\ mode[p] = "stopping"
     /\ entry' = [entry EXCEPT ![p][s] = [dueAt |-> dueAt, timer |-> NULL]]
     /\ timers' = [timers EXCEPT ![p] = Cleared(p, s)]

(* An entry for another instant replaces the timer it finds; while the     *)
(* monitor is stopping no timer is set.                                    *)
ScheduleNext(p, s, dueAt) ==
  \/ AlreadyScheduled(p, s, dueAt) /\ UNCHANGED <<entry, timers>>
  \/ /\ ~AlreadyScheduled(p, s, dueAt) /\ mode[p] # "stopping"
     /\ entry' = [entry EXCEPT ![p][s] = [dueAt |-> dueAt, timer |-> Fresh(p)]]
     /\ timers' = [timers EXCEPT ![p] =
                     [Cleared(p, s) EXCEPT ![Fresh(p)] = [shipment |-> s, at |-> dueAt]]]
  \/ /\ ~AlreadyScheduled(p, s, dueAt) /\ mode[p] = "stopping"
     /\ entry' = [entry EXCEPT ![p][s] = [dueAt |-> dueAt, timer |-> NULL]]
     /\ timers' = [timers EXCEPT ![p] = Cleared(p, s)]

-----------------------------------------------------------------------------
(* The world: time and operators.                                          *)

(* Registrations for notifications run beside the one of the resume.       *)
Tasks == Registrations \cup {"resume"}

NoEntries == [s \in Shipments |-> NULL]
NoTimers == [h \in Handles |-> NULL]
NoRegistrations == [r \in Tasks |-> NULL]
NoSweep == [todo |-> {}, asOf |-> 0, at |-> NULL]

Init ==
  /\ now = 0 /\ faults = 0
  /\ stream = [s \in Shipments |->
       IF s \in Existing THEN <<Operated("created", 0)>> ELSE <<>>]
  /\ mode = [p \in Processes |-> "down"]
  /\ resume = [p \in Processes |-> {}]
  /\ entry = [p \in Processes |-> NoEntries]
  /\ timers = [p \in Processes |-> NoTimers]
  /\ sampling = [p \in Processes |-> NoEntries]
  /\ registering = [p \in Processes |-> NoRegistrations]
  /\ sweep = [p \in Processes |-> NoSweep]

monitors == <<mode, resume, entry, timers, sampling, registering, sweep>>

Tick ==
  /\ now < MaxTime
  /\ now' = now + 1
  /\ UNCHANGED <<stream, faults, monitors>>

(* What operators have issued so far.                                      *)
Issued == UNION {{<<s, i>> : i \in {j \in DOMAIN stream[s] : ~stream[s][j].auto}} :
                   s \in Shipments}

Issue(s, kind, recordedAt) ==
  /\ Cardinality(Issued) < MaxCommands + Cardinality(Existing)
  /\ stream' = [stream EXCEPT ![s] =
                  Append(@, [Operated(kind, now) EXCEPT !.recordedAt = recordedAt])]
  /\ UNCHANGED <<now, faults, monitors>>

CreateShipment(s)  == stream[s] = <<>> /\ Issue(s, "created", now)
MoveShipment(s)    == IsMonitored(stream[s]) /\ Issue(s, "moved", now)
UnloadShipment(s)  == IsMonitored(stream[s]) /\ Issue(s, "unloaded", now)
ArchiveShipment(s) == stream[s] # <<>> /\ ~Archived(stream[s]) /\ Issue(s, "archived", now)
RestoreShipment(s) == Archived(stream[s]) /\ Issue(s, "restored", now)

(* A reading typed in by an operator, taken now or earlier.                *)
EnterReading(s) ==
  /\ stream[s] # <<>> /\ ~Archived(stream[s])
  /\ \E lag \in Lags : lag <= now /\ Issue(s, "reading", now - lag)

-----------------------------------------------------------------------------
(* Starting, stopping, dying.                                              *)

Up(p) == mode[p] \in {"starting", "running"}

(* start(): subscribed to notifications, and about to list the shipments.  *)
Start(p) ==
  /\ mode[p] = "down"
  /\ mode' = [mode EXCEPT ![p] = "starting"]
  /\ resume' = [resume EXCEPT ![p] = {s \in Shipments : stream[s] # <<>>}]
  /\ UNCHANGED <<world, faults, entry, timers, sampling, registering, sweep>>

(* Every listed shipment has been registered, or a failure ended that: the *)
(* loop begins.                                                            *)
BeginLoop(p) ==
  /\ mode[p] = "starting" /\ resume[p] = {} /\ registering[p]["resume"] = NULL
  /\ mode' = [mode EXCEPT ![p] = "running"]
  /\ UNCHANGED <<world, faults, resume, entry, timers, sampling, registering, sweep>>

(* stop(): unsubscribed, every timer cleared; what is in flight goes on.   *)
Stop(p) ==
  /\ Up(p)
  /\ mode' = [mode EXCEPT ![p] = "stopping"]
  /\ timers' = [timers EXCEPT ![p] =
       [h \in Handles |->
          IF \E s \in Shipments : entry[p][s] # NULL /\ entry[p][s].timer = h
            THEN NULL ELSE timers[p][h]]]
  /\ entry' = [entry EXCEPT ![p] =
       [s \in Shipments |-> IF entry[p][s] = NULL THEN NULL
                            ELSE [entry[p][s] EXCEPT !.timer = NULL]]]
  /\ UNCHANGED <<world, faults, resume, sampling, registering, sweep>>

Gone(p) ==
  /\ mode' = [mode EXCEPT ![p] = "down"]
  /\ resume' = [resume EXCEPT ![p] = {}]
  /\ entry' = [entry EXCEPT ![p] = NoEntries]
  /\ timers' = [timers EXCEPT ![p] = NoTimers]
  /\ sampling' = [sampling EXCEPT ![p] = NoEntries]
  /\ registering' = [registering EXCEPT ![p] = NoRegistrations]
  /\ sweep' = [sweep EXCEPT ![p] = NoSweep]
  /\ UNCHANGED world

(* The process exits once its loop has ended.                              *)
Exit(p) == mode[p] = "stopping" /\ sweep[p] = NoSweep /\ Gone(p) /\ UNCHANGED faults

Fault == faults < MaxFaults /\ faults' = faults + 1

Crash(p) == mode[p] # "down" /\ Fault /\ Gone(p)

-----------------------------------------------------------------------------
(* Registration: registerShipment.                                         *)

(* getEvents is asked and answers.                                         *)
BeginRegistration(p, r, s) ==
  /\ registering[p][r] = NULL
  /\ registering' = [registering EXCEPT ![p][r] =
                       [shipment |-> s, version |-> Len(stream[s])]]

(* Notifications repeat, arrive late, or are lost.                         *)
HandleNotification(p, s) ==
  /\ Up(p)
  /\ \E i \in DOMAIN stream[s] :
       \/ /\ stream[s][i].kind \in {"created", "restored"}
          /\ \E r \in Registrations : BeginRegistration(p, r, s)
          /\ UNCHANGED <<entry, timers>>
       \/ /\ stream[s][i].kind \in {"unloaded", "archived"}
          /\ entry[p][s] # NULL
          /\ Release(p, s)
          /\ UNCHANGED registering
  /\ UNCHANGED <<world, faults, mode, resume, sampling, sweep>>

(* resumeActiveShipments registers one shipment after the other, until one *)
(* fails.                                                                  *)
ResumeNext(p, s) ==
  /\ mode[p] \in {"starting", "stopping"} /\ s \in resume[p]
  /\ \/ /\ BeginRegistration(p, "resume", s)
        /\ resume' = [resume EXCEPT ![p] = @ \ {s}]
        /\ UNCHANGED faults
     \/ /\ registering[p]["resume"] = NULL /\ Fault
        /\ resume' = [resume EXCEPT ![p] = {}]
        /\ UNCHANGED registering
  /\ UNCHANGED <<world, mode, entry, timers, sampling, sweep>>

(* What was read then is acted on now.                                     *)
FinishRegistration(p, r) ==
  LET task   == registering[p][r]
      s      == task.shipment
      events == At(s, task.version)
  IN  /\ task # NULL
      /\ \/ IsMonitored(events)
              /\ ScheduleNext(p, s, NextDueAt(events, LatestReadingAt(events)))
         \/ ~IsMonitored(events) /\ Release(p, s)
      /\ registering' = [registering EXCEPT ![p][r] = NULL]
      /\ UNCHANGED <<world, faults, mode, resume, sampling, sweep>>

-----------------------------------------------------------------------------
(* Sampling: sampleShipment.  A timer or the sweep begins it; the entry in *)
(* sampling is the in-flight guard.                                        *)

(* A sample that has read the stream.                                      *)
Sample(s, by, asOf) ==
  [phase |-> "loaded", by |-> by, asOf |-> asOf, version |-> Len(stream[s]),
   slots |-> <<>>, expected |-> 0, latest |-> NULL]

(* A timer fires, and its entry goes on naming it.  It stands down if a    *)
(* sample is in flight.                                                    *)
FireTimer(p, h) ==
  /\ timers[p][h] # NULL /\ timers[p][h].at <= now
  /\ LET s == timers[p][h].shipment
     IN  \/ sampling[p][s] # NULL /\ UNCHANGED <<sampling, faults>>
         \/ sampling[p][s] = NULL /\ Fault /\ UNCHANGED sampling
         \/ /\ sampling[p][s] = NULL /\ UNCHANGED faults
            /\ sampling' = [sampling EXCEPT ![p][s] = Sample(s, "timer", now)]
  /\ timers' = [timers EXCEPT ![p][h] = NULL]
  /\ UNCHANGED <<world, mode, resume, entry, registering, sweep>>

(* The loop begins a pass over every shipment there is; one that finds     *)
(* none, or cannot list them, does nothing.                                *)
StartSweep(p) ==
  /\ mode[p] = "running" /\ sweep[p] = NoSweep
  /\ \E s \in Shipments : stream[s] # <<>>
  /\ sweep' = [sweep EXCEPT ![p] =
       [todo |-> {s \in Shipments : stream[s] # <<>>}, asOf |-> now, at |-> NULL]]
  /\ UNCHANGED <<world, faults, mode, resume, entry, timers, sampling, registering>>

(* The sweep once it is done with a shipment: what is left of it.          *)
Rest(p, s) ==
  IF sweep[p].todo = {s} \/ sweep[p].todo = {} THEN NoSweep
  ELSE [sweep[p] EXCEPT !.todo = @ \ {s}, !.at = NULL]

(* The sweep comes to a shipment: it stands down if a sample is in flight, *)
(* and a read that fails ends it.                                          *)
VisitShipment(p, s) ==
  /\ mode[p] # "stopping" /\ s \in sweep[p].todo /\ sweep[p].at = NULL
  /\ \/ /\ sampling[p][s] # NULL
        /\ sweep' = [sweep EXCEPT ![p] = Rest(p, s)]
        /\ UNCHANGED <<sampling, faults>>
     \/ /\ sampling[p][s] = NULL /\ Fault
        /\ sweep' = [sweep EXCEPT ![p] = NoSweep]
        /\ UNCHANGED sampling
     \/ /\ sampling[p][s] = NULL
        /\ sweep' = [sweep EXCEPT ![p].at = s]
        /\ sampling' = [sampling EXCEPT ![p][s] = Sample(s, "sweep", sweep[p].asOf)]
        /\ UNCHANGED faults
  /\ UNCHANGED <<world, mode, resume, entry, timers, registering>>

(* Told to stop, the sweep gives up what it has not visited.               *)
BreakSweep(p) ==
  /\ mode[p] = "stopping" /\ sweep[p] # NoSweep /\ sweep[p].at = NULL
  /\ sweep' = [sweep EXCEPT ![p] = NoSweep]
  /\ UNCHANGED <<world, faults, mode, resume, entry, timers, sampling, registering>>

(* Leaving sampleShipment: the guard is dropped, and a sweep that awaited  *)
(* it goes on.                                                             *)
Leave(p, s) ==
  /\ sampling' = [sampling EXCEPT ![p][s] = NULL]
  /\ sweep' = IF sampling[p][s].by = "sweep"
                THEN [sweep EXCEPT ![p] = Rest(p, s)] ELSE sweep

InPhase(p, s, phase) == sampling[p][s] # NULL /\ sampling[p][s].phase = phase

(* Mutant: a shipment found outside its window keeps its entry.            *)
AssessKeepingEntry(p, s) ==
  LET task   == sampling[p][s]
      events == At(s, task.version)
      slots  == DueSlots(events, task.asOf)
      latest == LatestReadingAt(events)
  IN  /\ InPhase(p, s, "loaded")
      /\ \/ ~IsMonitored(events) /\ Leave(p, s) /\ UNCHANGED <<entry, timers>>
         \/ /\ IsMonitored(events) /\ slots = <<>>
            /\ ScheduleNext(p, s, NextDueAt(events, latest)) /\ Leave(p, s)
         \/ /\ IsMonitored(events) /\ slots # <<>>
            /\ sampling' = [sampling EXCEPT ![p][s] =
                 [task EXCEPT !.phase = "asking", !.slots = slots,
                              !.expected = task.version, !.latest = latest]]
            /\ UNCHANGED <<entry, timers, sweep>>
      /\ UNCHANGED <<world, faults, mode, resume, registering>>

(* Outside the window the shipment is released; with nothing due its next  *)
(* observation is scheduled; otherwise the sensor is asked.                *)
Assess(p, s) ==
  LET task   == sampling[p][s]
      events == At(s, task.version)
      slots  == DueSlots(events, task.asOf)
      latest == LatestReadingAt(events)
  IN  /\ InPhase(p, s, "loaded")
      /\ \/ ~IsMonitored(events) /\ Release(p, s) /\ Leave(p, s)
         \/ /\ IsMonitored(events) /\ slots = <<>>
            /\ ScheduleNext(p, s, NextDueAt(events, latest)) /\ Leave(p, s)
         \/ /\ IsMonitored(events) /\ slots # <<>>
            /\ sampling' = [sampling EXCEPT ![p][s] =
                 [task EXCEPT !.phase = "asking", !.slots = slots,
                              !.expected = task.version, !.latest = latest]]
            /\ UNCHANGED <<entry, timers, sweep>>
      /\ UNCHANGED <<world, faults, mode, resume, registering>>

(* The sensor is silent, or the command fails, and the pass ends; or it    *)
(* answers and the command service accepts the reading at the version the  *)
(* pass expects, or refuses it and the pass yields.                        *)
Record(p, s) ==
  LET task == sampling[p][s]
      slot == Head(task.slots)
      stands == /\ sampling' = [sampling EXCEPT ![p][s] =
                     [task EXCEPT !.phase = "answered", !.slots = <<>>]]
                /\ UNCHANGED stream
  IN  /\ InPhase(p, s, "asking")
      /\ \/ Fault /\ stands
         \/ ~Accepts(stream[s], task.expected, slot) /\ stands /\ UNCHANGED faults
         \/ /\ Accepts(stream[s], task.expected, slot)
            /\ \E taken \in Answers(slot) \ {NULL} :
                 /\ stream' = [stream EXCEPT ![s] = Append(@,
                      [kind |-> "reading", at |-> slot, recordedAt |-> taken,
                       auto |-> TRUE])]
                 /\ sampling' = [sampling EXCEPT ![p][s] =
                      [task EXCEPT !.phase = "answered", !.slots = Tail(task.slots),
                                   !.latest = taken, !.expected = Len(stream[s]) + 1]]
            /\ UNCHANGED faults
      /\ UNCHANGED <<now, mode, resume, entry, timers, registering, sweep>>

(* Mutant: a pass that was refused returns without dropping the guard.     *)
ContinueHoldingGuard(p, s) ==
  LET task == sampling[p][s]
  IN  /\ InPhase(p, s, "answered")
      /\ \/ /\ task.slots # <<>>
            /\ sampling' = [sampling EXCEPT ![p][s].phase = "asking"]
            /\ UNCHANGED <<entry, timers, sweep>>
         \/ /\ task.slots = <<>> /\ task.expected # task.version
            /\ ScheduleNext(p, s, NextDueAt(stream[s], task.latest))
            /\ Leave(p, s)
      /\ UNCHANGED <<world, faults, mode, resume, registering>>

(* On to the next slot, or schedule from the state as this pass knows it.  *)
Continue(p, s) ==
  LET task == sampling[p][s]
  IN  /\ InPhase(p, s, "answered")
      /\ \/ /\ task.slots # <<>>
            /\ sampling' = [sampling EXCEPT ![p][s].phase = "asking"]
            /\ UNCHANGED <<entry, timers, sweep>>
         \/ /\ task.slots = <<>>
            /\ ScheduleNext(p, s, NextDueAt(stream[s], task.latest))
            /\ Leave(p, s)
      /\ UNCHANGED <<world, faults, mode, resume, registering>>

-----------------------------------------------------------------------------
SampleStep(p, s) ==
  Assess(p, s) \/ Record(p, s) \/ Continue(p, s)

SweepStep(p) ==
  \/ StartSweep(p) \/ BreakSweep(p)
  \/ \E s \in Shipments : VisitShipment(p, s)

ResumeStep(p) == BeginLoop(p) \/ \E s \in Shipments : ResumeNext(p, s)

Operate(s) ==
  \/ CreateShipment(s) \/ MoveShipment(s) \/ UnloadShipment(s)
  \/ ArchiveShipment(s) \/ RestoreShipment(s) \/ EnterReading(s)

Next ==
  \/ Tick
  \/ \E s \in Shipments : Operate(s)
  \/ \E p \in Processes :
       \/ Start(p) \/ Stop(p) \/ Exit(p) \/ Crash(p)
       \/ ResumeStep(p) \/ SweepStep(p)
       \/ \E s \in Shipments : HandleNotification(p, s) \/ SampleStep(p, s)
       \/ \E r \in Tasks : FinishRegistration(p, r)
       \/ \E h \in Handles : FireTimer(p, h)

Spec == Init /\ [][Next]_vars

(* The loop goes on sweeping, and what a sample awaits is answered.        *)
(* Nothing forces time to pass, an operator to act, a notification to      *)
(* arrive, a registration to end, a timer to fire, or a process to start.  *)
FairSpec ==
  /\ Spec
  /\ \A p \in Processes :
       WF_vars(SweepStep(p)) /\ \A s \in Shipments : WF_vars(SampleStep(p, s))

-----------------------------------------------------------------------------
(* Whatever is announced twice, late or out of order, released, replaced   *)
(* or stopped while something is in flight: every live timer is the one    *)
(* its shipment's entry holds, so no shipment has two, and a process that  *)
(* was told to stop has none.                                              *)
TimersAreHeld ==
  \A p \in Processes : \A h \in Handles : timers[p][h] # NULL =>
    /\ Up(p)
    /\ entry[p][timers[p][h].shipment] # NULL
    /\ entry[p][timers[p][h].shipment].timer = h

(* No observation is recorded twice, whichever processes, timers and       *)
(* sweeps took it to be due: an automatic reading is later than everything *)
(* before it, and one interval or more after the reading before it was     *)
(* taken, whoever recorded that one.                                       *)
ObservationsAreSpaced ==
  \A s \in Shipments : \A i, j \in DOMAIN stream[s] :
    /\ i < j /\ stream[s][j].auto => stream[s][i].at < stream[s][j].at
    /\ /\ i < j /\ stream[s][i].kind = "reading" /\ stream[s][j].auto
       /\ \A k \in i + 1 .. j - 1 : stream[s][k].kind # "reading"
       => stream[s][j].at >= stream[s][i].recordedAt + Interval

(* A container that has been delivered or archived gets no automatic       *)
(* reading, although windows close while samples are in flight.            *)
NothingAfterTheWindow ==
  \A s \in Shipments : \A j \in DOMAIN stream[s] :
    stream[s][j].auto => IsMonitored(SubSeq(stream[s], 1, j - 1))

(* While some process keeps running, a due observation is eventually taken *)
(* or its window closes: yielding to operators, silent sensors, failed     *)
(* reads, lost notifications and crashes only delay it.                    *)
Due(s) == IsMonitored(stream[s]) /\ DueSlots(stream[s], now) # <<>>

Running == \E p \in Processes : mode[p] = "running"

DueIsObserved == \A s \in Shipments : (Due(s) /\ Running) ~> (~Due(s) \/ ~Running)

(* A shipment outside its window does not stay monitored, although a       *)
(* registration or a sample that read it earlier may bring its entry back  *)
(* after it was released.                                                  *)
OutsideIsReleased ==
  \A p \in Processes : \A s \in Shipments :
    (mode[p] = "running" /\ ~IsMonitored(stream[s]))
      ~> (entry[p][s] = NULL \/ mode[p] # "running" \/ IsMonitored(stream[s]))
=============================================================================
