-------------------------- MODULE ProjectionWorker --------------------------
(***************************************************************************)
(* The read side: workers that poll the event store by global sequence and *)
(* fold what they find into the read model.  A step ends where the source  *)
(* awaits the database.                                                    *)
(*                                                                         *)
(* Of an event only its shipment, version and sequence matter here, and of *)
(* a projection the versions that were folded into it, in order.  The      *)
(* write path is reduced to what CommandService.tla establishes about it:  *)
(* a writer takes a sequence at one step and inserts at a later one, or    *)
(* never, and versions of a shipment are recorded without a gap.           *)
(***************************************************************************)
EXTENDS Integers, Sequences, SequencesExt, FiniteSets, FiniteSetsExt

CONSTANTS
  Aggregates,    \* shipment identifiers
  Workers,       \* worker processes, all of the same configured name
  Supervised,    \* those that end with their loop and are started again
  Writers,       \* how many appends may be in progress at once
  BatchSize,     \* events fetched at a time
  MaxRetries,    \* attempts before an event is dead-lettered
  MaxSequence,   \* bound on the global sequence
  MaxFailures    \* bound on failed database calls and crashes

ASSUME ProjectionAssumption ==
  /\ Supervised \subseteq Workers
  /\ Writers \in Nat \ {0} /\ BatchSize \in Nat \ {0}
  /\ MaxRetries \in Nat \ {0} /\ MaxSequence \in Nat /\ MaxFailures \in Nat

VARIABLES
  events,       \* the event collection
  pending,      \* appends that hold a sequence and have not inserted
  counter,      \* the persisted global sequence
  overtaken,    \* history: the events inserted after one of a higher sequence
  readModel,    \* per shipment, the versions folded into its projection
  checkpoint,   \* the persisted cursor of the configured worker name
  deadLetters,  \* the dead-letter collection
  announced,    \* per shipment, the newest version published on the bus
  worker,       \* per process, the local variables of runOnce
  failures      \* failures so far

storeVars == <<events, pending, counter, overtaken>>

vars == <<storeVars, readModel, checkpoint, deadLetters, announced, worker, failures>>

EventRecords ==
  [agg : Aggregates, version : 1 .. MaxSequence, seq : 1 .. MaxSequence]

(* from is the checkpoint as loaded, until the batch is read, batch the    *)
(* events not yet dealt with, last the sequence the checkpoint will be     *)
(* saved at, base the projection as found, next the one to be saved, stored*)
(* what saveProjection found.                                              *)
IdleWorker ==
  [phase |-> "idle", from |-> 0, batch |-> <<>>, last |-> 0, attempt |-> 1,
   base |-> <<>>, next |-> <<>>, stored |-> 0]

Init ==
  /\ events = {} /\ pending = {} /\ counter = 0 /\ overtaken = {}
  /\ readModel = [a \in Aggregates |-> <<>>]
  /\ checkpoint = 0
  /\ deadLetters = {}
  /\ announced = [a \in Aggregates |-> 0]
  /\ worker = [w \in Workers |-> IdleWorker]
  /\ failures = 0

-----------------------------------------------------------------------------
(* The event store, as the write path leaves it.                           *)

CurrentVersion(a) == Cardinality({e \in events : e.agg = a})

TakeSequence(a) ==
  /\ counter < MaxSequence /\ Cardinality(pending) < Writers
  /\ counter' = counter + 1
  /\ pending' = pending \cup
       {[agg |-> a, version |-> CurrentVersion(a) + 1, seq |-> counter + 1]}
  /\ UNCHANGED <<events, overtaken, readModel, checkpoint, deadLetters, announced,
                 worker, failures>>

Insert(e) ==
  /\ e.version = CurrentVersion(e.agg) + 1
  /\ events' = events \cup {e}
  /\ pending' = pending \ {e}
  /\ overtaken' = overtaken \cup {f \in {e} : \E d \in events : f.seq < d.seq}
  /\ UNCHANGED <<counter, readModel, checkpoint, deadLetters, announced, worker, failures>>

(* A writer that lost the race for the version, or whose process died,     *)
(* leaves its sequence unused.                                             *)
Abandon(e) ==
  /\ pending' = pending \ {e}
  /\ UNCHANGED <<events, counter, overtaken, readModel, checkpoint, deadLetters,
                 announced, worker, failures>>

Settle == \E e \in pending : Insert(e) \/ Abandon(e)

-----------------------------------------------------------------------------
(* One iteration of the worker's loop.                                     *)

Version(projection) == IF projection = <<>> THEN 0 ELSE Last(projection)

Current(w) == Head(worker[w].batch)

(* The event at the head of the batch is done with.                        *)
NextEvent(w, attributes) ==
  [attributes EXCEPT
     !.last = Current(w).seq, !.batch = Tail(@), !.attempt = 1,
     !.base = <<>>, !.next = <<>>, !.stored = 0,
     !.phase = IF Len(worker[w].batch) = 1 THEN "saving" ELSE "finding"]

LoadCheckpoint(w) ==
  /\ worker[w].phase = "idle"
  /\ worker' = [worker EXCEPT ![w].phase = "fetching", ![w].from = checkpoint]
  /\ UNCHANGED <<storeVars, readModel, checkpoint, deadLetters, announced, failures>>

(* The events after the loaded checkpoint, ascending by sequence, at most  *)
(* a batch of them.                                                        *)
Batches(from) ==
  LET after == {e \in events : e.seq > from}
      size  == IF Cardinality(after) < BatchSize THEN Cardinality(after) ELSE BatchSize
  IN  {batch \in [1 .. size -> after] :
         \A e \in after, i \in 1 .. size :
           e.seq < batch[i].seq <=> \E j \in 1 .. i - 1 : batch[j] = e}

Fetched(w, batch) ==
  worker' = [worker EXCEPT ![w] = IF batch = <<>> THEN IdleWorker
                                  ELSE [@ EXCEPT !.phase = "finding", !.from = 0,
                                                 !.batch = batch]]

(* Mutant: the first event of the batch is published before it is applied. *)
FetchAnnounces(w) ==
  /\ worker[w].phase = "fetching"
  /\ \E batch \in Batches(worker[w].from) :
       /\ Fetched(w, batch)
       /\ announced' = IF batch = <<>> THEN announced
                       ELSE [announced EXCEPT ![Head(batch).agg] = Head(batch).version]
  /\ UNCHANGED <<storeVars, readModel, checkpoint, deadLetters, failures>>

Fetch(w) ==
  /\ worker[w].phase = "fetching"
  /\ \E batch \in Batches(worker[w].from) : Fetched(w, batch)
  /\ UNCHANGED <<storeVars, readModel, checkpoint, deadLetters, announced, failures>>

(* Mutant: a gap is applied as if it were the next version.                *)
FindProjectionIgnoringGaps(w) ==
  /\ worker[w].phase = "finding"
  /\ LET e == Current(w)
         found == readModel[e.agg]
     IN  worker' = [worker EXCEPT ![w] =
           IF e.version <= Version(found) THEN NextEvent(w, @)
           ELSE [@ EXCEPT !.phase = "checking", !.base = found,
                          !.next = Append(found, e.version)]]
  /\ UNCHANGED <<storeVars, readModel, checkpoint, deadLetters, announced, failures>>

(* The three cases: already applied, the next version, a gap.              *)
FindProjection(w) ==
  /\ worker[w].phase = "finding"
  /\ LET e == Current(w)
         found == readModel[e.agg]
     IN  worker' = [worker EXCEPT ![w] =
           IF e.version <= Version(found) THEN NextEvent(w, @)
           ELSE IF e.version = Version(found) + 1
             THEN [@ EXCEPT !.phase = "checking", !.base = found,
                            !.next = Append(found, e.version)]
           ELSE [@ EXCEPT !.phase = "healing", !.base = found]]
  /\ UNCHANGED <<storeVars, readModel, checkpoint, deadLetters, announced, failures>>

(* The versions read, in order.                                            *)
Ascending(versions) ==
  [i \in 1 .. Cardinality(versions) |->
     CHOOSE v \in versions : Cardinality({u \in versions : u < v}) = i - 1]

(* The versions after the projected one are read and folded, up to that of *)
(* the event that revealed the gap.                                        *)
HealGap(w) ==
  /\ worker[w].phase = "healing"
  /\ LET e == Current(w)
         base == worker[w].base
         missing == {d.version : d \in {f \in events :
                        /\ f.agg = e.agg
                        /\ Version(base) < f.version /\ f.version <= e.version}}
     IN  worker' = [worker EXCEPT ![w].phase = "checking",
                                  ![w].next = base \o Ascending(missing)]
  /\ UNCHANGED <<storeVars, readModel, checkpoint, deadLetters, announced, failures>>

(* saveProjection looks for a stored document before it writes.            *)
CheckStored(w) ==
  /\ worker[w].phase = "checking"
  /\ worker' = [worker EXCEPT ![w].phase = "writing",
                              ![w].stored = Version(readModel[Current(w).agg])]
  /\ UNCHANGED <<storeVars, readModel, checkpoint, deadLetters, announced, failures>>

(* Mutant: a document found older is replaced whatever it has become.      *)
SavedUnguarded(w) ==
  IF worker[w].stored >= Version(worker[w].next)
    THEN readModel
    ELSE [readModel EXCEPT ![Current(w).agg] = worker[w].next]

(* What the write leaves: nothing changes when the document found was as   *)
(* new; a document found older is replaced only if it is still older; when *)
(* none was found the upsert has no condition.                             *)
Saved(w) ==
  LET a == Current(w).agg
      next == worker[w].next
  IN  IF \/ worker[w].stored >= Version(next)
         \/ worker[w].stored > 0 /\ Version(readModel[a]) >= Version(next)
        THEN readModel
        ELSE [readModel EXCEPT ![a] = next]

(* The outcome "skipped": a single event whose projection was found stored.*)
Skipped(w) ==
  /\ worker[w].stored >= Version(worker[w].next)
  /\ Current(w).version = Version(worker[w].base) + 1

(* The event just projected is published on the bus.                       *)
Announce(w) ==
  announced' = IF Skipped(w) THEN announced
               ELSE [announced EXCEPT ![Current(w).agg] = Current(w).version]

SaveProjection(w) ==
  /\ worker[w].phase = "writing"
  /\ readModel' = Saved(w)
  /\ Announce(w)
  /\ worker' = [worker EXCEPT ![w] = NextEvent(w, @)]
  /\ UNCHANGED <<storeVars, checkpoint, deadLetters, failures>>

(* Mutant: the checkpoint is saved at the newest sequence there is.        *)
SaveCheckpointAtCounter(w) ==
  /\ worker[w].phase = "saving"
  /\ checkpoint' = counter
  /\ worker' = [worker EXCEPT ![w] = IdleWorker]
  /\ UNCHANGED <<storeVars, readModel, deadLetters, announced, failures>>

SaveCheckpoint(w) ==
  /\ worker[w].phase = "saving"
  /\ checkpoint' = worker[w].last
  /\ worker' = [worker EXCEPT ![w] = IdleWorker]
  /\ UNCHANGED <<storeVars, readModel, deadLetters, announced, failures>>

-----------------------------------------------------------------------------
(* Failures.                                                               *)

(* A write whose call fails, or whose process dies, may have been applied. *)
Unsure(w) ==
  \/ UNCHANGED <<readModel, deadLetters, checkpoint>>
  \/ /\ worker[w].phase = "writing" /\ readModel' = Saved(w)
     /\ UNCHANGED <<deadLetters, checkpoint>>
  \/ /\ worker[w].phase = "burying" /\ deadLetters' = deadLetters \cup {Current(w)}
     /\ UNCHANGED <<readModel, checkpoint>>
  \/ /\ worker[w].phase = "saving" /\ checkpoint' = worker[w].last
     /\ UNCHANGED <<readModel, deadLetters>>

(* A database call fails while an event is projected.  The event is tried  *)
(* again, from the start.                                                  *)
FailAttempt(w) ==
  /\ failures < MaxFailures
  /\ worker[w].phase \in {"finding", "healing", "checking", "writing"}
  /\ failures' = failures + 1
  /\ Unsure(w)
  /\ worker' = [worker EXCEPT ![w] =
       [@ EXCEPT !.base = <<>>, !.next = <<>>, !.stored = 0,
                 !.phase   = IF worker[w].attempt = MaxRetries THEN "burying" ELSE "finding",
                 !.attempt = IF worker[w].attempt = MaxRetries THEN MaxRetries
                             ELSE worker[w].attempt + 1]]
  /\ UNCHANGED <<storeVars, announced>>

(* The attempts are exhausted: the event is set aside and passed over.     *)
DeadLetter(w) ==
  /\ worker[w].phase = "burying"
  /\ deadLetters' = deadLetters \cup {Current(w)}
  /\ worker' = [worker EXCEPT ![w] = NextEvent(w, @)]
  /\ UNCHANGED <<storeVars, readModel, checkpoint, announced, failures>>

(* A worker that holds nothing: between two iterations, or at none.        *)
At(phase) == [IdleWorker EXCEPT !.phase = phase]

(* A call outside the retried part fails and ends the iteration.           *)
FailIteration(w) ==
  /\ failures < MaxFailures
  /\ worker[w].phase \in {"idle", "fetching", "burying", "saving"}
  /\ failures' = failures + 1
  /\ Unsure(w)
  /\ worker' = [worker EXCEPT ![w] = At("recording")]
  /\ UNCHANGED <<storeVars, announced>>

(* The loop caught it, records the failure and polls again.                *)
RecordFailure(w) ==
  /\ worker[w].phase = "recording"
  /\ worker' = [worker EXCEPT ![w] = IdleWorker]
  /\ UNCHANGED <<storeVars, readModel, checkpoint, deadLetters, announced, failures>>

(* Recording the failure fails too, which nothing catches: the loop has    *)
(* ended, in a process that believes it is running.                        *)
EndLoop(w) ==
  /\ failures < MaxFailures
  /\ worker[w].phase = "recording"
  /\ failures' = failures + 1
  /\ worker' = [worker EXCEPT ![w] = At("stopped")]
  /\ UNCHANGED <<storeVars, readModel, checkpoint, deadLetters, announced>>

(* The process dies: the batch is forgotten, the checkpoint is not.        *)
Crash(w) ==
  /\ failures < MaxFailures
  /\ worker[w].phase # "stopped"
  /\ failures' = failures + 1
  /\ Unsure(w)
  /\ worker' = [worker EXCEPT ![w] = At("stopped")]
  /\ UNCHANGED <<storeVars, announced>>

(* A process is started in the place of the one whose loop ended.          *)
Start(w) ==
  /\ worker[w].phase = "stopped"
  /\ worker' = [worker EXCEPT ![w] = IdleWorker]
  /\ UNCHANGED <<storeVars, readModel, checkpoint, deadLetters, announced, failures>>

-----------------------------------------------------------------------------
Work(w) ==
  \/ LoadCheckpoint(w) \/ Fetch(w) \/ FindProjection(w) \/ HealGap(w)
  \/ CheckStored(w) \/ SaveProjection(w) \/ SaveCheckpoint(w) \/ DeadLetter(w)
  \/ RecordFailure(w)

Fail(w) == FailAttempt(w) \/ FailIteration(w) \/ EndLoop(w) \/ Crash(w)

Next ==
  \/ \E a \in Aggregates : TakeSequence(a)
  \/ Settle
  \/ \E w \in Workers : Work(w) \/ Fail(w) \/ Start(w)

Spec == Init /\ [][Next]_vars

(* A loop goes on as long as it has not ended, and an append in progress   *)
(* ends.  The process of worker.js handles no rejection: it ends with its  *)
(* loop, and docker-compose.yml has it started again.  That of server.js   *)
(* logs the rejection and goes on without a loop; nothing makes anybody    *)
(* start it again, nor a new append.                                       *)
Fairness ==
  /\ WF_vars(Settle)
  /\ \A w \in Workers : WF_vars(Work(w))
  /\ \A w \in Supervised : WF_vars(Start(w))

FairSpec == Spec /\ Fairness

-----------------------------------------------------------------------------
(* Type correctness.                                                       *)

Phases == {"idle", "fetching", "finding", "healing", "checking", "writing",
           "burying", "saving", "recording", "stopped"}

Projections == Seq(1 .. MaxSequence)

TypeOK ==
  /\ events \subseteq EventRecords /\ pending \subseteq EventRecords
  /\ deadLetters \subseteq events /\ overtaken \subseteq events
  /\ counter \in 0 .. MaxSequence /\ checkpoint \in 0 .. counter
  /\ failures \in 0 .. MaxFailures
  /\ readModel \in [Aggregates -> Projections]
  /\ announced \in [Aggregates -> 0 .. MaxSequence]
  /\ worker \in [Workers ->
       [phase : Phases, from : Nat, batch : Seq(EventRecords), last : Nat,
        attempt : 1 .. MaxRetries, base : Projections, next : Projections,
        stored : Nat]]

-----------------------------------------------------------------------------
(* Safety.                                                                 *)

(* A projection always is the fold of an exact prefix of the recorded      *)
(* stream, whatever was retried, repeated, missed or overtaken: no state   *)
(* is ever shown that the shipment was not in.                             *)
ProjectionIsPrefix ==
  \A a \in Aggregates :
    /\ readModel[a] = [i \in 1 .. Len(readModel[a]) |-> i]
    /\ Len(readModel[a]) <= CurrentVersion(a)

(* Nothing the checkpoint has passed is missing from the read model, dead  *)
(* letters apart and the events that another append overtook.              *)
CheckpointCovers ==
  \A e \in events : e.seq <= checkpoint =>
    \/ e.version <= Version(readModel[e.agg])
    \/ e \in deadLetters \cup overtaken

(* "The bus publishes *after* the projection has been committed": whoever  *)
(* is told of a version can read it.                                       *)
AnnouncedIsReadable ==
  \A a \in Aggregates : announced[a] <= Version(readModel[a])

-----------------------------------------------------------------------------
(* Liveness.                                                               *)

Among(a, v, set) == \E e \in set : e.agg = a /\ e.version = v

Recorded(a, v) == Among(a, v, events)

(* "still converge": every recorded event eventually is in the read model, *)
(* or set aside as a dead letter, although nothing else is ever recorded.  *)
EventuallyProjected ==
  \A a \in Aggregates, v \in 1 .. MaxSequence :
    Recorded(a, v) ~> v <= Version(readModel[a]) \/ Among(a, v, deadLetters)

(* So is every event that no other append overtook, whatever calls fail    *)
(* and however often the loop ends or the process dies, if the process is  *)
(* then started again.                                                     *)
InOrderIsProjected ==
  \A a \in Aggregates, v \in 1 .. MaxSequence :
    Recorded(a, v) ~>
      v <= Version(readModel[a]) \/ Among(a, v, deadLetters \cup overtaken)
=============================================================================
