----------------------- MODULE ReadModelRebuild_proofs -----------------------
(***************************************************************************)
(* What the read side guarantees: the workers of ProjectionWorker.tla, any *)
(* number of them and then one alone, and the rebuild script beside them.  *)
(*                                                                         *)
(* Documents are exact prefixes of their streams, for any number of        *)
(* workers, appends that overtake each other, failures and crashes:        *)
(* versions of a shipment are recorded without a gap, and only added.  So  *)
(* what was an exact prefix when a worker read it is one still; one version*)
(* more, or the missing ones in order, make a longer prefix; and whichever *)
(* write comes last, and however old what it was computed from, it leaves a*)
(* prefix.  What the script replays is a whole stream as it was read, a    *)
(* prefix, and stays one.                                                  *)
(*                                                                         *)
(* A lone worker announces only what can be read, and its checkpoint       *)
(* passes over nothing, dead letters apart, that was not inserted after an *)
(* event of a higher sequence: OneWorker is a premise of these statements. *)
(***************************************************************************)
EXTENDS ReadModelRebuild, FiniteSetTheorems, SequenceTheorems, TLAPS

Prefix(n) == [i \in 1 .. n |-> i]

IsReplay(projection, a) == \E n \in 0 .. CurrentVersion(a) : projection = Prefix(n)

StreamOf(a) == {e \in events : e.agg = a}

EventsOK ==
  /\ IsFiniteSet(events)
  /\ \A e \in events \cup pending : e.agg \in Aggregates /\ e.version \in Nat
  /\ \A e \in events : 1 <= e.version /\ e.version <= CurrentVersion(e.agg)
  /\ \A a \in Aggregates : \A v \in 1 .. CurrentVersion(a) : Recorded(a, v)

Busy == {"finding", "healing", "checking", "writing", "burying"}

Attributes == {"phase", "from", "batch", "last", "attempt", "base", "next", "stored"}

(* What a worker holds at each of its phases.                              *)
WorkerOK(w) ==
  /\ DOMAIN worker[w] = Attributes
  /\ worker[w].batch \in Seq(events)
  /\ worker[w].phase \in Busy => worker[w].batch # <<>>
  /\ worker[w].phase = "healing" =>
       /\ IsReplay(worker[w].base, Current(w).agg)
       /\ Version(worker[w].base) < Current(w).version
  /\ worker[w].phase \in {"checking", "writing"} => IsReplay(worker[w].next, Current(w).agg)
  /\ worker[w].phase = "writing" => worker[w].stored \in Nat

DocumentsOK ==
  /\ DOMAIN readModel = Aggregates
  /\ \A a \in Aggregates : IsReplay(readModel[a], a)

WorkersOK == DOMAIN worker = Workers /\ \A w \in Workers : WorkerOK(w)

PrefixInv == EventsOK /\ DocumentsOK /\ WorkersOK

-----------------------------------------------------------------------------
(* Prefixes.                                                               *)

LEMMA PrefixFacts ==
  ASSUME NEW n \in Nat
  PROVE  /\ Prefix(n) \in Seq(Nat) /\ Len(Prefix(n)) = n
         /\ Version(Prefix(n)) = n
         /\ Append(Prefix(n), n + 1) = Prefix(n + 1)
<1>1. Prefix(n) \in Seq(Nat) /\ Len(Prefix(n)) = n
  BY DEF Prefix
<1>2. Version(Prefix(n)) = n
  <2>1. CASE n = 0
    BY <1>1, <2>1 DEF Version
  <2>2. CASE n # 0
    <3>1. Prefix(n) # <<>>
      BY <1>1, <2>2
    <3>2. Prefix(n)[n] = n
      BY <2>2 DEF Prefix
    <3>. QED
      BY <1>1, <3>1, <3>2 DEF Version, Last
  <2>. QED
    BY <2>1, <2>2
<1>3. Append(Prefix(n), n + 1) = Prefix(n + 1)
  <2>1. Append(Prefix(n), n + 1) \in Seq(Nat) /\ Len(Append(Prefix(n), n + 1)) = n + 1
    BY <1>1
  <2>2. Prefix(n + 1) \in Seq(Nat) /\ Len(Prefix(n + 1)) = n + 1
    BY DEF Prefix
  <2>3. ASSUME NEW i \in 1 .. n + 1
        PROVE  Append(Prefix(n), n + 1)[i] = Prefix(n + 1)[i]
    BY <1>1 DEF Prefix
  <2>. QED
    BY <2>1, <2>2, <2>3
<1>. QED
  BY <1>1, <1>2, <1>3

LEMMA AscendingInterval ==
  ASSUME NEW lo \in Nat, NEW hi \in Nat, lo <= hi
  PROVE  Ascending(lo + 1 .. hi) = [i \in 1 .. hi - lo |-> lo + i]
<1>. DEFINE S == lo + 1 .. hi
<1>0. lo + 1 \in Int /\ hi \in Int
  OBVIOUS
<1>1. Cardinality(S) = hi - lo
  <2>1. Cardinality(S) = IF lo + 1 > hi THEN 0 ELSE hi - (lo + 1) + 1
    BY <1>0, FS_Interval
  <2>. HIDE DEF S
  <2>. QED
    BY <2>1
<1>2. ASSUME NEW v \in S
      PROVE  Cardinality({u \in S : u < v}) = v - lo - 1
  <2>1. {u \in S : u < v} = lo + 1 .. v - 1
    OBVIOUS
  <2>2. v \in Int /\ v - 1 \in Int /\ lo + 1 <= v
    OBVIOUS
  <2>3. Cardinality(lo + 1 .. v - 1) = IF lo + 1 > v - 1 THEN 0 ELSE v - 1 - (lo + 1) + 1
    BY <1>0, <2>2, FS_Interval
  <2>4. Cardinality({u \in S : u < v}) = IF lo + 1 > v - 1 THEN 0 ELSE v - 1 - (lo + 1) + 1
    BY <2>1, <2>3
  <2>. HIDE DEF S
  <2>. QED
    BY <1>0, <2>2, <2>4
<1>3. ASSUME NEW i \in 1 .. hi - lo
      PROVE  (CHOOSE v \in S : Cardinality({u \in S : u < v}) = i - 1) = lo + i
  <2>1. lo + i \in S /\ Cardinality({u \in S : u < lo + i}) = i - 1
    BY <1>2
  <2>2. \A v \in S : Cardinality({u \in S : u < v}) = i - 1 => v = lo + i
    BY <1>2
  <2>. HIDE DEF S
  <2>. QED
    BY <2>1, <2>2
<1>. HIDE DEF S
<1>4. Ascending(S) = [i \in 1 .. hi - lo |-> lo + i]
  BY <1>1, <1>3 DEF Ascending
<1>. QED
  BY <1>4 DEF S

LEMMA PrefixExtended ==
  ASSUME NEW lo \in Nat, NEW hi \in Nat, lo <= hi
  PROVE  Prefix(lo) \o Ascending(lo + 1 .. hi) = Prefix(hi)
<1>. DEFINE rest == [i \in 1 .. hi - lo |-> lo + i]
<1>1. Ascending(lo + 1 .. hi) = rest
  BY AscendingInterval
<1>2. rest \in Seq(Nat) /\ Len(rest) = hi - lo
  OBVIOUS
<1>3. /\ Prefix(lo) \in Seq(Nat) /\ Len(Prefix(lo)) = lo
      /\ Prefix(hi) \in Seq(Nat) /\ Len(Prefix(hi)) = hi
  BY PrefixFacts
<1>4. ASSUME NEW i \in 1 .. hi
      PROVE  (Prefix(lo) \o rest)[i] = i /\ Prefix(hi)[i] = i
  <2>0. Prefix(hi)[i] = i /\ (i <= lo => Prefix(lo)[i] = i) /\ (i > lo => rest[i - lo] = i)
    BY DEF Prefix
  <2>. HIDE DEF rest
  <2>1. (Prefix(lo) \o rest)[i] = IF i <= lo THEN Prefix(lo)[i] ELSE rest[i - lo]
    BY <1>2, <1>3
  <2>. QED
    BY <2>0, <2>1
<1>5. Prefix(lo) \o rest \in Seq(Nat) /\ Len(Prefix(lo) \o rest) = hi
  BY <1>2, <1>3
<1>6. Prefix(lo) \o rest = Prefix(hi)
  <2>. HIDE DEF rest
  <2>. QED
    BY <1>3, <1>4, <1>5
<1>. QED
  BY <1>1, <1>6

-----------------------------------------------------------------------------
(* The streams.                                                            *)

LEMMA CurrentVersionType ==
  ASSUME EventsOK, NEW a
  PROVE  CurrentVersion(a) \in Nat /\ IsFiniteSet(StreamOf(a))
<1>1. IsFiniteSet(StreamOf(a))
  BY FS_Subset DEF EventsOK, StreamOf
<1>. QED
  BY <1>1, FS_CardinalityType DEF CurrentVersion, StreamOf

LEMMA VersionOfPrefix ==
  ASSUME EventsOK, NEW a, NEW projection, IsReplay(projection, a)
  PROVE  Version(projection) \in Nat
<1>1. CurrentVersion(a) \in Nat
  BY CurrentVersionType
<1>2. PICK n \in 0 .. CurrentVersion(a) : projection = Prefix(n)
  BY DEF IsReplay
<1>3. n \in Nat
  BY <1>1
<1>. QED
  BY <1>2, <1>3, PrefixFacts

Missing(a, lo, hi) ==
  {d.version : d \in {f \in events : f.agg = a /\ lo < f.version /\ f.version <= hi}}

(* The versions that a gap, or a rebuild, reads are all there.             *)
LEMMA NothingMissing ==
  ASSUME EventsOK, NEW a \in Aggregates, NEW lo \in Nat, NEW hi \in 0 .. CurrentVersion(a)
  PROVE  Missing(a, lo, hi) = lo + 1 .. hi
<1>. DEFINE V == Missing(a, lo, hi)
<1>0. CurrentVersion(a) \in Nat
  BY CurrentVersionType
<1>1. ASSUME NEW v \in V
      PROVE  v \in lo + 1 .. hi
  <2>1. PICK f \in events : v = f.version /\ lo < f.version /\ f.version <= hi
    BY DEF Missing
  <2>2. f.version \in Nat
    BY DEF EventsOK
  <2>. QED
    BY <1>0, <2>1, <2>2
<1>2. ASSUME NEW v \in lo + 1 .. hi
      PROVE  v \in V
  <2>1. v \in 1 .. CurrentVersion(a)
    BY <1>0
  <2>2. PICK f \in events : f.agg = a /\ f.version = v
    BY <2>1 DEF EventsOK, Recorded, Among
  <2>. QED
    BY <1>0, <2>2 DEF Missing
<1>. HIDE DEF V
<1>3. V = lo + 1 .. hi
  BY <1>1, <1>2
<1>. QED
  BY <1>3 DEF V

(* Versions are only added, and without a gap.                             *)
EventsKept ==
  events \subseteq events' /\ \A a \in Aggregates : CurrentVersion(a) <= CurrentVersion(a)'

LEMMA InsertStep ==
  ASSUME EventsOK, NEW e \in pending, Insert(e)
  PROVE  EventsOK' /\ EventsKept
<1>1. /\ e.agg \in Aggregates /\ e.version \in Nat
      /\ events' = events \cup {e} /\ pending' \subseteq pending
      /\ CurrentVersion(e.agg) \in Nat /\ e.version = CurrentVersion(e.agg) + 1
  BY CurrentVersionType DEF EventsOK, Insert
<1>2. e \notin events
  BY <1>1 DEF EventsOK
<1>3. ASSUME NEW a \in Aggregates
      PROVE  CurrentVersion(a)' = IF a = e.agg THEN CurrentVersion(a) + 1 ELSE CurrentVersion(a)
  <2>1. StreamOf(a)' = IF a = e.agg THEN StreamOf(a) \cup {e} ELSE StreamOf(a)
    BY <1>1 DEF StreamOf
  <2>2. IsFiniteSet(StreamOf(a)) /\ e \notin StreamOf(a)
    BY <1>2, CurrentVersionType DEF StreamOf
  <2>3. Cardinality(StreamOf(a) \cup {e}) = Cardinality(StreamOf(a)) + 1
    BY <2>2, FS_AddElement
  <2>. QED
    BY <2>1, <2>3 DEF CurrentVersion, StreamOf
<1>4. EventsKept
  BY <1>1, <1>3, CurrentVersionType DEF EventsKept
<1>5. IsFiniteSet(events')
  BY <1>1, FS_AddElement DEF EventsOK
<1>6. ASSUME NEW d \in events'
      PROVE  1 <= d.version /\ d.version <= CurrentVersion(d.agg)'
  <2>1. CASE d = e
    BY <1>1, <1>3, <2>1
  <2>2. CASE d \in events
    <3>1. d.agg \in Aggregates /\ d.version \in Nat /\ CurrentVersion(d.agg) \in Nat
          /\ 1 <= d.version /\ d.version <= CurrentVersion(d.agg)
      BY <2>2, CurrentVersionType DEF EventsOK
    <3>2. CurrentVersion(d.agg)' \in {CurrentVersion(d.agg), CurrentVersion(d.agg) + 1}
      BY <1>3, <3>1
    <3>. QED
      BY <3>1, <3>2
  <2>. QED
    BY <1>1, <2>1, <2>2
<1>7. ASSUME NEW a \in Aggregates, NEW v \in 1 .. CurrentVersion(a)'
      PROVE  Recorded(a, v)'
  <2>1. CASE v \in 1 .. CurrentVersion(a)
    BY <1>1, <2>1 DEF EventsOK, Recorded, Among
  <2>2. CASE v \notin 1 .. CurrentVersion(a)
    <3>1. CurrentVersion(a) \in Nat
      BY CurrentVersionType
    <3>2. a = e.agg /\ v = e.version
      BY <1>1, <1>3, <2>2, <3>1
    <3>. QED
      BY <1>1, <3>2 DEF Recorded, Among
  <2>. QED
    BY <2>1, <2>2
<1>8. \A d \in events' \cup pending' : d.agg \in Aggregates /\ d.version \in Nat
  BY <1>1 DEF EventsOK
<1>. QED
  BY <1>4, <1>5, <1>6, <1>7, <1>8 DEF EventsOK

LEMMA StoreStep ==
  ASSUME EventsOK, (\E a \in Aggregates : TakeSequence(a)) \/ Settle
  PROVE  EventsOK' /\ EventsKept
<1>1. ASSUME NEW a \in Aggregates, TakeSequence(a)
      PROVE  EventsOK' /\ EventsKept
  <2>1. /\ events' = events
        /\ pending' = pending \cup {[agg |-> a, version |-> CurrentVersion(a) + 1,
                                     seq |-> counter + 1]}
    BY <1>1 DEF TakeSequence
  <2>2. \A b \in Aggregates : CurrentVersion(b)' = CurrentVersion(b) /\ CurrentVersion(b) \in Nat
    BY <2>1, CurrentVersionType DEF CurrentVersion
  <2>3. \A d \in pending' : d.agg \in Aggregates /\ d.version \in Nat
    BY <2>1, <2>2 DEF EventsOK
  <2>. QED
    BY <2>1, <2>2, <2>3 DEF EventsOK, EventsKept, Recorded, Among
<1>2. ASSUME NEW e \in pending, Insert(e)
      PROVE  EventsOK' /\ EventsKept
  BY <1>2, InsertStep
<1>3. ASSUME NEW e \in pending, Abandon(e)
      PROVE  EventsOK' /\ EventsKept
  <2>1. events' = events /\ pending' \subseteq pending
    BY <1>3 DEF Abandon
  <2>2. \A b \in Aggregates : CurrentVersion(b)' = CurrentVersion(b) /\ CurrentVersion(b) \in Nat
    BY <2>1, CurrentVersionType DEF CurrentVersion
  <2>. QED
    BY <2>1, <2>2 DEF EventsOK, EventsKept, Recorded, Among
<1>. QED
  BY <1>1, <1>2, <1>3 DEF Settle

(* What is a prefix stays one.                                             *)
LEMMA PrefixKept ==
  ASSUME EventsOK, EventsOK', EventsKept, NEW a \in Aggregates, NEW projection,
         IsReplay(projection, a)
  PROVE  \E n \in 0 .. CurrentVersion(a)' : projection = Prefix(n)
<1>1. CurrentVersion(a) \in Nat /\ CurrentVersion(a)' \in Nat
  <2>1. CurrentVersion(a) \in Nat
    BY CurrentVersionType
  <2>2. IsFiniteSet(StreamOf(a)')
    BY FS_Subset DEF EventsOK, StreamOf
  <2>. QED
    BY <2>1, <2>2, FS_CardinalityType DEF CurrentVersion, StreamOf
<1>. QED
  BY <1>1 DEF IsReplay, EventsKept

(* The current event of a worker that has one was recorded.                *)
LEMMA CurrentIsRecorded ==
  ASSUME EventsOK, NEW w \in Workers, WorkerOK(w), worker[w].phase \in Busy
  PROVE  /\ Current(w) \in events /\ Current(w).agg \in Aggregates
         /\ Current(w).version \in Nat /\ 1 <= Current(w).version
         /\ Current(w).version <= CurrentVersion(Current(w).agg)
<1>1. worker[w].batch \in Seq(events) /\ worker[w].batch # <<>>
  BY DEF WorkerOK
<1>2. Current(w) \in events
  BY <1>1 DEF Current
<1>. QED
  BY <1>2 DEF EventsOK

(* Nothing happened to a worker.                                           *)
LEMMA WorkerKept ==
  ASSUME EventsOK, EventsOK', EventsKept, NEW w \in Workers, WorkerOK(w),
         worker'[w] = worker[w]
  PROVE  WorkerOK(w)'
<1>1. worker'[w].batch \in Seq(events')
  BY DEF WorkerOK, EventsKept
<1>2. Current(w)' = Current(w)
  BY DEF Current
<1>3. ASSUME worker[w].phase = "healing"
      PROVE  /\ IsReplay(worker[w].base, Current(w).agg)'
             /\ Version(worker'[w].base) < Current(w)'.version
  <2>1. Current(w).agg \in Aggregates /\ IsReplay(worker[w].base, Current(w).agg)
    BY <1>3, CurrentIsRecorded DEF Busy, WorkerOK
  <2>2. \E n \in 0 .. CurrentVersion(Current(w).agg)' : worker[w].base = Prefix(n)
    BY <1>2, <2>1, PrefixKept DEF CurrentVersion
  <2>. QED
    BY <1>2, <1>3, <2>2 DEF IsReplay, WorkerOK
<1>4. ASSUME worker[w].phase \in {"checking", "writing"}
      PROVE  IsReplay(worker[w].next, Current(w).agg)'
  <2>1. Current(w).agg \in Aggregates /\ IsReplay(worker[w].next, Current(w).agg)
    BY <1>4, CurrentIsRecorded DEF Busy, WorkerOK
  <2>2. \E n \in 0 .. CurrentVersion(Current(w).agg)' : worker[w].next = Prefix(n)
    BY <1>2, <2>1, PrefixKept DEF CurrentVersion
  <2>. QED
    BY <1>2, <2>2 DEF IsReplay
<1>. QED
  BY <1>1, <1>3, <1>4 DEF WorkerOK

-----------------------------------------------------------------------------
(* One step of one worker.                                                 *)

LEMMA OneWorkerMoves ==
  ASSUME PrefixInv, NEW w \in Workers, events' = events, pending' = pending,
         DOMAIN worker' = Workers, \A v \in Workers \ {w} : worker'[v] = worker[v],
         WorkerOK(w)', DocumentsOK'
  PROVE  PrefixInv'
<1>1. EventsOK' /\ EventsKept
  <2>1. \A a : CurrentVersion(a)' = CurrentVersion(a) /\ CurrentVersion(a) \in Nat
    BY CurrentVersionType DEF PrefixInv, CurrentVersion
  <2>2. EventsOK'
    BY <2>1 DEF PrefixInv, EventsOK, Recorded, Among
  <2>. QED
    BY <2>1, <2>2 DEF EventsKept
<1>2. ASSUME NEW v \in Workers \ {w}
      PROVE  WorkerOK(v)'
  BY <1>1, WorkerKept DEF PrefixInv, WorkersOK
<1>. QED
  BY <1>1, <1>2 DEF PrefixInv, WorkersOK

(* What a worker is that holds nothing, and the steps that leave it so.    *)
EmptyHanded == {IdleWorker, At("recording"), At("stopped")}

Leave(w) ==
  \/ SaveCheckpoint(w) \/ FailIteration(w) \/ RecordFailure(w) \/ EndLoop(w)
  \/ Crash(w) \/ Start(w)

LEMMA IdleIsOK ==
  ASSUME NEW w \in Workers, worker'[w] \in EmptyHanded
  PROVE  /\ WorkerOK(w)'
         /\ worker'[w].batch = <<>>
         /\ worker'[w].phase \in {"idle", "recording", "stopped"}
<1>1. /\ DOMAIN worker'[w] = Attributes /\ worker'[w].batch = <<>>
      /\ worker'[w].phase \in {"idle", "recording", "stopped"}
  BY DEF EmptyHanded, At, IdleWorker, Attributes
<1>2. <<>> \in Seq(events')
  BY EmptySeq
<1>. QED
  BY <1>1, <1>2 DEF WorkerOK, Busy

LEMMA LeaveFacts ==
  ASSUME NEW w \in Workers, DOMAIN worker = Workers, Leave(w)
  PROVE  /\ UNCHANGED <<storeVars, announced>>
         /\ DOMAIN worker' = Workers /\ worker'[w] \in EmptyHanded
         /\ \A v \in Workers \ {w} : worker'[v] = worker[v]
         /\ \/ SaveCheckpoint(w) \/ Unsure(w)
            \/ UNCHANGED <<readModel, deadLetters, checkpoint>>
<1>1. UNCHANGED <<storeVars, announced>>
  BY DEF Leave, SaveCheckpoint, FailIteration, RecordFailure, EndLoop, Crash, Start
<1>2. \E left \in EmptyHanded : worker' = [worker EXCEPT ![w] = left]
  BY DEF Leave, SaveCheckpoint, FailIteration, RecordFailure, EndLoop, Crash, Start, EmptyHanded
<1>3. \/ SaveCheckpoint(w) \/ Unsure(w)
      \/ UNCHANGED <<readModel, deadLetters, checkpoint>>
  BY DEF Leave, SaveCheckpoint, FailIteration, RecordFailure, EndLoop, Crash, Start
<1>4. PICK left \in EmptyHanded : worker' = [worker EXCEPT ![w] = left]
  BY <1>2
<1>. QED
  BY <1>1, <1>3, <1>4

LEMMA TailOfMore ==
  ASSUME NEW S, NEW s \in Seq(S), s # <<>>
  PROVE  Tail(s) \in Seq(S) /\ (Len(s) # 1 => Tail(s) # <<>>)
<1>. DEFINE t == Tail(s)
<1>1. t \in Seq(S) /\ Len(t) = Len(s) - 1
  BY HeadTailProperties
<1>2. Len(s) \in Nat
  BY LenProperties
<1>3. Len(<<>>) = 0
  BY EmptySeq
<1>. HIDE DEF t
<1>4. t = <<>> => Len(s) = 1
  BY <1>1, <1>2, <1>3
<1>. QED
  BY <1>1, <1>4 DEF t

(* The event at hand is done with.                                         *)
LEMMA NextEventIsOK ==
  ASSUME NEW w \in Workers, WorkerOK(w), worker[w].phase \in Busy, events' = events,
         worker'[w] = NextEvent(w, worker[w])
  PROVE  WorkerOK(w)'
<1>1. worker[w].batch \in Seq(events) /\ worker[w].batch # <<>>
      /\ DOMAIN worker[w] = Attributes
  BY DEF WorkerOK
<1>2. /\ DOMAIN worker'[w] = Attributes
      /\ worker'[w].batch = Tail(worker[w].batch)
      /\ worker'[w].phase = IF Len(worker[w].batch) = 1 THEN "saving" ELSE "finding"
  BY <1>1 DEF NextEvent, Attributes
<1>3. /\ Tail(worker[w].batch) \in Seq(events)
      /\ Len(worker[w].batch) # 1 => Tail(worker[w].batch) # <<>>
  BY <1>1, TailOfMore
<1>. QED
  BY <1>2, <1>3 DEF WorkerOK, Busy

LEMMA DocumentsKept ==
  ASSUME DocumentsOK, events' = events, readModel' = readModel
  PROVE  DocumentsOK'
BY DEF DocumentsOK, IsReplay, CurrentVersion

(* A batch is read, or there is none.                                      *)
LEMMA FetchStep ==
  ASSUME PrefixInv, NEW w \in Workers, Fetch(w)
  PROVE  PrefixInv'
<1>0. /\ WorkerOK(w) /\ DOMAIN worker = Workers
      /\ events' = events /\ pending' = pending /\ readModel' = readModel
  BY DEF PrefixInv, WorkersOK, Fetch, storeVars
<1>1. PICK batch \in Batches(worker[w].from) : Fetched(w, batch)
  BY DEF Fetch
<1>2. batch \in Seq(events)
  <2>. DEFINE after == {e \in events : e.seq > worker[w].from}
              size  == IF Cardinality(after) < BatchSize THEN Cardinality(after) ELSE BatchSize
  <2>1. batch \in [1 .. size -> after]
    BY DEF Batches
  <2>2. IsFiniteSet(after)
    BY FS_Subset DEF PrefixInv, EventsOK
  <2>3. size \in Nat
    BY <2>2, FS_CardinalityType, ProjectionAssumption
  <2>. HIDE DEF size
  <2>. QED
    BY <2>1, <2>3
<1>3. DOMAIN worker' = Workers /\ \A v \in Workers \ {w} : worker'[v] = worker[v]
  BY <1>0, <1>1 DEF Fetched
<1>4. WorkerOK(w)'
  <2>1. CASE batch = <<>>
    <3>1. worker'[w] = IdleWorker
      BY <1>0, <1>1, <2>1 DEF Fetched
    <3>. QED
      BY <3>1, IdleIsOK DEF EmptyHanded
  <2>2. CASE batch # <<>>
    <3>1. worker'[w] = [worker[w] EXCEPT !.phase = "finding", !.from = 0, !.batch = batch]
      BY <1>0, <1>1, <2>2 DEF Fetched
    <3>2. /\ DOMAIN worker'[w] = Attributes
          /\ worker'[w].phase = "finding" /\ worker'[w].batch = batch
      BY <1>0, <3>1 DEF WorkerOK, Attributes
    <3>. QED
      BY <1>0, <1>2, <2>2, <3>2 DEF WorkerOK, Busy
  <2>. QED
    BY <2>1, <2>2
<1>. QED
  BY <1>0, <1>3, <1>4, OneWorkerMoves, DocumentsKept DEF PrefixInv

(* Done already, the next version, or a gap.                               *)
LEMMA FindStep ==
  ASSUME PrefixInv, NEW w \in Workers, FindProjection(w)
  PROVE  PrefixInv'
<1>. DEFINE e == Current(w)
            found == readModel[e.agg]
<1>0. /\ WorkerOK(w) /\ DOMAIN worker = Workers /\ worker[w].phase = "finding"
      /\ events' = events /\ pending' = pending /\ readModel' = readModel
      /\ EventsOK /\ DocumentsOK
  BY DEF PrefixInv, WorkersOK, FindProjection, storeVars
<1>1. /\ e \in events /\ e.agg \in Aggregates /\ e.version \in Nat
      /\ e.version <= CurrentVersion(e.agg) /\ CurrentVersion(e.agg) \in Nat
  BY <1>0, CurrentIsRecorded, CurrentVersionType DEF Busy
<1>2. PICK n \in 0 .. CurrentVersion(e.agg) : found = Prefix(n)
  BY <1>0, <1>1 DEF DocumentsOK, IsReplay
<1>3. /\ worker' = [worker EXCEPT ![w] =
           IF e.version <= Version(found) THEN NextEvent(w, worker[w])
           ELSE IF e.version = Version(found) + 1
             THEN [worker[w] EXCEPT !.phase = "checking", !.base = found,
                                    !.next = Append(found, e.version)]
           ELSE [worker[w] EXCEPT !.phase = "healing", !.base = found]]
  BY DEF FindProjection
<1>4. DOMAIN worker' = Workers /\ \A v \in Workers \ {w} : worker'[v] = worker[v]
  BY <1>0, <1>3
<1>5. n \in Nat /\ Version(found) = n /\ Append(found, n + 1) = Prefix(n + 1)
  BY <1>1, <1>2, PrefixFacts
<1>6. CASE e.version <= n
  <2>1. worker'[w] = NextEvent(w, worker[w])
    BY <1>0, <1>3, <1>5, <1>6
  <2>2. WorkerOK(w)'
    BY <1>0, <2>1, NextEventIsOK DEF Busy
  <2>. QED
    BY <1>0, <1>4, <2>2, OneWorkerMoves, DocumentsKept
<1>7. CASE e.version = n + 1
  <2>0. ~(e.version <= Version(found)) /\ e.version = Version(found) + 1
        /\ Append(found, e.version) = Prefix(n + 1)
    BY <1>1, <1>5, <1>7
  <2>1. worker'[w] = [worker[w] EXCEPT !.phase = "checking", !.base = found,
                                       !.next = Prefix(n + 1)]
    <3>1. worker'[w] = [worker[w] EXCEPT !.phase = "checking", !.base = found,
                                         !.next = Append(found, e.version)]
      BY <1>0, <1>3, <2>0
    <3>. QED
      BY <2>0, <3>1
  <2>2. /\ DOMAIN worker'[w] = Attributes /\ worker'[w].batch = worker[w].batch
        /\ worker'[w].phase = "checking" /\ worker'[w].next = Prefix(n + 1)
    BY <1>0, <2>1 DEF WorkerOK, Attributes
  <2>3. Current(w)' = e /\ CurrentVersion(e.agg)' = CurrentVersion(e.agg)
    BY <1>0, <2>2 DEF Current, CurrentVersion
  <2>4. IsReplay(worker[w].next, Current(w).agg)'
    <3>1. \E k \in 0 .. CurrentVersion(e.agg)' : Prefix(n + 1) = Prefix(k)
      BY <1>1, <1>5, <1>7, <2>3
    <3>. QED
      BY <2>2, <2>3, <3>1 DEF IsReplay
  <2>5. WorkerOK(w)'
    BY <1>0, <2>2, <2>4 DEF WorkerOK, Busy
  <2>. QED
    BY <1>0, <1>4, <2>5, OneWorkerMoves, DocumentsKept
<1>8. CASE e.version > n + 1
  <2>1. worker'[w] = [worker[w] EXCEPT !.phase = "healing", !.base = found]
    BY <1>0, <1>1, <1>3, <1>5, <1>8
  <2>2. /\ DOMAIN worker'[w] = Attributes /\ worker'[w].batch = worker[w].batch
        /\ worker'[w].phase = "healing" /\ worker'[w].base = found
    BY <1>0, <2>1 DEF WorkerOK, Attributes
  <2>3. Current(w)' = e /\ CurrentVersion(e.agg)' = CurrentVersion(e.agg)
    BY <1>0, <2>2 DEF Current, CurrentVersion
  <2>4. /\ IsReplay(worker[w].base, Current(w).agg)'
        /\ Version(worker'[w].base) < Current(w)'.version
    <3>1. \E k \in 0 .. CurrentVersion(e.agg)' : found = Prefix(k)
      BY <1>2, <2>3
    <3>2. Version(found) < e.version
      BY <1>1, <1>5, <1>8
    <3>3. IsReplay(worker[w].base, Current(w).agg)'
      BY <2>2, <2>3, <3>1 DEF IsReplay
    <3>4. Version(worker'[w].base) < Current(w)'.version
      <4>. HIDE DEF e, found
      <4>. QED
        BY <2>2, <2>3, <3>2
    <3>. QED
      BY <3>3, <3>4
  <2>5. WorkerOK(w)'
    BY <1>0, <2>2, <2>4 DEF WorkerOK, Busy
  <2>. QED
    BY <1>0, <1>4, <2>5, OneWorkerMoves, DocumentsKept
<1>. QED
  BY <1>1, <1>5, <1>6, <1>7, <1>8

(* What is healed is the document of the event that revealed the gap.      *)
LEMMA HealedIsPrefix ==
  ASSUME PrefixInv, NEW w \in Workers, worker[w].phase = "healing"
  PROVE  LET e == Current(w)
             base == worker[w].base
         IN  base \o Ascending(Missing(e.agg, Version(base), e.version)) = Prefix(e.version)
<1>. DEFINE e == Current(w)
            base == worker[w].base
            missing == Missing(e.agg, Version(base), e.version)
<1>0. WorkerOK(w) /\ EventsOK
  BY DEF PrefixInv, WorkersOK
<1>1. /\ e \in events /\ e.agg \in Aggregates /\ e.version \in Nat
      /\ e.version <= CurrentVersion(e.agg) /\ CurrentVersion(e.agg) \in Nat
  BY <1>0, CurrentIsRecorded, CurrentVersionType DEF Busy
<1>2. PICK n \in 0 .. CurrentVersion(e.agg) : base = Prefix(n)
  BY <1>0 DEF WorkerOK, IsReplay
<1>3. n \in Nat /\ Version(base) = n /\ n < e.version
  <2>1. n \in Nat
    BY <1>1, <1>2
  <2>2. Version(base) = n
    BY <1>2, <2>1, PrefixFacts
  <2>3. Version(base) < e.version
    BY <1>0 DEF WorkerOK
  <2>. QED
    BY <2>1, <2>2, <2>3
<1>4. missing = n + 1 .. e.version
  <2>. HIDE DEF e, base
  <2>1. e.version \in 0 .. CurrentVersion(e.agg)
    BY <1>1
  <2>2. Missing(e.agg, n, e.version) = n + 1 .. e.version
    BY <1>0, <1>1, <1>3, <2>1, NothingMissing
  <2>. QED
    BY <1>3, <2>2
<1>5. base \o Ascending(missing) = Prefix(e.version)
  <2>. HIDE DEF e, missing, base
  <2>0. n \in Nat /\ e.version \in Nat /\ n <= e.version
    BY <1>1, <1>3
  <2>1. Prefix(n) \o Ascending(n + 1 .. e.version) = Prefix(e.version)
    BY <2>0, PrefixExtended
  <2>. QED
    BY <1>2, <1>4, <2>1
<1>. QED
  BY <1>5

(* The missing versions are read.                                          *)
LEMMA HealStep ==
  ASSUME PrefixInv, NEW w \in Workers, HealGap(w)
  PROVE  /\ PrefixInv'
         /\ worker'[w].phase = "checking" /\ Current(w)' = Current(w)
         /\ worker'[w].next = Prefix(Current(w).version)
<1>. DEFINE e == Current(w)
            base == worker[w].base
            missing == Missing(e.agg, Version(base), e.version)
<1>0. /\ WorkerOK(w) /\ DOMAIN worker = Workers /\ worker[w].phase = "healing"
      /\ events' = events /\ pending' = pending /\ readModel' = readModel
      /\ EventsOK /\ DocumentsOK
  BY DEF PrefixInv, WorkersOK, HealGap, storeVars
<1>1. /\ e \in events /\ e.agg \in Aggregates /\ e.version \in Nat
      /\ e.version <= CurrentVersion(e.agg) /\ CurrentVersion(e.agg) \in Nat
  BY <1>0, CurrentIsRecorded, CurrentVersionType DEF Busy
<1>2. base \o Ascending(missing) = Prefix(e.version)
  BY <1>0, HealedIsPrefix
<1>3. worker' = [worker EXCEPT ![w].phase = "checking",
                               ![w].next = base \o Ascending(missing)]
  BY DEF HealGap, Missing
<1>4. DOMAIN worker' = Workers /\ \A v \in Workers \ {w} : worker'[v] = worker[v]
  BY <1>0, <1>3
<1>5. /\ DOMAIN worker'[w] = Attributes /\ worker'[w].batch = worker[w].batch
      /\ worker'[w].phase = "checking" /\ worker'[w].next = Prefix(e.version)
  <2>. HIDE DEF e, missing
  <2>. QED
    BY <1>0, <1>2, <1>3 DEF WorkerOK, Attributes
<1>6. Current(w)' = e /\ CurrentVersion(e.agg)' = CurrentVersion(e.agg)
  BY <1>0, <1>5 DEF Current, CurrentVersion
<1>7. IsReplay(worker[w].next, Current(w).agg)'
  <2>1. \E k \in 0 .. CurrentVersion(e.agg)' : Prefix(e.version) = Prefix(k)
    BY <1>1, <1>6
  <2>. QED
    BY <1>5, <1>6, <2>1 DEF IsReplay
<1>8. WorkerOK(w)'
  BY <1>0, <1>5, <1>7 DEF WorkerOK, Busy
<1>9. PrefixInv'
  BY <1>0, <1>4, <1>8, OneWorkerMoves, DocumentsKept
<1>. QED
  BY <1>5, <1>6, <1>9

(* saveProjection looks first; nothing it needs is lost by that.           *)
LEMMA CheckStoredStep ==
  ASSUME PrefixInv, NEW w \in Workers, CheckStored(w)
  PROVE  PrefixInv'
<1>0. /\ WorkerOK(w) /\ DOMAIN worker = Workers /\ worker[w].phase = "checking"
      /\ events' = events /\ pending' = pending /\ readModel' = readModel
      /\ EventsOK /\ DocumentsOK
  BY DEF PrefixInv, WorkersOK, CheckStored, storeVars
<1>1. worker' = [worker EXCEPT ![w].phase = "writing",
                               ![w].stored = Version(readModel[Current(w).agg])]
  BY DEF CheckStored
<1>2. DOMAIN worker' = Workers /\ \A v \in Workers \ {w} : worker'[v] = worker[v]
  BY <1>0, <1>1
<1>3. /\ DOMAIN worker'[w] = Attributes /\ worker'[w].batch = worker[w].batch
      /\ worker'[w].phase = "writing" /\ worker'[w].next = worker[w].next
  BY <1>0, <1>1 DEF WorkerOK, Attributes
<1>4. IsReplay(worker[w].next, Current(w).agg)'
  <2>1. IsReplay(worker[w].next, Current(w).agg)
    BY <1>0 DEF WorkerOK
  <2>2. Current(w)' = Current(w)
    BY <1>3 DEF Current
  <2>. QED
    BY <1>0, <1>3, <2>1, <2>2 DEF IsReplay, CurrentVersion
<1>5. worker'[w].stored \in Nat
  <2>1. Current(w).agg \in Aggregates
    BY <1>0, CurrentIsRecorded DEF Busy
  <2>2. Version(readModel[Current(w).agg]) \in Nat
    BY <1>0, <2>1, VersionOfPrefix DEF DocumentsOK
  <2>3. worker'[w].stored = Version(readModel[Current(w).agg])
    BY <1>0, <1>1 DEF WorkerOK, Attributes
  <2>. QED
    BY <2>2, <2>3
<1>6. WorkerOK(w)'
  BY <1>0, <1>3, <1>4, <1>5 DEF WorkerOK, Busy
<1>. QED
  BY <1>0, <1>2, <1>6, OneWorkerMoves, DocumentsKept

(* Whatever the write leaves is a prefix.                                  *)
LEMMA SavedIsOK ==
  ASSUME PrefixInv, NEW w \in Workers, worker[w].phase = "writing", events' = events,
         readModel' = Saved(w)
  PROVE  DocumentsOK'
<1>. DEFINE a == Current(w).agg
<1>1. WorkerOK(w) /\ EventsOK /\ DocumentsOK
  BY DEF PrefixInv, WorkersOK
<1>2. a \in Aggregates /\ IsReplay(worker[w].next, a)
  BY <1>1, CurrentIsRecorded DEF WorkerOK, Busy
<1>3. readModel' = readModel \/ readModel' = [readModel EXCEPT ![a] = worker[w].next]
  BY DEF Saved
<1>. HIDE DEF a
<1>. QED
  BY <1>1, <1>2, <1>3 DEF DocumentsOK, IsReplay, CurrentVersion

LEMMA SaveStep ==
  ASSUME PrefixInv, NEW w \in Workers, SaveProjection(w)
  PROVE  PrefixInv'
<1>0. /\ WorkerOK(w) /\ DOMAIN worker = Workers /\ worker[w].phase = "writing"
      /\ events' = events /\ pending' = pending /\ readModel' = Saved(w)
      /\ worker' = [worker EXCEPT ![w] = NextEvent(w, worker[w])]
  BY DEF PrefixInv, WorkersOK, SaveProjection, storeVars
<1>1. DocumentsOK'
  BY <1>0, SavedIsOK
<1>2. WorkerOK(w)'
  BY <1>0, NextEventIsOK DEF Busy
<1>. QED
  BY <1>0, <1>1, <1>2, OneWorkerMoves

(* A write whose outcome is not known leaves a prefix too.                 *)
LEMMA UnsureIsOK ==
  ASSUME PrefixInv, NEW w \in Workers, Unsure(w), events' = events
  PROVE  DocumentsOK'
<1>1. readModel' = readModel \/ (worker[w].phase = "writing" /\ readModel' = Saved(w))
  BY DEF Unsure
<1>. QED
  BY <1>1, SavedIsOK, DocumentsKept DEF PrefixInv

(* Steps that leave a worker with nothing in hand, or the event after.     *)
LEMMA LeaveStep ==
  ASSUME PrefixInv, NEW w \in Workers, Leave(w)
  PROVE  PrefixInv'
<1>0. DOMAIN worker = Workers /\ DocumentsOK
  BY DEF PrefixInv, WorkersOK
<1>1. events' = events /\ pending' = pending
  BY <1>0, LeaveFacts DEF storeVars
<1>2. DocumentsOK'
  BY <1>0, <1>1, LeaveFacts, UnsureIsOK, DocumentsKept DEF SaveCheckpoint
<1>3. WorkerOK(w)'
  BY <1>0, LeaveFacts, IdleIsOK
<1>. QED
  BY <1>0, <1>1, <1>2, <1>3, LeaveFacts, OneWorkerMoves

LEMMA DeadLetterStep ==
  ASSUME PrefixInv, NEW w \in Workers, DeadLetter(w)
  PROVE  PrefixInv'
<1>0. /\ WorkerOK(w) /\ DOMAIN worker = Workers /\ DocumentsOK
      /\ events' = events /\ pending' = pending /\ readModel' = readModel
      /\ worker' = [worker EXCEPT ![w] = NextEvent(w, worker[w])]
      /\ worker[w].phase = "burying"
  BY DEF PrefixInv, WorkersOK, DeadLetter, storeVars
<1>1. WorkerOK(w)'
  BY <1>0, NextEventIsOK DEF Busy
<1>. QED
  BY <1>0, <1>1, OneWorkerMoves, DocumentsKept

LEMMA LoadStep ==
  ASSUME PrefixInv, NEW w \in Workers, LoadCheckpoint(w)
  PROVE  PrefixInv'
<1>0. /\ WorkerOK(w) /\ DOMAIN worker = Workers /\ DocumentsOK
      /\ events' = events /\ pending' = pending /\ readModel' = readModel
      /\ worker' = [worker EXCEPT ![w].phase = "fetching", ![w].from = checkpoint]
  BY DEF PrefixInv, WorkersOK, LoadCheckpoint, storeVars
<1>1. /\ DOMAIN worker'[w] = Attributes /\ worker'[w].batch = worker[w].batch
      /\ worker'[w].phase = "fetching"
  BY <1>0 DEF WorkerOK, Attributes
<1>2. WorkerOK(w)'
  BY <1>0, <1>1 DEF WorkerOK, Busy
<1>. QED
  BY <1>0, <1>2, OneWorkerMoves, DocumentsKept

(* The event at hand is tried again, or given up; a write may have been    *)
(* carried out all the same.                                               *)
LEMMA FailStep ==
  ASSUME PrefixInv, NEW w \in Workers, FailAttempt(w)
  PROVE  PrefixInv'
<1>0. /\ WorkerOK(w) /\ DOMAIN worker = Workers /\ DocumentsOK
      /\ worker[w].phase \in Busy /\ events' = events /\ pending' = pending
  BY DEF PrefixInv, WorkersOK, FailAttempt, storeVars, Busy
<1>1. DocumentsOK'
  BY <1>0, UnsureIsOK DEF FailAttempt
<1>2. worker' = [worker EXCEPT ![w] =
        [worker[w] EXCEPT !.base = <<>>, !.next = <<>>, !.stored = 0,
           !.phase   = IF worker[w].attempt = MaxRetries THEN "burying" ELSE "finding",
           !.attempt = IF worker[w].attempt = MaxRetries THEN MaxRetries
                       ELSE worker[w].attempt + 1]]
  BY DEF FailAttempt
<1>3. /\ DOMAIN worker'[w] = Attributes /\ worker'[w].batch = worker[w].batch
      /\ worker'[w].phase \in {"burying", "finding"}
  BY <1>0, <1>2 DEF WorkerOK, Attributes
<1>4. WorkerOK(w)'
  BY <1>0, <1>3 DEF WorkerOK, Busy
<1>. QED
  BY <1>0, <1>1, <1>2, <1>4, OneWorkerMoves

-----------------------------------------------------------------------------
(* The theorems.                                                           *)

LEMMA PrefixInvInit ==
  ASSUME Init
  PROVE  PrefixInv
<1>1. EventsOK /\ \A a : CurrentVersion(a) = 0
  <2>1. \A a : CurrentVersion(a) = 0
    BY FS_EmptySet DEF Init, CurrentVersion
  <2>. QED
    BY <2>1, FS_EmptySet DEF Init, EventsOK
<1>2. DocumentsOK
  <2>1. Prefix(0) = <<>>
    BY DEF Prefix
  <2>. QED
    BY <1>1, <2>1 DEF Init, DocumentsOK, IsReplay
<1>3. WorkersOK
  <2>1. DOMAIN worker = Workers
    BY DEF Init
  <2>2. ASSUME NEW w \in Workers
        PROVE  WorkerOK(w)
    <3>1. worker[w] = IdleWorker
      BY DEF Init
    <3>2. /\ DOMAIN IdleWorker = Attributes
          /\ IdleWorker.phase = "idle" /\ IdleWorker.batch = <<>>
      BY DEF IdleWorker, Attributes
    <3>3. <<>> \in Seq(events)
      BY EmptySeq
    <3>. QED
      BY <3>1, <3>2, <3>3 DEF WorkerOK, Busy
  <2>. QED
    BY <2>1, <2>2 DEF WorkersOK
<1>. QED
  BY <1>1, <1>2, <1>3 DEF PrefixInv

(* Writers beside the workers.                                             *)
LEMMA StorePreserves ==
  ASSUME PrefixInv, (\E a \in Aggregates : TakeSequence(a)) \/ Settle
  PROVE  PrefixInv'
<1>1. EventsOK' /\ EventsKept /\ readModel' = readModel /\ worker' = worker
  BY StoreStep DEF PrefixInv, TakeSequence, Settle, Insert, Abandon
<1>2. ASSUME NEW a \in Aggregates
      PROVE  IsReplay(readModel[a], a)'
  BY <1>1, PrefixKept DEF PrefixInv, DocumentsOK, IsReplay
<1>3. WorkersOK'
  BY <1>1, WorkerKept DEF PrefixInv, WorkersOK
<1>. QED
  BY <1>1, <1>2, <1>3 DEF PrefixInv, DocumentsOK

LEMMA PrefixInvNext ==
  ASSUME PrefixInv, [Next]_vars
  PROVE  PrefixInv'
<1>1. ASSUME NEW w \in Workers, Work(w) \/ Fail(w) \/ Start(w)
      PROVE  PrefixInv'
  BY <1>1, LoadStep, FetchStep, FindStep, HealStep, CheckStoredStep, SaveStep, DeadLetterStep,
     FailStep, LeaveStep DEF Work, Fail, Leave
<1>2. CASE UNCHANGED vars
  BY <1>2 DEF vars, storeVars, PrefixInv, EventsOK, DocumentsOK, WorkersOK, WorkerOK, Recorded,
     Among, IsReplay, CurrentVersion, Current
<1>. QED
  BY <1>1, <1>2, StorePreserves DEF Next

LEMMA PrefixInvIsEnough ==
  ASSUME PrefixInv
  PROVE  ProjectionIsPrefix
<1>. SUFFICES ASSUME NEW a \in Aggregates
              PROVE  /\ readModel[a] = [i \in 1 .. Len(readModel[a]) |-> i]
                     /\ Len(readModel[a]) <= CurrentVersion(a)
  BY DEF ProjectionIsPrefix
<1>1. PICK n \in 0 .. CurrentVersion(a) : readModel[a] = Prefix(n)
  BY DEF PrefixInv, DocumentsOK, IsReplay
<1>2. n \in Nat /\ n <= CurrentVersion(a)
  BY <1>1, CurrentVersionType DEF PrefixInv
<1>3. Len(readModel[a]) = n
  BY <1>1, <1>2, PrefixFacts
<1>. QED
  BY <1>1, <1>2, <1>3 DEF Prefix

(* The inductive invariant of the read side.                               *)
THEOREM WorkersInvariance == Spec => []PrefixInv
<1>1. Init => PrefixInv
  BY PrefixInvInit
<1>2. PrefixInv /\ [Next]_vars => PrefixInv'
  BY PrefixInvNext
<1>. QED
  BY <1>1, <1>2, PTL DEF Spec

(* No document ever shows a state its shipment was not in.                 *)
THEOREM DocumentsArePrefixes == Spec => []ProjectionIsPrefix
<1>1. PrefixInv => ProjectionIsPrefix
  BY PrefixInvIsEnough
<1>. QED
  BY <1>1, WorkersInvariance, PTL

-----------------------------------------------------------------------------
(* One worker, which is how the service is deployed.  Then nobody writes   *)
(* a document between its look at the stored one and its write, so         *)
(* documents only grow, what was announced can be read, and the checkpoint *)
(* passes over nothing but dead letters and the events that were inserted  *)
(* after one of a higher sequence; MCWorkerOvertaken shows one of those.   *)

OneWorker == \A v, w \in Workers : v = w

(* What a lone worker is about to write is the document of the event at    *)
(* hand, and what it found stored is what is stored.                       *)
HeldOK(w) ==
  /\ worker[w].phase \in {"checking", "writing"} =>
       worker[w].next = Prefix(Current(w).version)
  /\ worker[w].phase = "writing" =>
       worker[w].stored = Version(readModel[Current(w).agg])

AnnouncedOK ==
  /\ DOMAIN announced = Aggregates /\ \A a \in Aggregates : announced[a] \in Nat
  /\ AnnouncedIsReadable

AloneInv == PrefixInv /\ AnnouncedOK /\ \A w \in Workers : HeldOK(w)

DocumentsGrow ==
  \A a \in Aggregates : Version(readModel[a]) <= Version(readModel'[a])

LEMMA DocumentVersion ==
  ASSUME PrefixInv, NEW a \in Aggregates
  PROVE  Version(readModel[a]) \in Nat
BY VersionOfPrefix DEF PrefixInv, DocumentsOK

(* A step that writes no document and leaves the worker none to write.     *)
LEMMA QuietStep ==
  ASSUME OneWorker, AloneInv, PrefixInv', NEW w \in Workers, readModel' = readModel,
         announced' = announced, worker'[w].phase \notin {"checking", "writing"}
  PROVE  AloneInv' /\ DocumentsGrow
<1>1. AnnouncedOK'
  BY DEF AloneInv, AnnouncedOK, AnnouncedIsReadable
<1>2. \A v \in Workers : HeldOK(v)'
  BY DEF OneWorker, HeldOK
<1>3. DocumentsGrow
  BY DocumentVersion DEF AloneInv, DocumentsGrow
<1>. QED
  BY <1>1, <1>2, <1>3 DEF AloneInv

LEMMA NextEventFields ==
  ASSUME NEW w \in Workers, WorkerOK(w), worker'[w] = NextEvent(w, worker[w])
  PROVE  /\ worker'[w].batch = Tail(worker[w].batch)
         /\ worker'[w].last = Current(w).seq
         /\ worker'[w].phase = IF Len(worker[w].batch) = 1 THEN "saving" ELSE "finding"
BY DEF WorkerOK, NextEvent, Attributes

(* The write puts the event at hand into its document and takes nothing    *)
(* out of any.                                                             *)
LEMMA SavedGrows ==
  ASSUME PrefixInv, NEW w \in Workers, HeldOK(w), worker[w].phase = "writing",
         readModel' = Saved(w)
  PROVE  DocumentsGrow /\ Current(w).version <= Version(readModel'[Current(w).agg])
<1>. DEFINE a == Current(w).agg
            next == worker[w].next
<1>1. /\ WorkerOK(w) /\ EventsOK /\ DOMAIN readModel = Aggregates
      /\ \A b \in Aggregates : Version(readModel[b]) \in Nat
  BY DocumentVersion DEF PrefixInv, WorkersOK, DocumentsOK
<1>2. a \in Aggregates /\ Current(w).version \in Nat
  BY <1>1, CurrentIsRecorded DEF Busy
<1>3. Version(next) = Current(w).version /\ worker[w].stored = Version(readModel[a])
  BY <1>2, PrefixFacts DEF HeldOK
<1>4. CASE Version(readModel[a]) >= Version(next)
  <2>1. readModel' = readModel
    BY <1>3, <1>4 DEF Saved
  <2>. QED
    BY <1>1, <1>2, <1>3, <1>4, <2>1 DEF DocumentsGrow
<1>5. CASE Version(readModel[a]) < Version(next)
  <2>1. readModel' = [readModel EXCEPT ![a] = next]
    BY <1>1, <1>2, <1>3, <1>5 DEF Saved
  <2>2. readModel'[a] = next /\ \A b \in Aggregates \ {a} : readModel'[b] = readModel[b]
    BY <1>1, <1>2, <2>1
  <2>3. \A b \in Aggregates : Version(readModel[b]) <= Version(readModel'[b])
    <3>. HIDE DEF a, next
    <3>. QED
      BY <1>1, <1>2, <1>3, <1>5, <2>2
  <2>. QED
    BY <1>2, <1>3, <2>2, <2>3 DEF DocumentsGrow
<1>. QED
  BY <1>1, <1>2, <1>3, <1>4, <1>5

LEMMA FindAlone ==
  ASSUME OneWorker, AloneInv, PrefixInv', NEW w \in Workers, FindProjection(w)
  PROVE  AloneInv' /\ DocumentsGrow
<1>. DEFINE e == Current(w)
            found == readModel[e.agg]
<1>0. /\ WorkerOK(w) /\ DOMAIN worker = Workers /\ worker[w].phase = "finding"
      /\ readModel' = readModel /\ announced' = announced /\ EventsOK /\ DocumentsOK
  BY DEF AloneInv, PrefixInv, WorkersOK, FindProjection
<1>1. e \in events /\ e.agg \in Aggregates /\ e.version \in Nat
  BY <1>0, CurrentIsRecorded DEF Busy
<1>2. PICK n \in 0 .. CurrentVersion(e.agg) : found = Prefix(n)
  BY <1>0, <1>1 DEF DocumentsOK, IsReplay
<1>3. n \in Nat /\ Version(found) = n /\ Append(found, n + 1) = Prefix(n + 1)
  BY <1>0, <1>2, CurrentVersionType, PrefixFacts
<1>4. worker'[w] =
           IF e.version <= Version(found) THEN NextEvent(w, worker[w])
           ELSE IF e.version = Version(found) + 1
             THEN [worker[w] EXCEPT !.phase = "checking", !.base = found,
                                    !.next = Append(found, e.version)]
           ELSE [worker[w] EXCEPT !.phase = "healing", !.base = found]
  BY <1>0 DEF FindProjection
<1>5. CASE e.version <= n
  <2>1. worker'[w] = NextEvent(w, worker[w])
    BY <1>3, <1>4, <1>5
  <2>2. worker'[w].phase \notin {"checking", "writing"}
    BY <1>0, <2>1, NextEventFields
  <2>. QED
    BY <1>0, <2>2, QuietStep
<1>6. CASE e.version = n + 1
  <2>1. worker'[w] = [worker[w] EXCEPT !.phase = "checking", !.base = found,
                                       !.next = Append(found, e.version)]
    BY <1>1, <1>3, <1>4, <1>6
  <2>2. /\ worker'[w].phase = "checking" /\ worker'[w].batch = worker[w].batch
        /\ worker'[w].next = Append(found, e.version)
    BY <1>0, <2>1 DEF WorkerOK, Attributes
  <2>3. Current(w)' = e
    BY <2>2 DEF Current
  <2>4. worker'[w].next = Prefix(e.version)
    BY <1>3, <1>6, <2>2
  <2>5. HeldOK(w)'
    <3>. HIDE DEF e
    <3>. QED
      BY <2>2, <2>3, <2>4 DEF HeldOK
  <2>6. \A v \in Workers : HeldOK(v)'
    BY <2>5 DEF OneWorker
  <2>7. AnnouncedOK' /\ DocumentsGrow
    BY <1>0, DocumentVersion DEF AloneInv, AnnouncedOK, AnnouncedIsReadable, DocumentsGrow
  <2>. QED
    BY <2>6, <2>7 DEF AloneInv
<1>7. CASE e.version > n + 1
  <2>1. worker'[w] = [worker[w] EXCEPT !.phase = "healing", !.base = found]
    BY <1>1, <1>3, <1>4, <1>7
  <2>2. worker'[w].phase \notin {"checking", "writing"}
    BY <1>0, <2>1 DEF WorkerOK, Attributes
  <2>. QED
    BY <1>0, <2>2, QuietStep
<1>. QED
  BY <1>1, <1>3, <1>5, <1>6, <1>7

LEMMA HealAlone ==
  ASSUME OneWorker, AloneInv, PrefixInv', NEW w \in Workers, HealGap(w)
  PROVE  AloneInv' /\ DocumentsGrow
<1>1. HeldOK(w)'
  BY HealStep DEF AloneInv, HeldOK
<1>2. \A v \in Workers : HeldOK(v)'
  BY <1>1 DEF OneWorker
<1>3. readModel' = readModel /\ announced' = announced
  BY DEF HealGap
<1>4. AnnouncedOK' /\ DocumentsGrow
  BY <1>3, DocumentVersion DEF AloneInv, AnnouncedOK, AnnouncedIsReadable, DocumentsGrow
<1>. QED
  BY <1>2, <1>4 DEF AloneInv

LEMMA CheckAlone ==
  ASSUME OneWorker, AloneInv, PrefixInv', NEW w \in Workers, CheckStored(w)
  PROVE  AloneInv' /\ DocumentsGrow
<1>0. /\ WorkerOK(w) /\ DOMAIN worker = Workers /\ HeldOK(w) /\ worker[w].phase = "checking"
      /\ readModel' = readModel /\ announced' = announced
      /\ worker' = [worker EXCEPT ![w].phase = "writing",
                                  ![w].stored = Version(readModel[Current(w).agg])]
  BY DEF AloneInv, PrefixInv, WorkersOK, CheckStored
<1>1. /\ worker'[w].phase = "writing" /\ worker'[w].batch = worker[w].batch
      /\ worker'[w].next = worker[w].next
      /\ worker'[w].stored = Version(readModel[Current(w).agg])
  BY <1>0 DEF WorkerOK, Attributes
<1>2. Current(w)' = Current(w)
  BY <1>1 DEF Current
<1>3. \A v \in Workers : HeldOK(v)'
  BY <1>0, <1>1, <1>2 DEF HeldOK, OneWorker
<1>4. AnnouncedOK' /\ DocumentsGrow
  BY <1>0, DocumentVersion DEF AloneInv, AnnouncedOK, AnnouncedIsReadable, DocumentsGrow
<1>. QED
  BY <1>3, <1>4 DEF AloneInv

(* A step that may write, and leaves the worker nothing to write.          *)
LEMMA GrowingStep ==
  ASSUME OneWorker, AloneInv, PrefixInv', NEW w \in Workers, DocumentsGrow,
         worker'[w].phase \notin {"checking", "writing"},
         DOMAIN announced' = Aggregates,
         \A a \in Aggregates :
           \/ announced'[a] = announced[a]
           \/ announced'[a] \in Nat /\ announced'[a] <= Version(readModel'[a])
  PROVE  AloneInv'
<1>1. ASSUME NEW a \in Aggregates
      PROVE  announced'[a] \in Nat /\ announced'[a] <= Version(readModel'[a])
  <2>1. Version(readModel[a]) \in Nat /\ Version(readModel[a]) <= Version(readModel'[a])
    BY DocumentVersion DEF AloneInv, DocumentsGrow
  <2>2. Version(readModel'[a]) \in Nat
    <3>1. EventsOK' /\ \E n \in 0 .. CurrentVersion(a)' : readModel'[a] = Prefix(n)
      BY DEF PrefixInv, DocumentsOK, IsReplay
    <3>2. CurrentVersion(a)' \in Nat
      <4>1. IsFiniteSet(StreamOf(a)')
        BY <3>1, FS_Subset DEF EventsOK, StreamOf
      <4>. QED
        BY <4>1, FS_CardinalityType DEF CurrentVersion, StreamOf
    <3>3. PICK n \in 0 .. CurrentVersion(a)' : readModel'[a] = Prefix(n)
      BY <3>1
    <3>4. n \in Nat
      BY <3>2
    <3>. QED
      BY <3>3, <3>4, PrefixFacts
  <2>3. announced[a] \in Nat /\ announced[a] <= Version(readModel[a])
    BY DEF AloneInv, AnnouncedOK, AnnouncedIsReadable
  <2>. QED
    BY <2>1, <2>2, <2>3
<1>2. AnnouncedOK'
  BY <1>1 DEF AnnouncedOK, AnnouncedIsReadable
<1>3. \A v \in Workers : HeldOK(v)'
  BY DEF OneWorker, HeldOK
<1>. QED
  BY <1>2, <1>3 DEF AloneInv

LEMMA SaveAlone ==
  ASSUME OneWorker, AloneInv, PrefixInv', NEW w \in Workers, SaveProjection(w)
  PROVE  AloneInv' /\ DocumentsGrow
<1>. DEFINE a == Current(w).agg
<1>0. /\ WorkerOK(w) /\ DOMAIN worker = Workers /\ HeldOK(w) /\ worker[w].phase = "writing"
      /\ readModel' = Saved(w) /\ worker' = [worker EXCEPT ![w] = NextEvent(w, worker[w])]
      /\ Announce(w) /\ EventsOK
  BY DEF AloneInv, PrefixInv, WorkersOK, SaveProjection
<1>1. a \in Aggregates /\ Current(w).version \in Nat
  BY <1>0, CurrentIsRecorded DEF Busy
<1>2. DocumentsGrow /\ Current(w).version <= Version(readModel'[a])
  BY <1>0, SavedGrows DEF AloneInv
<1>3. worker'[w].phase \notin {"checking", "writing"}
  BY <1>0, NextEventFields
<1>4. DOMAIN announced = Aggregates
  BY DEF AloneInv, AnnouncedOK
<1>5. announced' = announced \/ announced' = [announced EXCEPT ![a] = Current(w).version]
  BY <1>0 DEF Announce
<1>. HIDE DEF a
<1>6. /\ DOMAIN announced' = Aggregates
      /\ \A b \in Aggregates :
           \/ announced'[b] = announced[b]
           \/ announced'[b] \in Nat /\ announced'[b] <= Version(readModel'[b])
  BY <1>1, <1>2, <1>4, <1>5
<1>. QED
  BY <1>2, <1>3, <1>6, GrowingStep

(* A write whose outcome is not known takes nothing out of a document      *)
(* either.                                                                 *)
LEMMA UnsureGrows ==
  ASSUME AloneInv, NEW w \in Workers, Unsure(w)
  PROVE  DocumentsGrow
<1>1. readModel' = readModel \/ (worker[w].phase = "writing" /\ readModel' = Saved(w))
  BY DEF Unsure
<1>2. CASE readModel' = readModel
  BY <1>2, DocumentVersion DEF AloneInv, DocumentsGrow
<1>. QED
  BY <1>1, <1>2, SavedGrows DEF AloneInv

LEMMA FailAlone ==
  ASSUME OneWorker, AloneInv, PrefixInv', NEW w \in Workers, FailAttempt(w)
  PROVE  AloneInv' /\ DocumentsGrow
<1>0. WorkerOK(w) /\ DOMAIN worker = Workers /\ announced' = announced
  BY DEF AloneInv, PrefixInv, WorkersOK, FailAttempt
<1>1. worker' = [worker EXCEPT ![w] =
        [worker[w] EXCEPT !.base = <<>>, !.next = <<>>, !.stored = 0,
           !.phase   = IF worker[w].attempt = MaxRetries THEN "burying" ELSE "finding",
           !.attempt = IF worker[w].attempt = MaxRetries THEN MaxRetries
                       ELSE worker[w].attempt + 1]]
  BY DEF FailAttempt
<1>2. worker'[w].phase \notin {"checking", "writing"}
  BY <1>0, <1>1 DEF WorkerOK, Attributes
<1>3. DocumentsGrow
  BY UnsureGrows DEF FailAttempt
<1>. QED
  BY <1>0, <1>2, <1>3, GrowingStep DEF AloneInv, AnnouncedOK

LEMMA LeaveAlone ==
  ASSUME OneWorker, AloneInv, PrefixInv', NEW w \in Workers, Leave(w)
  PROVE  AloneInv' /\ DocumentsGrow
<1>0. DOMAIN worker = Workers
  BY DEF AloneInv, PrefixInv, WorkersOK
<1>1. announced' = announced /\ worker'[w].phase \notin {"checking", "writing"}
  BY <1>0, LeaveFacts, IdleIsOK
<1>2. DocumentsGrow
  <2>1. readModel' = readModel \/ Unsure(w)
    BY <1>0, LeaveFacts DEF SaveCheckpoint
  <2>. QED
    BY <2>1, UnsureGrows, DocumentVersion DEF AloneInv, DocumentsGrow
<1>. QED
  BY <1>1, <1>2, GrowingStep DEF AloneInv, AnnouncedOK

(* The remaining steps of the worker write no document.                    *)
LEMMA OtherAlone ==
  ASSUME OneWorker, AloneInv, PrefixInv', NEW w \in Workers,
         LoadCheckpoint(w) \/ Fetch(w) \/ DeadLetter(w)
  PROVE  AloneInv' /\ DocumentsGrow
<1>0. /\ WorkerOK(w) /\ DOMAIN worker = Workers
      /\ readModel' = readModel /\ announced' = announced
  BY DEF AloneInv, PrefixInv, WorkersOK, LoadCheckpoint, Fetch, DeadLetter
<1>1. CASE LoadCheckpoint(w)
  <2>1. worker'[w] = [worker[w] EXCEPT !.phase = "fetching", !.from = checkpoint]
    BY <1>0, <1>1 DEF LoadCheckpoint
  <2>2. worker'[w].phase \notin {"checking", "writing"}
    BY <1>0, <2>1 DEF WorkerOK, Attributes
  <2>. QED
    BY <1>0, <2>2, QuietStep
<1>2. CASE Fetch(w)
  <2>1. PICK batch \in Batches(worker[w].from) : Fetched(w, batch)
    BY <1>2 DEF Fetch
  <2>2. \/ worker'[w] = IdleWorker
        \/ worker'[w] = [worker[w] EXCEPT !.phase = "finding", !.from = 0, !.batch = batch]
    BY <1>0, <2>1 DEF Fetched
  <2>3. worker'[w] = IdleWorker => worker'[w].phase = "idle"
    BY DEF IdleWorker
  <2>4. worker'[w] # IdleWorker => worker'[w].phase = "finding"
    <3>1. DOMAIN worker[w] = Attributes
      BY <1>0 DEF WorkerOK
    <3>2. "phase" \in DOMAIN worker[w]
      BY <3>1 DEF Attributes
    <3>. HIDE DEF IdleWorker
    <3>. QED
      BY <2>2, <3>2
  <2>. QED
    BY <1>0, <2>3, <2>4, QuietStep
<1>3. CASE DeadLetter(w)
  <2>1. worker'[w] = NextEvent(w, worker[w])
    BY <1>0, <1>3 DEF DeadLetter
  <2>2. worker'[w].phase \notin {"checking", "writing"}
    BY <1>0, <2>1, NextEventFields
  <2>. QED
    BY <1>0, <2>2, QuietStep
<1>. QED
  BY <1>1, <1>2, <1>3

LEMMA AloneNext ==
  ASSUME OneWorker, AloneInv, [Next]_vars
  PROVE  AloneInv' /\ DocumentsGrow
<1>0. PrefixInv'
  BY PrefixInvNext DEF AloneInv
<1>1. ASSUME NEW w \in Workers, Work(w) \/ Fail(w) \/ Start(w)
      PROVE  AloneInv' /\ DocumentsGrow
  BY <1>0, <1>1, FindAlone, HealAlone, CheckAlone, SaveAlone, FailAlone, LeaveAlone, OtherAlone
     DEF Work, Fail, Leave
<1>2. CASE (\E a \in Aggregates : TakeSequence(a)) \/ Settle \/ UNCHANGED vars
  <2>1. worker' = worker /\ readModel' = readModel /\ announced' = announced
    BY <1>2 DEF TakeSequence, Settle, Insert, Abandon, vars
  <2>2. AnnouncedOK' /\ DocumentsGrow
    BY <2>1, DocumentVersion DEF AloneInv, AnnouncedOK, AnnouncedIsReadable, DocumentsGrow
  <2>3. \A w \in Workers : HeldOK(w)'
    BY <2>1 DEF AloneInv, HeldOK, Current
  <2>. QED
    BY <1>0, <2>2, <2>3 DEF AloneInv
<1>. QED
  BY <1>1, <1>2 DEF Next

LEMMA AloneInit ==
  ASSUME Init
  PROVE  AloneInv
<1>1. \A a \in Aggregates : Version(readModel[a]) = 0
  BY DEF Init, Version
<1>2. AnnouncedOK
  BY <1>1 DEF Init, AnnouncedOK, AnnouncedIsReadable
<1>3. \A w \in Workers : HeldOK(w)
  BY DEF Init, IdleWorker, HeldOK
<1>. QED
  BY <1>2, <1>3, PrefixInvInit DEF AloneInv

(* The inductive invariant of a lone worker.                               *)
THEOREM AloneInvariance ==
  ASSUME OneWorker
  PROVE  Spec => []AloneInv
<1>1. Init => AloneInv
  BY AloneInit
<1>2. AloneInv /\ [Next]_vars => AloneInv'
  BY AloneNext
<1>. QED
  BY <1>1, <1>2, PTL DEF Spec

(* What a lone worker announces on the bus can be read, and goes on being  *)
(* readable.                                                               *)
THEOREM AnnouncedCanBeRead ==
  ASSUME OneWorker
  PROVE  Spec => []AnnouncedIsReadable
<1>1. AloneInv => AnnouncedIsReadable
  BY DEF AloneInv, AnnouncedOK
<1>. QED
  BY <1>1, AloneInvariance, PTL

(* A lone worker never takes a document back, whatever fails and however   *)
(* often it starts again.                                                  *)
THEOREM DocumentsOnlyGrow ==
  ASSUME OneWorker
  PROVE  Spec => [][DocumentsGrow]_vars
<1>1. AloneInv /\ [Next]_vars => [DocumentsGrow]_vars
  BY AloneNext
<1>. QED
  BY <1>1, AloneInvariance, PTL DEF Spec

-----------------------------------------------------------------------------
(* The checkpoint.                                                         *)

IsCovered(e) ==
  \/ e.version <= Version(readModel[e.agg])
  \/ e \in deadLetters \cup overtaken

(* The sequence is that of a recorded event, and every event up to it is   *)
(* projected, set aside or overtaken.  An append that still holds a lower  *)
(* one is overtaken already, by that event.                                *)
Passed(s) ==
  /\ s \in Nat /\ s <= counter
  /\ s = 0 \/ \E d \in events : d.seq = s
  /\ \A e \in events : e.seq <= s => IsCovered(e)

(* A sequence is taken once.                                               *)
SequencesOK ==
  /\ counter \in Nat
  /\ \A e \in events \cup pending : e.seq \in Nat \ {0} /\ e.seq <= counter
  /\ \A d, e \in events \cup pending : d.seq = e.seq => d = e

(* A batch leaves nothing out: what comes before one of its events is      *)
(* projected, or is in the batch before it.                                *)
BatchOK(w) ==
  \A i \in 1 .. Len(worker[w].batch) : \A e \in events :
    e.seq < worker[w].batch[i].seq =>
      IsCovered(e) \/ \E j \in 1 .. i - 1 : worker[w].batch[j] = e

ReachedOK(w) ==
  /\ worker[w].phase = "fetching" => Passed(worker[w].from)
  /\ BatchOK(w)
  /\ worker[w].phase = "saving" => Passed(worker[w].last)

CoverInv ==
  AloneInv /\ SequencesOK /\ Passed(checkpoint) /\ \A w \in Workers : ReachedOK(w)

(* What a step keeps of the store while a worker moves.                    *)
StoreKept == UNCHANGED storeVars

LEMMA CoveredKept ==
  ASSUME AloneInv, DocumentsGrow, AloneInv', deadLetters \subseteq deadLetters',
         overtaken \subseteq overtaken', NEW e \in events, IsCovered(e)
  PROVE  IsCovered(e)'
<1>1. e.agg \in Aggregates /\ e.version \in Nat
  BY DEF AloneInv, PrefixInv, EventsOK
<1>2. Version(readModel[e.agg]) \in Nat /\ Version(readModel'[e.agg]) \in Nat
  <2>1. Version(readModel[e.agg]) \in Nat
    BY <1>1, DocumentVersion DEF AloneInv
  <2>2. EventsOK' /\ \E n \in 0 .. CurrentVersion(e.agg)' : readModel'[e.agg] = Prefix(n)
    BY <1>1 DEF AloneInv, PrefixInv, DocumentsOK, IsReplay
  <2>3. CurrentVersion(e.agg)' \in Nat
    <3>1. IsFiniteSet(StreamOf(e.agg)')
      BY <2>2, FS_Subset DEF EventsOK, StreamOf
    <3>. QED
      BY <3>1, FS_CardinalityType DEF CurrentVersion, StreamOf
  <2>4. PICK n \in 0 .. CurrentVersion(e.agg)' : readModel'[e.agg] = Prefix(n)
    BY <2>2
  <2>5. n \in Nat
    BY <2>3
  <2>. QED
    BY <2>1, <2>4, <2>5, PrefixFacts
<1>3. Version(readModel[e.agg]) <= Version(readModel'[e.agg])
  BY <1>1 DEF DocumentsGrow
<1>. QED
  BY <1>1, <1>2, <1>3 DEF IsCovered

LEMMA PassedKept ==
  ASSUME AloneInv, AloneInv', DocumentsGrow, deadLetters \subseteq deadLetters', StoreKept,
         NEW s, Passed(s)
  PROVE  Passed(s)'
BY CoveredKept DEF Passed, StoreKept, storeVars

(* A worker that still has the same batch.                                 *)
LEMMA BatchKept ==
  ASSUME AloneInv, AloneInv', DocumentsGrow, deadLetters \subseteq deadLetters', StoreKept,
         NEW w \in Workers, BatchOK(w), worker'[w].batch = worker[w].batch
  PROVE  BatchOK(w)'
<1>. SUFFICES ASSUME NEW i \in 1 .. Len(worker[w].batch), NEW e \in events,
                     e.seq < worker[w].batch[i].seq
              PROVE  IsCovered(e)' \/ \E j \in 1 .. i - 1 : worker[w].batch[j] = e
  BY DEF BatchOK, StoreKept, storeVars
<1>. QED
  BY CoveredKept DEF BatchOK, StoreKept, storeVars

(* The event at hand is done with.                                         *)
LEMMA NextEventReached ==
  ASSUME AloneInv, AloneInv', SequencesOK, DocumentsGrow, deadLetters \subseteq deadLetters',
         StoreKept, NEW w \in Workers, worker[w].phase \in Busy, BatchOK(w),
         worker'[w] = NextEvent(w, worker[w]),
         NEW head, head = Current(w), IsCovered(head)'
  PROVE  ReachedOK(w)'
<1>. DEFINE batch == worker[w].batch
<1>0. WorkerOK(w) /\ EventsOK /\ events' = events /\ counter' = counter
      /\ overtaken \subseteq overtaken'
  BY DEF AloneInv, PrefixInv, WorkersOK, StoreKept, storeVars
<1>1. /\ batch \in Seq(events) /\ batch # <<>> /\ head = batch[1]
      /\ head \in events /\ Len(batch) \in Nat /\ Len(batch) # 0
  BY <1>0, CurrentIsRecorded DEF WorkerOK, Current
<1>2. /\ worker'[w].batch = Tail(batch) /\ worker'[w].last = head.seq
      /\ worker'[w].phase = IF Len(batch) = 1 THEN "saving" ELSE "finding"
  BY <1>0, NextEventFields
<1>. DEFINE rest == Tail(batch)
<1>3. Len(rest) = Len(batch) - 1
      /\ \A i \in 1 .. Len(batch) - 1 : rest[i] = batch[i + 1]
  <2>. HIDE DEF batch
  <2>. QED
    BY <1>1
<1>4. ASSUME NEW i \in 1 .. Len(batch) - 1, NEW e \in events, e.seq < batch[i + 1].seq
      PROVE  IsCovered(e)' \/ \E j \in 1 .. i - 1 : rest[j] = e
  <2>. HIDE DEF rest
  <2>1. i + 1 \in 1 .. Len(batch) /\ (i + 1) - 1 = i
    BY <1>1
  <2>2. IsCovered(e) \/ \E j \in 1 .. i : batch[j] = e
    <3>1. IsCovered(e) \/ \E j \in 1 .. (i + 1) - 1 : batch[j] = e
      BY <1>4, <2>1 DEF BatchOK
    <3>. QED
      BY <2>1, <3>1
  <2>3. CASE IsCovered(e)
    BY <1>0, <2>3, CoveredKept
  <2>4. ASSUME NEW j \in 1 .. i, batch[j] = e
        PROVE  IsCovered(e)' \/ \E k \in 1 .. i - 1 : rest[k] = e
    <3>. HIDE DEF batch
    <3>1. CASE j = 1
      <4>1. e = head
        BY <1>1, <2>4, <3>1
      <4>. QED
        BY <4>1
    <3>2. CASE j # 1
      <4>1. j - 1 \in 1 .. i - 1 /\ j - 1 \in 1 .. Len(batch) - 1 /\ (j - 1) + 1 = j
        BY <1>1, <3>2
      <4>2. rest[j - 1] = batch[(j - 1) + 1]
        BY <1>3, <4>1
      <4>3. rest[j - 1] = e
        BY <2>4, <4>1, <4>2
      <4>. QED
        BY <4>1, <4>3
    <3>. QED
      BY <3>1, <3>2
  <2>. QED
    BY <2>2, <2>3, <2>4
<1>5. BatchOK(w)'
  <2>1. events' = events /\ worker'[w].batch = rest
    BY <1>0, <1>2
  <2>. HIDE DEF batch, rest
  <2>. QED
    BY <1>3, <1>4, <2>1 DEF BatchOK
<1>6. ASSUME worker'[w].phase = "saving"
      PROVE  Passed(worker[w].last)'
  <2>. DEFINE s == head.seq
  <2>1. s \in Nat /\ s <= counter /\ \E d \in events : d.seq = s
    BY <1>1 DEF SequencesOK
  <2>2. ASSUME NEW e \in events, e.seq <= s
        PROVE  IsCovered(e)'
    <3>1. CASE e.seq = s
      BY <1>1, <3>1 DEF SequencesOK
    <3>2. CASE e.seq < s
      <4>1. 1 \in 1 .. Len(batch) /\ e.seq < batch[1].seq
        BY <1>1, <3>2
      <4>2. IsCovered(e) \/ \E j \in 1 .. 1 - 1 : batch[j] = e
        BY <4>1 DEF BatchOK
      <4>. QED
        BY <1>0, <4>2, CoveredKept
    <3>3. e.seq \in Nat
      BY DEF SequencesOK
    <3>. QED
      BY <2>1, <2>2, <3>1, <3>2, <3>3
  <2>. QED
    BY <1>0, <1>2, <2>1, <2>2 DEF Passed
<1>7. worker'[w].phase # "fetching"
  BY <1>2
<1>. QED
  BY <1>5, <1>6, <1>7 DEF ReachedOK

(* The batch begins after what was passed and leaves out nothing.          *)
LEMMA FetchReached ==
  ASSUME CoverInv, AloneInv', DocumentsGrow, deadLetters' = deadLetters, StoreKept,
         NEW w \in Workers, Fetch(w)
  PROVE  ReachedOK(w)'
<1>0. /\ WorkerOK(w) /\ DOMAIN worker = Workers /\ AloneInv
      /\ Passed(worker[w].from) /\ worker[w].phase = "fetching"
      /\ events' = events /\ overtaken \subseteq overtaken'
  BY DEF CoverInv, AloneInv, PrefixInv, WorkersOK, ReachedOK, Fetch, StoreKept, storeVars
<1>1. PICK batch \in Batches(worker[w].from) : Fetched(w, batch)
  BY DEF Fetch
<1>. DEFINE after == {e \in events : e.seq > worker[w].from}
            size  == IF Cardinality(after) < BatchSize THEN Cardinality(after) ELSE BatchSize
<1>2. /\ batch \in [1 .. size -> after]
      /\ \A e \in after, i \in 1 .. size :
           e.seq < batch[i].seq <=> \E j \in 1 .. i - 1 : batch[j] = e
  BY <1>1 DEF Batches
<1>3. size \in Nat
  <2>1. IsFiniteSet(after)
    BY <1>0, FS_Subset DEF AloneInv, PrefixInv, EventsOK
  <2>. QED
    BY <2>1, FS_CardinalityType, ProjectionAssumption
<1>4. Len(batch) = size
  <2>. HIDE DEF size, after
  <2>. QED
    BY <1>2, <1>3
<1>5. CASE batch = <<>>
  <2>1. worker'[w] = IdleWorker
    BY <1>0, <1>1, <1>5 DEF Fetched
  <2>2. worker'[w].phase = "idle" /\ worker'[w].batch = <<>>
    BY <2>1 DEF IdleWorker
  <2>3. BatchOK(w)'
    BY <2>2 DEF BatchOK
  <2>. QED
    BY <2>2, <2>3 DEF ReachedOK
<1>6. CASE batch # <<>>
  <2>1. worker'[w] = [worker[w] EXCEPT !.phase = "finding", !.from = 0, !.batch = batch]
    BY <1>0, <1>1, <1>6 DEF Fetched
  <2>2. worker'[w].phase = "finding" /\ worker'[w].batch = batch
    BY <1>0, <2>1 DEF WorkerOK, Attributes
  <2>3. ASSUME NEW i \in 1 .. size, NEW e \in events, e.seq < batch[i].seq
        PROVE  IsCovered(e)' \/ \E j \in 1 .. i - 1 : batch[j] = e
    <3>1. CASE e \in after
      BY <1>2, <2>3, <3>1
    <3>2. CASE e \notin after
      <4>1. e.seq \in Nat /\ worker[w].from \in Nat
        BY <1>0 DEF CoverInv, SequencesOK, Passed
      <4>2. IsCovered(e)
        BY <1>0, <3>2, <4>1 DEF Passed
      <4>. QED
        BY <1>0, <4>2, CoveredKept
    <3>. QED
      BY <3>1, <3>2
  <2>4. BatchOK(w)'
    <3>. HIDE DEF size
    <3>. QED
      BY <1>0, <1>4, <2>2, <2>3 DEF BatchOK
  <2>. QED
    BY <2>2, <2>4 DEF ReachedOK
<1>. QED
  BY <1>5, <1>6

(* A worker that goes on with the batch it has.                            *)
LEMMA SameBatchReached ==
  ASSUME CoverInv, AloneInv', DocumentsGrow, deadLetters \subseteq deadLetters', StoreKept,
         NEW w \in Workers, worker'[w].batch = worker[w].batch,
         \/ worker'[w].phase \notin {"fetching", "saving"}
         \/ worker'[w].phase = "fetching" /\ worker'[w].from = checkpoint
  PROVE  ReachedOK(w)'
<1>1. BatchOK(w)'
  BY BatchKept DEF CoverInv, ReachedOK
<1>2. Passed(checkpoint) /\ AloneInv
  BY DEF CoverInv
<1>3. ASSUME worker'[w].phase = "fetching"
      PROVE  Passed(worker[w].from)'
  <2>1. worker'[w].from = checkpoint
    BY <1>3
  <2>2. \A s : Passed(s) => Passed(s)'
    BY <1>2, PassedKept
  <2>. QED
    BY <1>2, <2>1, <2>2 DEF Passed
<1>. QED
  BY <1>1, <1>3 DEF ReachedOK

LEMMA IdleReached ==
  ASSUME NEW w \in Workers, worker'[w] \in EmptyHanded
  PROVE  ReachedOK(w)'
BY IdleIsOK DEF ReachedOK, BatchOK

LEMMA SequencesKept ==
  ASSUME SequencesOK, StoreKept
  PROVE  SequencesOK'
BY DEF SequencesOK, StoreKept, storeVars

(* The event at hand is covered once it was found projected, was saved, or *)
(* was set aside.                                                          *)
LEMMA DoneReached ==
  ASSUME CoverInv, AloneInv', DocumentsGrow, deadLetters \subseteq deadLetters', StoreKept,
         NEW w \in Workers, worker[w].phase \in Busy, worker'[w] = NextEvent(w, worker[w]),
         \/ Current(w).version <= Version(readModel'[Current(w).agg])
         \/ Current(w) \in deadLetters'
  PROVE  ReachedOK(w)'
<1>1. PICK head : head = Current(w)
  OBVIOUS
<1>2. IsCovered(head)'
  BY <1>1 DEF IsCovered
<1>. QED
  BY <1>1, <1>2, NextEventReached DEF CoverInv, ReachedOK

LEMMA WorkerReached ==
  ASSUME CoverInv, AloneInv', DocumentsGrow, NEW w \in Workers,
         Work(w) \/ Fail(w) \/ Start(w)
  PROVE  StoreKept /\ ReachedOK(w)' /\ deadLetters \subseteq deadLetters'
<1>0. /\ WorkerOK(w) /\ DOMAIN worker = Workers /\ HeldOK(w) /\ PrefixInv /\ EventsOK
      /\ DOMAIN worker[w] = Attributes
  BY DEF CoverInv, AloneInv, PrefixInv, WorkersOK, WorkerOK
<1>1. StoreKept /\ deadLetters \subseteq deadLetters'
  BY DEF StoreKept, Work, LoadCheckpoint, Fetch, FindProjection, HealGap, CheckStored,
     SaveProjection, SaveCheckpoint, DeadLetter, RecordFailure, Fail, FailAttempt,
     FailIteration, EndLoop, Crash, Start, Unsure
<1>2. CASE LoadCheckpoint(w)
  <2>1. worker'[w] = [worker[w] EXCEPT !.phase = "fetching", !.from = checkpoint]
    BY <1>0, <1>2 DEF LoadCheckpoint
  <2>2. /\ worker'[w].batch = worker[w].batch
        /\ worker'[w].phase = "fetching" /\ worker'[w].from = checkpoint
    BY <1>0, <2>1 DEF Attributes
  <2>. QED
    BY <1>1, <2>2, SameBatchReached
<1>3. CASE Fetch(w)
  BY <1>1, <1>3, FetchReached DEF Fetch
<1>4. CASE FindProjection(w)
  <2>. DEFINE e == Current(w)
              found == readModel[e.agg]
  <2>1. /\ worker[w].phase = "finding" /\ readModel' = readModel
        /\ worker'[w] =
           IF e.version <= Version(found) THEN NextEvent(w, worker[w])
           ELSE IF e.version = Version(found) + 1
             THEN [worker[w] EXCEPT !.phase = "checking", !.base = found,
                                    !.next = Append(found, e.version)]
           ELSE [worker[w] EXCEPT !.phase = "healing", !.base = found]
    BY <1>0, <1>4 DEF FindProjection
  <2>2. CASE e.version <= Version(found)
    BY <1>1, <2>1, <2>2, DoneReached DEF Busy
  <2>3. CASE ~(e.version <= Version(found))
    <3>1. worker'[w].batch = worker[w].batch /\ worker'[w].phase \in {"checking", "healing"}
      BY <1>0, <2>1, <2>3 DEF Attributes
    <3>. QED
      BY <1>1, <3>1, SameBatchReached
  <2>. QED
    BY <2>2, <2>3
<1>5. CASE HealGap(w)
  <2>1. worker'[w] = [worker[w] EXCEPT !.phase = "checking", !.next = worker'[w].next]
    BY <1>0, <1>5 DEF HealGap, Attributes
  <2>2. worker'[w].batch = worker[w].batch /\ worker'[w].phase = "checking"
    BY <1>0, <2>1 DEF Attributes
  <2>. QED
    BY <1>1, <2>2, SameBatchReached
<1>6. CASE CheckStored(w)
  <2>1. worker'[w].batch = worker[w].batch /\ worker'[w].phase = "writing"
    BY <1>0, <1>6 DEF CheckStored, Attributes
  <2>. QED
    BY <1>1, <2>1, SameBatchReached
<1>7. CASE SaveProjection(w)
  <2>1. worker[w].phase = "writing" /\ worker'[w] = NextEvent(w, worker[w])
    BY <1>0, <1>7 DEF SaveProjection
  <2>2. Current(w).version <= Version(readModel'[Current(w).agg])
    BY <1>0, <1>7, SavedGrows DEF SaveProjection
  <2>. QED
    BY <1>1, <2>1, <2>2, DoneReached DEF Busy
<1>8. CASE Leave(w)
  BY <1>0, <1>1, <1>8, LeaveFacts, IdleReached
<1>9. CASE DeadLetter(w)
  <2>1. /\ worker[w].phase = "burying" /\ worker'[w] = NextEvent(w, worker[w])
        /\ Current(w) \in deadLetters'
    BY <1>0, <1>9 DEF DeadLetter
  <2>. QED
    BY <1>1, <2>1, DoneReached DEF Busy
<1>10. CASE FailAttempt(w)
  <2>1. worker'[w] =
        [worker[w] EXCEPT !.base = <<>>, !.next = <<>>, !.stored = 0,
           !.phase   = IF worker[w].attempt = MaxRetries THEN "burying" ELSE "finding",
           !.attempt = IF worker[w].attempt = MaxRetries THEN MaxRetries
                       ELSE worker[w].attempt + 1]
    BY <1>0, <1>10 DEF FailAttempt
  <2>2. worker'[w].batch = worker[w].batch /\ worker'[w].phase \in {"burying", "finding"}
    BY <1>0, <2>1 DEF Attributes
  <2>. QED
    BY <1>1, <2>2, SameBatchReached
<1>. QED
  BY <1>1, <1>2, <1>3, <1>4, <1>5, <1>6, <1>7, <1>8, <1>9, <1>10
     DEF Work, Fail, Leave

(* A checkpoint is saved at a sequence that was passed.                    *)
LEMMA CheckpointPassed ==
  ASSUME CoverInv, AloneInv', DocumentsGrow, NEW w \in Workers,
         Work(w) \/ Fail(w) \/ Start(w)
  PROVE  Passed(checkpoint)'
<1>1. StoreKept /\ deadLetters \subseteq deadLetters' /\ AloneInv
  BY WorkerReached DEF CoverInv
<1>2. \A s : Passed(s) => Passed(s)'
  BY <1>1, PassedKept
<1>3. CASE worker[w].phase = "saving" /\ checkpoint' = worker[w].last
  <2>1. PICK s : s = worker[w].last
    OBVIOUS
  <2>2. Passed(s)'
    BY <1>2, <1>3, <2>1 DEF CoverInv, ReachedOK
  <2>. QED
    BY <1>3, <2>1, <2>2 DEF Passed
<1>4. CASE checkpoint' = checkpoint
  <2>1. PICK s : s = checkpoint
    OBVIOUS
  <2>2. Passed(s)'
    BY <1>2, <2>1 DEF CoverInv
  <2>. QED
    BY <1>4, <2>1, <2>2 DEF Passed
<1>. QED
  BY <1>3, <1>4 DEF Work, LoadCheckpoint, Fetch, FindProjection, HealGap, CheckStored,
     SaveProjection, SaveCheckpoint, DeadLetter, RecordFailure, Fail, FailAttempt,
     FailIteration, EndLoop, Crash, Start, Unsure

-----------------------------------------------------------------------------
(* Appends, any number of them at once.                                    *)

(* A new append takes a sequence that nothing has.                         *)
LEMMA TakeReached ==
  ASSUME CoverInv, NEW a \in Aggregates, TakeSequence(a)
  PROVE  SequencesOK' /\ \A s : Passed(s) => Passed(s)'
<1>. DEFINE p == [agg |-> a, version |-> CurrentVersion(a) + 1, seq |-> counter + 1]
<1>0. /\ SequencesOK /\ counter \in Nat /\ counter' = counter + 1
      /\ pending' = pending \cup {p} /\ events' = events /\ overtaken' = overtaken
      /\ readModel' = readModel /\ deadLetters' = deadLetters
  BY DEF CoverInv, SequencesOK, TakeSequence
<1>1. p.seq = counter + 1
  OBVIOUS
<1>. HIDE DEF p
<1>2. \A e \in events \cup pending : e.seq \in Nat \ {0} /\ e.seq <= counter
  BY <1>0 DEF SequencesOK
<1>3. \A e \in events' \cup pending' : e.seq \in Nat \ {0} /\ e.seq <= counter'
  BY <1>0, <1>1, <1>2
<1>4. \A d, e \in events' \cup pending' : d.seq = e.seq => d = e
  <2>1. \A e \in events \cup pending : e.seq # p.seq
    BY <1>0, <1>1, <1>2
  <2>2. \A d, e \in events \cup pending : d.seq = e.seq => d = e
    BY <1>0 DEF SequencesOK
  <2>. QED
    BY <1>0, <2>1, <2>2
<1>5. SequencesOK'
  BY <1>0, <1>3, <1>4 DEF SequencesOK
<1>6. ASSUME NEW s, Passed(s)
      PROVE  Passed(s)'
  <2>1. s \in Nat /\ s <= counter /\ \A e \in events : e.seq <= s => IsCovered(e)
    BY <1>6 DEF Passed
  <2>2. s <= counter'
    BY <1>0, <2>1
  <2>3. \A e \in events' : e.seq <= s => IsCovered(e)'
    BY <1>0, <2>1 DEF IsCovered
  <2>. QED
    BY <1>0, <1>6, <2>2, <2>3 DEF Passed
<1>. QED
  BY <1>5, <1>6

(* What is inserted below a sequence that was recorded has been overtaken. *)
LEMMA InsertedBelow ==
  ASSUME SequencesOK, NEW p \in pending, Insert(p), p \notin events,
         NEW d \in events, p.seq <= d.seq
  PROVE  IsCovered(p)'
<1>1. p.seq # d.seq
  BY DEF SequencesOK
<1>2. p.seq < d.seq
  BY <1>1 DEF SequencesOK
<1>3. p \in overtaken'
  BY <1>2 DEF Insert
<1>. QED
  BY <1>3 DEF IsCovered

LEMMA SettleCovers ==
  ASSUME SequencesOK, NEW p \in pending, Insert(p) \/ Abandon(p), NEW d \in events,
         NEW e \in events', e.seq <= d.seq, e \in events => IsCovered(e)
  PROVE  IsCovered(e)'
<1>1. CASE e \in events
  <2>1. readModel' = readModel /\ deadLetters' = deadLetters /\ overtaken \subseteq overtaken'
    BY DEF Insert, Abandon
  <2>. QED
    BY <1>1, <2>1 DEF IsCovered
<1>2. CASE e \notin events
  <2>1. Insert(p) /\ e = p
    BY <1>2 DEF Insert, Abandon
  <2>. QED
    BY <1>2, <2>1, InsertedBelow
<1>. QED
  BY <1>1, <1>2

LEMMA InsertReached ==
  ASSUME CoverInv, NEW p \in pending, Insert(p) \/ Abandon(p)
  PROVE  SequencesOK' /\ \A s : Passed(s) => Passed(s)'
<1>0. /\ SequencesOK /\ counter' = counter /\ events \subseteq events'
      /\ events' \cup pending' \subseteq events \cup pending
  BY DEF CoverInv, Insert, Abandon
<1>1. SequencesOK'
  BY <1>0 DEF SequencesOK
<1>2. ASSUME NEW s, Passed(s)
      PROVE  Passed(s)'
  <2>1. /\ s \in Nat /\ s <= counter
        /\ s = 0 \/ \E d \in events : d.seq = s
        /\ \A e \in events : e.seq <= s => IsCovered(e)
    BY <1>2 DEF Passed
  <2>2. ASSUME NEW e \in events', e.seq <= s
        PROVE  IsCovered(e)'
    <3>1. e.seq \in Nat \ {0}
      BY <1>0 DEF SequencesOK
    <3>2. PICK d \in events : d.seq = s
      BY <2>1, <2>2, <3>1
    <3>. QED
      BY <1>0, <2>1, <2>2, <3>2, SettleCovers
  <2>3. s <= counter' /\ (s = 0 \/ \E d \in events' : d.seq = s)
    BY <1>0, <2>1
  <2>. QED
    BY <2>1, <2>2, <2>3 DEF Passed
<1>. QED
  BY <1>1, <1>2

(* A batch still leaves nothing out: an event inserted below one of it has *)
(* been overtaken.                                                         *)
LEMMA StoreBatch ==
  ASSUME CoverInv, NEW w \in Workers, (\E a \in Aggregates : TakeSequence(a)) \/ Settle
  PROVE  BatchOK(w)'
<1>0. WorkerOK(w) /\ SequencesOK /\ BatchOK(w) /\ worker' = worker
  BY DEF CoverInv, ReachedOK, AloneInv, PrefixInv, WorkersOK, TakeSequence, Settle, Insert, Abandon
<1>. SUFFICES ASSUME NEW i \in 1 .. Len(worker[w].batch), NEW e \in events',
                     e.seq < worker[w].batch[i].seq,
                     ~\E j \in 1 .. i - 1 : worker[w].batch[j] = e
              PROVE  IsCovered(e)'
  BY <1>0 DEF BatchOK
<1>1. PICK d \in events : d = worker[w].batch[i]
  BY <1>0 DEF WorkerOK
<1>2. e \in events => IsCovered(e)
  BY <1>0 DEF BatchOK
<1>3. ASSUME NEW p \in pending, Insert(p) \/ Abandon(p)
      PROVE  IsCovered(e)'
  <2>1. e \in events \cup pending
    BY <1>3 DEF Insert, Abandon
  <2>2. e.seq <= d.seq
    BY <1>0, <1>1, <2>1 DEF SequencesOK
  <2>. QED
    BY <1>0, <1>2, <1>3, <2>2, SettleCovers
<1>4. ASSUME NEW a \in Aggregates, TakeSequence(a)
      PROVE  IsCovered(e)'
  BY <1>2, <1>4 DEF TakeSequence, IsCovered
<1>. QED
  BY <1>3, <1>4 DEF Settle

LEMMA StoreReached ==
  ASSUME CoverInv, AloneInv', (\E a \in Aggregates : TakeSequence(a)) \/ Settle
  PROVE  CoverInv'
<1>1. SequencesOK' /\ \A s : Passed(s) => Passed(s)'
  BY TakeReached, InsertReached DEF Settle
<1>2. worker' = worker /\ checkpoint' = checkpoint
  BY DEF TakeSequence, Settle, Insert, Abandon
<1>3. Passed(checkpoint)'
  <2>1. PICK s : s = checkpoint
    OBVIOUS
  <2>2. Passed(s)'
    BY <1>1, <2>1 DEF CoverInv
  <2>. QED
    BY <1>2, <2>1, <2>2 DEF Passed
<1>4. ASSUME NEW w \in Workers
      PROVE  ReachedOK(w)'
  <2>0. ReachedOK(w)
    BY DEF CoverInv
  <2>1. worker[w].phase = "fetching" => Passed(worker[w].from)'
    <3>1. PICK s : s = worker[w].from
      OBVIOUS
    <3>2. Passed(s) => Passed(s)'
      BY <1>1
    <3>3. s = worker'[w].from
      BY <1>2, <3>1
    <3>. QED
      BY <1>2, <2>0, <3>1, <3>2, <3>3 DEF ReachedOK, Passed
  <2>2. worker[w].phase = "saving" => Passed(worker[w].last)'
    <3>1. PICK s : s = worker[w].last
      OBVIOUS
    <3>2. Passed(s) => Passed(s)'
      BY <1>1
    <3>3. s = worker'[w].last
      BY <1>2, <3>1
    <3>. QED
      BY <1>2, <2>0, <3>1, <3>2, <3>3 DEF ReachedOK, Passed
  <2>. QED
    BY <1>2, <2>1, <2>2, StoreBatch DEF ReachedOK
<1>. QED
  BY <1>1, <1>3, <1>4 DEF CoverInv

LEMMA CoverNext ==
  ASSUME OneWorker, CoverInv, [Next]_vars
  PROVE  CoverInv'
<1>0. AloneInv' /\ DocumentsGrow
  BY AloneNext DEF CoverInv
<1>1. ASSUME NEW w \in Workers, Work(w) \/ Fail(w) \/ Start(w)
      PROVE  CoverInv'
  <2>1. StoreKept /\ ReachedOK(w)'
    BY <1>0, <1>1, WorkerReached
  <2>2. Passed(checkpoint)'
    BY <1>0, <1>1, CheckpointPassed
  <2>3. \A v \in Workers : ReachedOK(v)'
    BY <2>1 DEF OneWorker
  <2>4. SequencesOK'
    BY <2>1, SequencesKept DEF CoverInv
  <2>. QED
    BY <1>0, <2>2, <2>3, <2>4 DEF CoverInv
<1>2. CASE (\E a \in Aggregates : TakeSequence(a)) \/ Settle
  BY <1>0, <1>2, StoreReached
<1>3. CASE UNCHANGED vars
  BY <1>0, <1>3 DEF vars, storeVars, CoverInv, SequencesOK, Passed, ReachedOK, BatchOK, IsCovered
<1>. QED
  BY <1>1, <1>2, <1>3 DEF Next

LEMMA CoverInit ==
  ASSUME Init
  PROVE  CoverInv
<1>1. SequencesOK
  BY DEF Init, SequencesOK
<1>2. Passed(checkpoint)
  BY DEF Init, Passed
<1>3. ASSUME NEW w \in Workers
      PROVE  ReachedOK(w)
  <2>1. worker[w] = IdleWorker
    BY DEF Init
  <2>2. worker[w].phase = "idle" /\ worker[w].batch = <<>>
    BY <2>1 DEF IdleWorker
  <2>. QED
    BY <2>2 DEF ReachedOK, BatchOK
<1>. QED
  BY <1>1, <1>2, <1>3, AloneInit DEF CoverInv

(* The inductive invariant of the checkpoint.                              *)
THEOREM CheckpointInvariance ==
  ASSUME OneWorker
  PROVE  Spec => []CoverInv
<1>1. Init => CoverInv
  BY CoverInit
<1>2. CoverInv /\ [Next]_vars => CoverInv'
  BY CoverNext
<1>. QED
  BY <1>1, <1>2, PTL DEF Spec

(* Nothing the checkpoint of a lone worker has passed is missing from the  *)
(* read model, dead letters apart and the events that another append       *)
(* overtook, however many appends are in progress, whatever calls fail and *)
(* however often the loop ends and the process starts again.               *)
THEOREM CheckpointNeverPasses ==
  ASSUME OneWorker
  PROVE  Spec => []CheckpointCovers
<1>1. CoverInv => CheckpointCovers
  BY DEF CoverInv, Passed, IsCovered, CheckpointCovers
<1>. QED
  BY <1>1, CheckpointInvariance, PTL

-----------------------------------------------------------------------------
(* The rebuild script.                                                     *)

RebuildAttributes == {"phase", "left", "agg", "next", "stored", "latest"}

(* What the script holds at each of its phases.                            *)
RebuildOK ==
  /\ DOMAIN rebuild = RebuildAttributes
  /\ rebuild.left \subseteq Aggregates /\ rebuild.agg \subseteq Aggregates
  /\ rebuild.phase \in {"checking", "writing"} =>
       \E a \in Aggregates : rebuild.agg = {a} /\ IsReplay(rebuild.next, a)
  /\ rebuild.phase = "writing" => rebuild.stored \in Nat

RebuildInv == PrefixInv /\ RebuildOK

-----------------------------------------------------------------------------
(* The steps of the script.                                                *)

(* A whole stream, replayed, is a prefix.                                  *)
LEMMA StreamIsPrefix ==
  ASSUME EventsOK, NEW a \in Aggregates
  PROVE  IsReplay(Ascending({e.version : e \in StreamOf(a)}), a)
<1>. DEFINE hi == CurrentVersion(a)
<1>1. hi \in Nat
  BY CurrentVersionType
<1>. DEFINE V == {e.version : e \in StreamOf(a)}
<1>2. V = Missing(a, 0, hi)
  <2>1. \A e \in StreamOf(a) : e.agg = a /\ e.version \in Nat /\ 0 < e.version /\ e.version <= hi
    BY DEF StreamOf, EventsOK
  <2>. QED
    BY <2>1 DEF StreamOf, Missing
<1>. HIDE DEF V
<1>3. V = 0 + 1 .. hi
  <2>1. Missing(a, 0, hi) = 0 + 1 .. hi
    BY <1>1, NothingMissing
  <2>. QED
    BY <1>2, <2>1
<1>4. Ascending(0 + 1 .. hi) = [i \in 1 .. hi - 0 |-> 0 + i]
  BY <1>1, AscendingInterval
<1>5. Ascending(V) = Prefix(hi)
  BY <1>1, <1>3, <1>4 DEF Prefix
<1>6. IsReplay(Ascending(V), a)
  BY <1>1, <1>5 DEF IsReplay
<1>. QED
  BY <1>6 DEF V

(* What the script itself does beside the documents.                       *)
LEMMA ScriptStep ==
  ASSUME PrefixInv, RebuildOK, ListAggregates \/ ReadStream \/ CheckRebuilt \/ MoveCheckpoint
  PROVE  RebuildInv'
<1>0. /\ EventsOK /\ DocumentsOK /\ events' = events /\ pending' = pending
      /\ readModel' = readModel /\ worker' = worker
  BY DEF PrefixInv, ListAggregates, ReadStream, CheckRebuilt, MoveCheckpoint, vars, storeVars
<1>1. PrefixInv'
  BY <1>0 DEF PrefixInv, EventsOK, DocumentsOK, WorkersOK, WorkerOK, Recorded, Among,
              IsReplay, CurrentVersion, Current
<1>2. CASE ListAggregates
  <2>1. {e.agg : e \in events} \subseteq Aggregates
    BY <1>0 DEF EventsOK
  <2>2. /\ DOMAIN rebuild' = RebuildAttributes /\ rebuild'.phase = "emptying"
        /\ rebuild'.left = {e.agg : e \in events} /\ rebuild'.agg = rebuild.agg
    BY <1>2 DEF ListAggregates, RebuildOK, RebuildAttributes
  <2>. QED
    BY <1>1, <2>1, <2>2 DEF RebuildInv, RebuildOK
<1>3. CASE ReadStream
  <2>1. PICK a \in rebuild.left :
          rebuild' = [rebuild EXCEPT !.phase = "checking",
             !.left = rebuild.left \ {a}, !.agg = {a},
             !.next = Ascending({e.version : e \in StreamOf(a)}),
             !.latest = Max({rebuild.latest} \cup {e.seq : e \in StreamOf(a)})]
    BY <1>3 DEF ReadStream, StreamOf
  <2>2. /\ DOMAIN rebuild' = RebuildAttributes /\ rebuild'.phase = "checking"
        /\ rebuild'.left \subseteq rebuild.left /\ rebuild'.agg = {a}
        /\ rebuild'.next = Ascending({e.version : e \in StreamOf(a)})
    BY <2>1 DEF RebuildOK, RebuildAttributes
  <2>3. a \in Aggregates
    BY DEF RebuildOK
  <2>4. IsReplay(Ascending({e.version : e \in StreamOf(a)}), a)
    BY <1>0, <2>3, StreamIsPrefix
  <2>5. IsReplay(rebuild.next, a)'
    BY <1>0, <2>2, <2>4 DEF IsReplay, CurrentVersion
  <2>. QED
    BY <1>1, <2>2, <2>3, <2>5 DEF RebuildInv, RebuildOK
<1>4. CASE CheckRebuilt
  <2>1. PICK a \in rebuild.agg :
          rebuild' = [rebuild EXCEPT !.phase = "writing", !.stored = Version(readModel[a])]
    BY <1>4 DEF CheckRebuilt
  <2>2. PICK b \in Aggregates : rebuild.agg = {b} /\ IsReplay(rebuild.next, b)
    BY <1>4 DEF CheckRebuilt, RebuildOK
  <2>3. Version(readModel[a]) \in Nat
    BY <1>0, <2>2, VersionOfPrefix DEF DocumentsOK
  <2>4. /\ DOMAIN rebuild' = RebuildAttributes /\ rebuild'.agg = rebuild.agg
        /\ rebuild'.left = rebuild.left /\ rebuild'.next = rebuild.next
        /\ rebuild'.stored = Version(readModel[a])
    BY <2>1 DEF RebuildOK, RebuildAttributes
  <2>5. IsReplay(rebuild.next, b)'
    BY <1>0, <2>2, <2>4 DEF IsReplay, CurrentVersion
  <2>. QED
    BY <1>1, <2>2, <2>3, <2>4, <2>5 DEF RebuildInv, RebuildOK
<1>5. CASE MoveCheckpoint
  <2>1. /\ DOMAIN rebuild' = RebuildAttributes /\ rebuild'.agg = rebuild.agg
        /\ rebuild'.left = rebuild.left /\ rebuild'.phase = "done"
    BY <1>5 DEF MoveCheckpoint, RebuildOK, RebuildAttributes
  <2>. QED
    BY <1>1, <2>1 DEF RebuildInv, RebuildOK
<1>. QED
  BY <1>2, <1>3, <1>4, <1>5

(* The documents change and nothing the workers hold does.                 *)
LEMMA DocumentsReplaced ==
  ASSUME PrefixInv, events' = events, pending' = pending, worker' = worker, DocumentsOK'
  PROVE  PrefixInv'
BY DEF PrefixInv, EventsOK, WorkersOK, WorkerOK, Recorded, Among, IsReplay, CurrentVersion,
       Current

LEMMA DeleteStep ==
  ASSUME PrefixInv, RebuildOK, DeleteAll
  PROVE  RebuildInv'
<1>0. EventsOK /\ events' = events /\ pending' = pending /\ worker' = worker
  BY DEF PrefixInv, DeleteAll, storeVars
<1>1. DocumentsOK'
  <2>1. Prefix(0) = <<>>
    BY DEF Prefix
  <2>2. \A a \in Aggregates : CurrentVersion(a)' \in Nat /\ readModel'[a] = Prefix(0)
    BY <1>0, <2>1, CurrentVersionType DEF DeleteAll, CurrentVersion
  <2>3. DOMAIN readModel' = Aggregates
    BY DEF DeleteAll
  <2>. QED
    BY <2>2, <2>3 DEF DocumentsOK, IsReplay
<1>2. /\ DOMAIN rebuild' = RebuildAttributes /\ rebuild'.agg = rebuild.agg
      /\ rebuild'.left = rebuild.left /\ rebuild'.phase = "reading"
  BY DEF DeleteAll, RebuildOK, RebuildAttributes
<1>. QED
  BY <1>0, <1>1, <1>2, DocumentsReplaced DEF RebuildInv, RebuildOK

LEMMA WriteStep ==
  ASSUME PrefixInv, RebuildOK, WriteRebuilt
  PROVE  RebuildInv'
<1>0. /\ EventsOK /\ DocumentsOK
      /\ events' = events /\ pending' = pending /\ worker' = worker
  BY DEF PrefixInv, WriteRebuilt, storeVars
<1>1. PICK a \in Aggregates : rebuild.agg = {a} /\ IsReplay(rebuild.next, a)
  BY DEF WriteRebuilt, RebuildOK
<1>2. readModel' = readModel \/ readModel' = [readModel EXCEPT ![a] = rebuild.next]
  BY <1>1 DEF WriteRebuilt
<1>3. DocumentsOK'
  BY <1>0, <1>1, <1>2 DEF DocumentsOK, IsReplay, CurrentVersion
<1>4. /\ DOMAIN rebuild' = RebuildAttributes /\ rebuild'.agg = {}
      /\ rebuild'.left = rebuild.left /\ rebuild'.phase = "reading"
  BY DEF WriteRebuilt, RebuildOK, RebuildAttributes
<1>. QED
  BY <1>0, <1>3, <1>4, DocumentsReplaced DEF RebuildInv, RebuildOK

(* Whatever writers and workers do, what the script holds stays a prefix.  *)
LEMMA OthersKeepRebuild ==
  ASSUME PrefixInv, RebuildOK, [Next]_vars, rebuild' = rebuild
  PROVE  RebuildInv'
<1>1. PrefixInv'
  BY PrefixInvNext
<1>2. EventsOK /\ EventsOK'
  BY <1>1 DEF PrefixInv
<1>3. EventsKept
  <2>1. ASSUME events' = events
        PROVE  EventsKept
    <3>1. \A a : CurrentVersion(a)' = CurrentVersion(a) /\ CurrentVersion(a) \in Nat
      BY <1>2, <2>1, CurrentVersionType DEF CurrentVersion
    <3>. QED
      BY <2>1, <3>1 DEF EventsKept
  <2>2. ASSUME (\E a \in Aggregates : TakeSequence(a)) \/ Settle
        PROVE  EventsKept
    BY <1>2, <2>2, StoreStep
  <2>3. ASSUME NEW w \in Workers, Work(w) \/ Fail(w) \/ Start(w)
        PROVE  events' = events
    BY <2>3 DEF Work, LoadCheckpoint, Fetch, FindProjection, HealGap, CheckStored,
                SaveProjection, SaveCheckpoint, DeadLetter, RecordFailure, Fail, FailAttempt,
                FailIteration, EndLoop, Crash, Start, storeVars
  <2>4. CASE UNCHANGED vars
    BY <2>1, <2>4 DEF vars, storeVars
  <2>. QED
    BY <2>1, <2>2, <2>3, <2>4 DEF Next
<1>4. ASSUME rebuild.phase \in {"checking", "writing"}
      PROVE  \E a \in Aggregates : rebuild'.agg = {a} /\ IsReplay(rebuild.next, a)'
  <2>1. PICK a \in Aggregates : rebuild.agg = {a} /\ IsReplay(rebuild.next, a)
    BY <1>4 DEF RebuildOK
  <2>2. \E n \in 0 .. CurrentVersion(a)' : rebuild.next = Prefix(n)
    BY <1>2, <1>3, <2>1, PrefixKept
  <2>3. IsReplay(rebuild.next, a)'
    BY <2>2 DEF IsReplay
  <2>. QED
    BY <2>1, <2>3
<1>. QED
  BY <1>1, <1>4 DEF RebuildInv, RebuildOK

-----------------------------------------------------------------------------
(* The theorems.                                                           *)

(* The inductive invariant of the rebuild beside workers and writers.      *)
THEOREM RebuildInvariance == RebuildSpec => []RebuildInv
<1>1. RebuildInit => RebuildInv
  <2>. SUFFICES ASSUME RebuildInit
                PROVE  RebuildInv
    OBVIOUS
  <2>1. PrefixInv
    BY PrefixInvInit DEF RebuildInit
  <2>2. RebuildOK
    BY DEF RebuildInit, RebuildOK, RebuildAttributes
  <2>. QED
    BY <2>1, <2>2 DEF RebuildInv
<1>2. RebuildInv /\ [RebuildNext]_rebuildVars => RebuildInv'
  <2>. SUFFICES ASSUME RebuildInv, [RebuildNext]_rebuildVars
                PROVE  RebuildInv'
    OBVIOUS
  <2>0. PrefixInv /\ RebuildOK
    BY DEF RebuildInv
  <2>1. CASE Rebuild
    BY <2>0, <2>1, ScriptStep, DeleteStep, WriteStep DEF Rebuild
  <2>2. CASE (Next /\ UNCHANGED rebuild) \/ UNCHANGED rebuildVars
    BY <2>0, <2>2, OthersKeepRebuild DEF rebuildVars
  <2>. QED
    BY <2>1, <2>2 DEF RebuildNext
<1>. QED
  BY <1>1, <1>2, PTL DEF RebuildSpec

(* A rebuild beside running workers leaves no document that shows a state  *)
(* its shipment was not in.                                                *)
THEOREM RebuiltDocumentsArePrefixes == RebuildSpec => []ProjectionIsPrefix
<1>1. RebuildInv => ProjectionIsPrefix
  BY PrefixInvIsEnough DEF RebuildInv
<1>. QED
  BY <1>1, RebuildInvariance, PTL

(* Whoever writes beside it, a document is taken back only by the emptying *)
(* or by a write that found none.                                          *)
THEOREM NothingIsTakenBackBlindly == RebuildSpec => TakenBackKnowingly
<1>. DEFINE Back(a) == Version(readModel'[a]) < Version(readModel[a])
            Known(a) == \/ rebuild.phase = "emptying"
                        \/ rebuild.phase = "writing" /\ rebuild.stored = 0 /\ rebuild.agg = {a}
                        \/ \E w \in Workers : /\ worker[w].phase = "writing"
                                              /\ worker[w].stored = 0
                                              /\ Current(w).agg = a
<1>1. ASSUME RebuildInv, [RebuildNext]_rebuildVars, NEW a \in Aggregates, Back(a)
      PROVE  Known(a)
  <2>0. /\ EventsOK /\ DOMAIN readModel = Aggregates /\ Version(readModel[a]) \in Nat
        /\ readModel' # readModel
    <3>1. EventsOK /\ DOMAIN readModel = Aggregates /\ IsReplay(readModel[a], a)
      BY <1>1 DEF RebuildInv, PrefixInv, DocumentsOK
    <3>2. Version(readModel[a]) \in Nat
      BY <3>1, VersionOfPrefix
    <3>. QED
      BY <1>1, <3>1, <3>2
  <2>1. CASE DeleteAll
    BY <2>1 DEF DeleteAll
  <2>2. CASE WriteRebuilt
    <3>1. PICK b \in Aggregates : rebuild.agg = {b} /\ IsReplay(rebuild.next, b)
      BY <1>1, <2>2 DEF WriteRebuilt, RebuildInv, RebuildOK
    <3>2. /\ readModel' = [readModel EXCEPT ![b] = rebuild.next]
          /\ ~(rebuild.stored > 0 /\ Version(readModel[b]) >= Version(rebuild.next))
          /\ rebuild.phase = "writing"
      BY <2>0, <2>2, <3>1 DEF WriteRebuilt
    <3>3. a = b /\ Version(rebuild.next) < Version(readModel[a])
      BY <1>1, <2>0, <3>2
    <3>4. rebuild.stored \in Nat /\ Version(rebuild.next) \in Nat
      BY <1>1, <2>0, <3>1, <3>2, VersionOfPrefix DEF RebuildInv, RebuildOK
    <3>. QED
      BY <2>0, <3>1, <3>2, <3>3, <3>4
  <2>3. ASSUME NEW w \in Workers, worker[w].phase = "writing", readModel' = Saved(w)
        PROVE  Known(a)
    <3>. DEFINE b == Current(w).agg
    <3>1. WorkerOK(w) /\ b \in Aggregates
      BY <1>1, <2>0, <2>3, CurrentIsRecorded DEF RebuildInv, PrefixInv, WorkersOK, Busy
    <3>2. worker[w].stored \in Nat /\ Version(worker[w].next) \in Nat
      BY <2>0, <2>3, <3>1, VersionOfPrefix DEF WorkerOK
    <3>3. /\ readModel' = [readModel EXCEPT ![b] = worker[w].next]
          /\ ~(worker[w].stored > 0 /\ Version(readModel[b]) >= Version(worker[w].next))
      BY <2>0, <2>3 DEF Saved
    <3>. HIDE DEF b
    <3>4. a = b /\ Version(worker[w].next) < Version(readModel[a])
      BY <1>1, <2>0, <3>1, <3>3
    <3>5. worker[w].stored = 0
      BY <2>0, <3>2, <3>3, <3>4
    <3>. QED
      BY <2>3, <3>4, <3>5 DEF b
  <2>4. ASSUME NEW w \in Workers, Work(w) \/ Fail(w) \/ Start(w)
        PROVE  worker[w].phase = "writing" /\ readModel' = Saved(w)
    BY <2>0, <2>4 DEF Work, LoadCheckpoint, Fetch, FindProjection, HealGap, CheckStored,
       SaveProjection, SaveCheckpoint, DeadLetter, RecordFailure, Fail, FailAttempt,
       FailIteration, EndLoop, Crash, Start, Unsure
  <2>5. ~(ListAggregates \/ ReadStream \/ CheckRebuilt \/ MoveCheckpoint)
        /\ ~(\E b \in Aggregates : TakeSequence(b)) /\ ~Settle /\ ~UNCHANGED rebuildVars
    BY <2>0 DEF ListAggregates, ReadStream, CheckRebuilt, MoveCheckpoint, TakeSequence,
       Settle, Insert, Abandon, rebuildVars, vars
  <2>. QED
    BY <1>1, <2>1, <2>2, <2>3, <2>4, <2>5 DEF RebuildNext, Rebuild, Next
<1>2. RebuildInv /\ [RebuildNext]_rebuildVars =>
        [\A a \in Aggregates : Back(a) => Known(a)]_rebuildVars
  BY <1>1
<1>. QED
  BY <1>2, RebuildInvariance, PTL DEF RebuildSpec, TakenBackKnowingly
=============================================================================
