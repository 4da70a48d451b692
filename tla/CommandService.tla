--------------------------- MODULE CommandService ---------------------------
(***************************************************************************)
(* The write path: concurrent requests running the command service and the *)
(* event store's append.  A step ends where the source awaits the          *)
(* database, so two requests interleave at every read and write.           *)
(*                                                                         *)
(* `store' is the events collection with its two unique indexes, `counter' *)
(* the persisted global sequence, and task[r] the local variables of the   *)
(* request r.  A request runs once; a client's retry is another request.   *)
(***************************************************************************)
EXTENDS ShipmentDomain, FiniteSets, FiniteSetsExt

CONSTANTS
  Aggregates,         \* shipment identifiers
  Commands,           \* commands clients may send
  Times,              \* instants at which events may be stamped
  Requests,           \* the requests ever made
  MaxEventsPerQuery   \* the store's limit on one read

ASSUME CommandServiceAssumption ==
  /\ \A c \in Commands : c \in ValidCommands
  /\ Times \subseteq Int
  /\ MaxEventsPerQuery \in Nat
  /\ IsFiniteSet(Requests) /\ NULL \notin Requests

VARIABLES store, counter, task

vars == <<store, counter, task>>

InFlight == {"appending", "linking", "sequencing", "inserting", "inserted", "rejected"}

Outcomes == {"accepted", "refused", "notFound", "conflict", "failed"}

Documents ==
  [agg : Aggregates, by : Requests, event : EventRecords,
   prev : Requests \cup {NULL}, seq : Nat]

(* claimed is the client's expectedVersion, base the version the command   *)
(* was decided on, told the version a conflict answer reports.             *)
IdleTask ==
  [phase |-> "idle", agg |-> NULL, claimed |-> NULL, base |-> NULL,
   event |-> NULL, prev |-> NULL, seq |-> NULL, told |-> NULL]

Init ==
  /\ store = {}
  /\ counter = 0
  /\ task = [r \in Requests |-> IdleTask]

-----------------------------------------------------------------------------
(* Reads of the event store.                                               *)

DocsOf(a) == {d \in store : d.agg = a}

VersionsOf(a) == {d.event.version : d \in DocsOf(a)}

CurrentVersion(a) == IF VersionsOf(a) = {} THEN 0 ELSE Max(VersionsOf(a))

(* The whole stream of a shipment, ascending by version.                   *)
Ascending(docs) ==
  LET n == Cardinality(docs)
  IN  CHOOSE sorted \in [1 .. n -> docs] : \A i, j \in 1 .. n : i < j =>
        sorted[i] # sorted[j] /\ sorted[i].event.version <= sorted[j].event.version

Stream(a) ==
  [i \in 1 .. Cardinality(DocsOf(a)) |-> Ascending(DocsOf(a))[i].event]

(* What one query returns of it.                                           *)
GetEvents(a) ==
  SubSeq(Stream(a), 1, IF Len(Stream(a)) < MaxEventsPerQuery
                         THEN Len(Stream(a)) ELSE MaxEventsPerQuery)

(* The document whose hash a new one links to.                             *)
PreviousLink(a, version) ==
  {d.by : d \in {e \in DocsOf(a) : e.event.version = version}}

-----------------------------------------------------------------------------
(* The command service.                                                    *)

Finish(r, outcome, told) ==
  task' = [task EXCEPT ![r].phase = outcome, ![r].told = told,
                       ![r].event = NULL, ![r].prev = NULL]

(* The client's claim: creation asserts an empty stream, every other       *)
(* command names the version the client was looking at.                    *)
Claims(c) == IF c.kind = "create" THEN {0} ELSE 1 .. Cardinality(Requests)

(* Mutant: the claimed version is not compared with the loaded one.        *)
ClaimIgnored(claimed, state) == TRUE

ClaimHolds(claimed, state) == claimed = state.version

(* What the checks after the load come to, in their order.                 *)
Verdict(events, c, claimed, at) ==
  LET state == Replay(events)
  IN  IF ~Replayable(events) THEN "failed"
      ELSE IF c.kind # "create" /\ ~Exists(state) THEN "notFound"
      ELSE IF ~ClaimHolds(claimed, state) THEN "conflict"
      ELSE IF ~InOrder(state, at) \/ Decide(state, c, at) = {} THEN "refused"
      ELSE "appending"

(* The stream is read once; everything decided from it, the event          *)
(* included, is computed before the next await.                            *)
Execute(r) ==
  /\ task[r].phase = "idle"
  /\ \E a \in Aggregates, c \in Commands : \E claimed \in Claims(c), at \in Times :
       LET events  == GetEvents(a)
           state   == Replay(events)
           verdict == Verdict(events, c, claimed, at)
       IN  \E event \in IF verdict = "appending" THEN Decide(state, c, at) ELSE {NULL} :
             task' = [task EXCEPT ![r] =
               [IdleTask EXCEPT !.phase = verdict, !.agg = a, !.claimed = claimed,
                                !.base = state.version, !.event = event]]
  /\ UNCHANGED <<store, counter>>

-----------------------------------------------------------------------------
(* The append.                                                             *)

(* Mutant: the store numbers the event itself.                             *)
ReadVersionRenumbers(r) ==
  /\ task[r].phase = "appending"
  /\ task' = [task EXCEPT ![r].phase = "linking",
                          ![r].event.version = CurrentVersion(task[r].agg) + 1]
  /\ UNCHANGED <<store, counter>>

(* The pre-check: the loaded version must still be the stored one.         *)
ReadVersion(r) ==
  LET current == CurrentVersion(task[r].agg)
  IN  /\ task[r].phase = "appending"
      /\ IF task[r].base # current \/ task[r].event.version # current + 1
           THEN Finish(r, "conflict", current)
           ELSE task' = [task EXCEPT ![r].phase = "linking"]
      /\ UNCHANGED <<store, counter>>

(* Mutant: the link skips one document.                                    *)
ReadPreviousHashSkips(r) ==
  /\ task[r].phase = "linking"
  /\ LET found == PreviousLink(task[r].agg, task[r].base - 1)
     IN  \E link \in IF found = {} THEN {NULL} ELSE found :
           task' = [task EXCEPT ![r].phase = "sequencing", ![r].prev = link]
  /\ UNCHANGED <<store, counter>>

(* The hash of the event at the version just read, null for a first event. *)
ReadPreviousHash(r) ==
  /\ task[r].phase = "linking"
  /\ LET found == PreviousLink(task[r].agg, task[r].base)
     IN  \E link \in IF found = {} THEN {NULL} ELSE found :
           task' = [task EXCEPT ![r].phase = "sequencing", ![r].prev = link]
  /\ UNCHANGED <<store, counter>>

TakeSequence(r) ==
  /\ task[r].phase = "sequencing"
  /\ counter' = counter + 1
  /\ task' = [task EXCEPT ![r].phase = "inserting", ![r].seq = counter + 1]
  /\ UNCHANGED store

Document(r) ==
  [agg |-> task[r].agg, by |-> r, event |-> task[r].event,
   prev |-> task[r].prev, seq |-> task[r].seq]

(* Mutant: no unique index on (aggregateId, version).                      *)
SequenceTaken(document) == \E d \in store : d.seq = document.seq

(* The two unique indexes.                                                 *)
Duplicate(document) ==
  \E d \in store :
    \/ d.agg = document.agg /\ d.event.version = document.event.version
    \/ d.seq = document.seq

(* Mutant: a duplicate key is taken for a repeated delivery.               *)
InsertIdempotent(r) ==
  /\ task[r].phase = "inserting"
  /\ store' = IF Duplicate(Document(r)) THEN store ELSE store \cup {Document(r)}
  /\ task' = [task EXCEPT ![r].phase = "inserted"]
  /\ UNCHANGED counter

Insert(r) ==
  /\ task[r].phase = "inserting"
  /\ IF Duplicate(Document(r))
       THEN /\ task' = [task EXCEPT ![r].phase = "rejected"]
            /\ UNCHANGED store
       ELSE /\ task' = [task EXCEPT ![r].phase = "inserted"]
            /\ store' = store \cup {Document(r)}
  /\ UNCHANGED counter

(* The version is read again so that the conflict can report it.           *)
ReportConflict(r) ==
  /\ task[r].phase = "rejected"
  /\ Finish(r, "conflict", CurrentVersion(task[r].agg))
  /\ UNCHANGED <<store, counter>>

Reply(r) ==
  /\ task[r].phase = "inserted"
  /\ Finish(r, "accepted", NULL)
  /\ UNCHANGED <<store, counter>>

(* Mutant: the sequence lives in the process and restarts with it.         *)
CrashResetsCounter(r) ==
  /\ task[r].phase \in InFlight
  /\ Finish(r, "failed", NULL)
  /\ counter' = 0
  /\ UNCHANGED store

(* The process dies or a database call fails, at any await: the client     *)
(* learns nothing, and what was written stays.                             *)
Crash(r) ==
  /\ task[r].phase \in InFlight
  /\ Finish(r, "failed", NULL)
  /\ UNCHANGED <<store, counter>>

Next ==
  \E r \in Requests :
    \/ Execute(r) \/ ReadVersion(r) \/ ReadPreviousHash(r) \/ TakeSequence(r)
    \/ Insert(r) \/ ReportConflict(r) \/ Reply(r) \/ Crash(r)

Spec == Init /\ [][Next]_vars

-----------------------------------------------------------------------------
(* Type correctness.                                                       *)

Tasks ==
  [phase : {"idle"} \cup InFlight \cup Outcomes,
   agg : Aggregates \cup {NULL}, claimed : Nat \cup {NULL},
   base : Nat \cup {NULL}, event : EventRecords \cup {NULL},
   prev : Requests \cup {NULL}, seq : Nat \cup {NULL}, told : Nat \cup {NULL}]

TypeOK ==
  /\ store \subseteq Documents
  /\ task \in [Requests -> Tasks]
  /\ counter \in Nat
  /\ \A d \in store : d.seq \in 1 .. counter

-----------------------------------------------------------------------------
(* Safety.                                                                 *)

Written(r) == \E d \in store : d.by = r

(* The versions of a stream are 1, 2, ..., n with no gap and no repetition,*)
(* whatever requests raced, failed or died: replay never refuses it.       *)
Gapless ==
  \A a \in Aggregates :
    /\ VersionsOf(a) = 1 .. CurrentVersion(a)
    /\ \A d, e \in DocsOf(a) : d.event.version = e.event.version => d = e

(* No lost update: of two writes to a shipment that named the version they *)
(* were looking at, no two were looking at the same one.                   *)
NoLostUpdate ==
  \A r, q \in Requests :
    Written(r) /\ Written(q) /\ r # q /\ task[r].agg = task[q].agg =>
      task[r].claimed # task[q].claimed

(* Each document links to the document of the version before it, so the    *)
(* chain can be walked back from the newest event to the first.            *)
ChainLinked ==
  \A d \in store :
    IF d.event.version = 1
      THEN d.prev = NULL
      ELSE \E e \in DocsOf(d.agg) : /\ e.event.version = d.event.version - 1
                                    /\ e.by = d.prev

(* The global sequence is unique, and within a shipment it follows the     *)
(* version: a reader ordered by sequence never meets version n + 1 of a    *)
(* shipment before version n.                                              *)
SequenceFollowsVersion ==
  \A d, e \in store :
    /\ d.seq = e.seq => d = e
    /\ d.agg = e.agg /\ d.event.version < e.event.version => d.seq < e.seq

(* The answer is true: accepted means written once, and a client told      *)
(* anything but "failed" otherwise may retry without recording twice.      *)
AnswerIsTrue ==
  \A r \in Requests :
    /\ task[r].phase = "accepted" =>
         \E d \in store : {e \in store : e.by = r} = {d}
    /\ task[r].phase \in {"refused", "notFound", "conflict"} => ~Written(r)

(* The concurrent write path does what the atomic ledger does: every       *)
(* recorded event was decided on exactly the events before it.             *)
Abstract == INSTANCE Ledger WITH
  log <- [a \in Aggregates |-> Stream(a)], MaxVersion <- Cardinality(Requests)

ImplementsLedger == Abstract!Spec

=============================================================================
