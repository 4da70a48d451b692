------------------------ MODULE ShipmentIdAllocator ------------------------
(***************************************************************************)
(* Creation of shipments with an identifier of the client's or one from    *)
(* the counter, one step per database call, beside instances that start    *)
(* and move the counter past the streams they find.                        *)
(*                                                                         *)
(* An identifier is its number.  One in another format never meets an      *)
(* allocated one and is left out.                                          *)
(***************************************************************************)
EXTENDS Naturals, FiniteSets

CONSTANTS
  Clients,       \* clients, each with one creation at a time
  Instances,     \* server processes sharing the database
  Authors,       \* who a creation is recorded for
  NULL,
  Existing,      \* numbers of the streams the database was restored with
  MaxAttempts,   \* candidates one allocation tries
  MaxId          \* bound on numbers

ASSUME AllocatorAssumption ==
  /\ MaxAttempts \in Nat \ {0} /\ MaxId \in Nat
  /\ Existing \subseteq 1 .. MaxId
  /\ NULL \notin Authors

VARIABLES
  counter,    \* the stored counter; 0 also when it was never stored
  streams,    \* the creation events recorded
  creation,   \* per client, its creation
  sync        \* per instance, its synchronisation

allocatorVars == <<counter, streams, creation, sync>>

Ids == 1 .. MaxId

NoCreation == [phase |-> "idle", by |-> NULL, id |-> NULL, supplied |-> FALSE, attempts |-> 0]

Unsynchronised == [phase |-> "idle", highest |-> 0]

(* What a restored database holds was not handed out by this counter.      *)
Restored(id) == [id |-> id, by |-> NULL, supplied |-> TRUE]

AllocatorInit ==
  /\ counter = 0
  /\ streams = {Restored(id) : id \in Existing}
  /\ creation = [c \in Clients |-> NoCreation]
  /\ sync = [i \in Instances |-> Unsynchronised]

Taken(id) == \E s \in streams : s.id = id

CreatedBy(c) ==
  [id |-> creation[c].id, by |-> creation[c].by, supplied |-> creation[c].supplied]

-----------------------------------------------------------------------------
(* createShipment.                                                         *)

(* The client names the shipment.                                          *)
CreateNamed(c, by, id) ==
  /\ creation[c].phase = "idle"
  /\ creation' = [creation EXCEPT ![c] =
                    [NoCreation EXCEPT !.phase = "inserting", !.by = by, !.id = id,
                                       !.supplied = TRUE]]
  /\ UNCHANGED <<counter, streams, sync>>

(* The client leaves it to the allocator.                                  *)
CreateUnnamed(c, by) ==
  /\ creation[c].phase = "idle"
  /\ creation' = [creation EXCEPT ![c] =
                    [NoCreation EXCEPT !.phase = "incrementing", !.by = by]]
  /\ UNCHANGED <<counter, streams, sync>>

(* The counter is moved on and read in one call.                           *)
Increment(c) ==
  /\ creation[c].phase = "incrementing" /\ counter < MaxId
  /\ counter' = counter + 1
  /\ creation' = [creation EXCEPT ![c].phase = "checking", ![c].id = counter + 1]
  /\ UNCHANGED <<streams, sync>>

(* A candidate that is taken is skipped, a limited number of times.        *)
CheckCandidate(c) ==
  /\ creation[c].phase = "checking"
  /\ creation' = [creation EXCEPT
       ![c].attempts = @ + 1,
       ![c].phase = IF ~Taken(creation[c].id) THEN "inserting"
                    ELSE IF creation[c].attempts + 1 < MaxAttempts THEN "incrementing"
                    ELSE "failed"]
  /\ UNCHANGED <<counter, streams, sync>>

(* The first event is inserted; the unique index refuses a second one.     *)
InsertCreation(c) ==
  /\ creation[c].phase = "inserting"
  /\ LET id == creation[c].id
     IN  /\ creation' = [creation EXCEPT ![c].phase = IF Taken(id) THEN "conflict"
                                                      ELSE "created"]
         /\ streams' = IF Taken(id) THEN streams ELSE streams \cup {CreatedBy(c)}
  /\ UNCHANGED <<counter, sync>>

(* A call fails, after it was carried out or before.                       *)
FailCreation(c) ==
  /\ creation[c].phase \in {"incrementing", "checking", "inserting"}
  /\ creation' = [creation EXCEPT ![c].phase = "failed"]
  /\ counter' \in IF creation[c].phase = "incrementing" /\ counter < MaxId
                    THEN {counter, counter + 1} ELSE {counter}
  /\ streams' \in IF creation[c].phase = "inserting" /\ ~Taken(creation[c].id)
                    THEN {streams, streams \cup {CreatedBy(c)}} ELSE {streams}
  /\ UNCHANGED sync

(* The client has the answer.                                              *)
EndCreation(c) ==
  /\ creation[c].phase \in {"created", "conflict", "failed"}
  /\ creation' = [creation EXCEPT ![c] = NoCreation]
  /\ UNCHANGED <<counter, streams, sync>>

CreationStep(c) ==
  \/ Increment(c) \/ CheckCandidate(c) \/ InsertCreation(c) \/ EndCreation(c)

-----------------------------------------------------------------------------
(* syncToExistingStreams, once per start.                                  *)

Highest == CHOOSE n \in {0} \cup {s.id : s \in streams} : \A s \in streams : s.id <= n

ListStreams(i) ==
  /\ sync[i].phase = "listing"
  /\ sync' = [sync EXCEPT ![i] = IF streams = {} THEN Unsynchronised
                                 ELSE [phase |-> "comparing", highest |-> Highest]]
  /\ UNCHANGED <<counter, streams, creation>>

CompareCounter(i) ==
  /\ sync[i].phase = "comparing"
  /\ sync' = [sync EXCEPT ![i] = IF counter >= sync[i].highest THEN Unsynchronised
                                 ELSE [@ EXCEPT !.phase = "advancing"]]
  /\ UNCHANGED <<counter, streams, creation>>

(* Mutant: the counter is set to what was found.                           *)
AdvanceToFound(i) ==
  /\ sync[i].phase = "advancing"
  /\ counter' = sync[i].highest
  /\ sync' = [sync EXCEPT ![i] = Unsynchronised]
  /\ UNCHANGED <<streams, creation>>

(* The counter is raised, and never lowered, to what was found.            *)
Advance(i) ==
  /\ sync[i].phase = "advancing"
  /\ counter' = IF counter < sync[i].highest THEN sync[i].highest ELSE counter
  /\ sync' = [sync EXCEPT ![i] = Unsynchronised]
  /\ UNCHANGED <<streams, creation>>

(* A call fails; the start goes on without.                                *)
FailSync(i) ==
  /\ sync[i].phase \in {"listing", "comparing", "advancing"}
  /\ sync' = [sync EXCEPT ![i] = Unsynchronised]
  /\ UNCHANGED <<counter, streams, creation>>

SyncStep(i) == ListStreams(i) \/ CompareCounter(i) \/ Advance(i)

StartSync(i) ==
  /\ sync[i].phase = "idle"
  /\ sync' = [sync EXCEPT ![i].phase = "listing"]
  /\ UNCHANGED <<counter, streams, creation>>

-----------------------------------------------------------------------------
AllocatorNext ==
  \/ \E c \in Clients :
       \/ \E by \in Authors : CreateUnnamed(c, by) \/ \E id \in Ids : CreateNamed(c, by, id)
       \/ CreationStep(c) \/ FailCreation(c)
  \/ \E i \in Instances : StartSync(i) \/ SyncStep(i) \/ FailSync(i)

AllocatorSpec == AllocatorInit /\ [][AllocatorNext]_allocatorVars

-----------------------------------------------------------------------------
(* "The counter alone is enough to guarantee uniqueness among allocated    *)
(* ids": a creation that left the identifier to the server is refused as a *)
(* conflict only when some client chose that very identifier itself, and   *)
(* no shipment is created twice.                                           *)
ConflictIsSupplied ==
  /\ \A c \in Clients : creation[c].phase = "conflict" /\ ~creation[c].supplied =>
       \E s \in streams : s.id = creation[c].id /\ s.supplied
  /\ \A s, t \in streams : s.id = t.id => s = t
=============================================================================
