-------------------------- MODULE ApiServer_proofs --------------------------
(***************************************************************************)
(* What the server and its callers guarantee for any number of tabs,       *)
(* processes and accounts, and any number of starts and failures.          *)
(*                                                                         *)
(* Accounts are only ever added, and never two of a name, so what is known *)
(* of an account once stays true: that it exists and what its role is.  On *)
(* the identifiers the server takes steps of the allocator and no others,  *)
(* whose theorems come first, under its own specification.                 *)
(***************************************************************************)
EXTENDS ApiServer, WellFoundedInduction, TLAPS

-----------------------------------------------------------------------------
(* The allocator: no identifier is given twice, for any number of clients  *)
(* and server processes, any restored database and any number of attempts. *)
(* The counter never goes back, and every number it handed out is at most  *)
(* the counter and belongs to one creation.  So a creation that finds its  *)
(* allocated number taken finds it taken by a stream whose number was      *)
(* chosen, not allocated.                                                  *)

CreationPhases ==
  {"idle", "incrementing", "checking", "inserting", "created", "conflict", "failed"}

Creations ==
  [phase : CreationPhases, by : Authors \cup {NULL}, id : Nat \cup {NULL},
   supplied : BOOLEAN, attempts : Nat]

Synchronisations ==
  [phase : {"idle", "listing", "comparing", "advancing"}, highest : Nat]

AllocatorTypeOK ==
  /\ counter \in Nat
  /\ streams \subseteq [id : Ids, by : Authors \cup {NULL}, supplied : BOOLEAN]
  /\ creation \in [Clients -> Creations]
  /\ sync \in [Instances -> Synchronisations]

(* A client holds a number that was handed out to it.                      *)
Holds(c) == creation[c].phase \in {"checking", "inserting"} /\ ~creation[c].supplied

(* Every number handed out is behind the counter, no two clients hold the  *)
(* same one, and none is held that an earlier creation was recorded under. *)
HandedOutOnce ==
  /\ \A c \in Clients : Holds(c) => creation[c].id \in Nat /\ creation[c].id <= counter
  /\ \A c, d \in Clients : Holds(c) /\ Holds(d) /\ c # d => creation[c].id # creation[d].id
  /\ \A s \in streams : ~s.supplied =>
       /\ s.id <= counter
       /\ \A c \in Clients : Holds(c) => creation[c].id # s.id

(* A candidate is a number.                                                *)
CandidateIsId ==
  \A c \in Clients :
    creation[c].phase \in {"checking", "inserting"} => creation[c].id \in Ids

AllocatorInv == AllocatorTypeOK /\ CandidateIsId /\ HandedOutOnce /\ ConflictIsSupplied

-----------------------------------------------------------------------------
(* What is looked for at a start exists: of the numbers of the streams and *)
(* zero, one is the largest.                                               *)
LEMMA HighestIsNat ==
  ASSUME AllocatorTypeOK
  PROVE  Highest \in Nat
<1>. DEFINE N == {0} \cup {s.id : s \in streams}
            T == {MaxId - n : n \in N}
<1>1. N \subseteq 0 .. MaxId /\ 0 \in N /\ MaxId \in Nat
  BY AllocatorAssumption DEF AllocatorTypeOK, Ids
<1>2. \A n \in N : n \in Nat /\ MaxId - n \in Nat
  BY <1>1
<1>3. T \subseteq Nat /\ T # {}
  BY <1>1, <1>2
<1>4. PICK t \in T : \A u \in T : ~(<<u, t>> \in OpToRel(<, Nat))
  <2>. HIDE DEF T
  <2>. QED
    BY <1>3, NatLessThanWellFounded, WFMin
<1>5. \A u \in T : ~(u < t)
  <2>. HIDE DEF T
  <2>. QED
    BY <1>3, <1>4 DEF OpToRel
<1>6. PICK n \in N : t = MaxId - n
  OBVIOUS
<1>7. ASSUME NEW m \in N
      PROVE  m <= n
  <2>1. MaxId - m \in T
    OBVIOUS
  <2>2. ~(MaxId - m < MaxId - n)
    BY <1>5, <1>6, <2>1
  <2>. HIDE DEF N
  <2>. QED
    BY <1>1, <1>2, <2>2
<1>8. n \in N /\ \A s \in streams : s.id <= n
  BY <1>7
<1>9. Highest \in N
  BY <1>8 DEF Highest
<1>. QED
  BY <1>2, <1>9

LEMMA AllocatorInvInit ==
  ASSUME AllocatorInit
  PROVE  AllocatorInv
<1>1. AllocatorTypeOK
  <2>1. ASSUME NEW s \in streams
        PROVE  s \in [id : Ids, by : Authors \cup {NULL}, supplied : BOOLEAN]
    <3>1. PICK id \in Existing : s = Restored(id)
      BY DEF AllocatorInit
    <3>2. id \in Ids
      BY AllocatorAssumption DEF Ids
    <3>. QED
      BY <3>1, <3>2 DEF Restored
  <2>2. creation \in [Clients -> Creations]
    BY DEF AllocatorInit, NoCreation, Creations, CreationPhases
  <2>3. sync \in [Instances -> Synchronisations]
    BY DEF AllocatorInit, Unsynchronised, Synchronisations
  <2>. QED
    BY <2>1, <2>2, <2>3 DEF AllocatorInit, AllocatorTypeOK
<1>2. CandidateIsId /\ HandedOutOnce
  BY DEF AllocatorInit, CandidateIsId, HandedOutOnce, Holds, NoCreation, Restored
<1>3. ConflictIsSupplied
  <2>1. \A c \in Clients : creation[c].phase # "conflict"
    BY DEF AllocatorInit, NoCreation
  <2>2. \A s \in streams : s = [id |-> s.id, by |-> NULL, supplied |-> TRUE]
    BY DEF AllocatorInit, Restored
  <2>3. \A s, t \in streams : s.id = t.id => s = t
    BY <2>2
  <2>. QED
    BY <2>1, <2>3 DEF ConflictIsSupplied
<1>. QED
  BY <1>1, <1>2, <1>3 DEF AllocatorInv

-----------------------------------------------------------------------------
(* A client that neither holds a number nor inserts one, and was told of   *)
(* no conflict, says nothing about the others.                             *)
LEMMA IdleClientMoves ==
  ASSUME AllocatorInv, NEW c \in Clients, AllocatorTypeOK',
         counter' \in Nat, counter <= counter', streams' = streams,
         \A d \in Clients \ {c} : creation'[d] = creation[d],
         \/ creation'[c].phase \in {"idle", "incrementing", "created", "failed"}
         \/ /\ creation'[c].phase = "inserting" /\ creation'[c].supplied
            /\ creation'[c].id \in Ids
  PROVE  AllocatorInv'
<1>1. CandidateIsId'
  BY DEF AllocatorInv, CandidateIsId
<1>2. \A d \in Clients : Holds(d)' => d # c /\ Holds(d) /\ creation'[d] = creation[d]
  BY DEF Holds
<1>3. counter \in Nat /\ \A s \in streams : s.id \in Nat
  BY AllocatorAssumption DEF AllocatorInv, AllocatorTypeOK, Ids
<1>4. HandedOutOnce'
  BY <1>2, <1>3 DEF AllocatorInv, HandedOutOnce
<1>5. ConflictIsSupplied'
  BY DEF AllocatorInv, ConflictIsSupplied
<1>. QED
  BY <1>1, <1>4, <1>5 DEF AllocatorInv

LEMMA CreateStep ==
  ASSUME AllocatorInv, NEW c \in Clients, NEW by \in Authors,
         CreateUnnamed(c, by) \/ \E id \in Ids : CreateNamed(c, by, id)
  PROVE  AllocatorInv'
<1>1. AllocatorTypeOK'
  <2>1. ASSUME CreateUnnamed(c, by)
        PROVE  AllocatorTypeOK'
    BY <2>1 DEF AllocatorInv, AllocatorTypeOK, CreateUnnamed, NoCreation, Creations,
       CreationPhases
  <2>2. ASSUME NEW id \in Ids, CreateNamed(c, by, id)
        PROVE  AllocatorTypeOK'
    <3>1. id \in Nat
      BY AllocatorAssumption DEF Ids
    <3>. QED
      BY <2>2, <3>1 DEF AllocatorInv, AllocatorTypeOK, CreateNamed, NoCreation, Creations,
         CreationPhases
  <2>. QED
    BY <2>1, <2>2
<1>2. /\ counter' = counter /\ streams' = streams
      /\ \A d \in Clients \ {c} : creation'[d] = creation[d]
      /\ \/ creation'[c].phase = "incrementing"
         \/ /\ creation'[c].phase = "inserting" /\ creation'[c].supplied
            /\ creation'[c].id \in Ids
  BY DEF AllocatorInv, AllocatorTypeOK, CreateUnnamed, CreateNamed, NoCreation
<1>3. counter \in Nat
  BY DEF AllocatorInv, AllocatorTypeOK
<1>. QED
  BY <1>1, <1>2, <1>3, IdleClientMoves

(* The number handed out is new: all others are behind the counter.        *)
LEMMA IncrementStep ==
  ASSUME AllocatorInv, NEW c \in Clients, Increment(c)
  PROVE  AllocatorInv'
<1>0. counter \in Nat /\ counter + 1 \in Nat /\ counter < counter + 1
  BY DEF AllocatorInv, AllocatorTypeOK
<1>1. AllocatorTypeOK'
  BY <1>0 DEF AllocatorInv, AllocatorTypeOK, Increment, Creations, CreationPhases
<1>2. /\ counter' = counter + 1 /\ streams' = streams
      /\ \A d \in Clients \ {c} : creation'[d] = creation[d]
      /\ creation'[c].phase = "checking" /\ creation'[c].id = counter + 1
  BY DEF AllocatorInv, AllocatorTypeOK, Increment, Creations
<1>3. CandidateIsId' /\ ConflictIsSupplied'
  <2>1. counter + 1 \in Ids
    BY <1>0, AllocatorAssumption DEF Increment, Ids
  <2>. QED
    BY <1>2, <2>1 DEF AllocatorInv, CandidateIsId, ConflictIsSupplied
<1>4. \A d \in Clients : Holds(d)' => d = c \/ (Holds(d) /\ creation'[d] = creation[d])
  BY <1>2 DEF Holds
<1>5. \A s \in streams : s.id \in Nat
  BY AllocatorAssumption DEF AllocatorInv, AllocatorTypeOK, Ids
<1>6. \A d \in Clients : Holds(d)' => creation'[d].id \in Nat /\ creation'[d].id <= counter'
  BY <1>0, <1>2, <1>4 DEF AllocatorInv, HandedOutOnce
<1>7. \A d \in Clients : Holds(d)' /\ d # c => creation'[d].id \in Nat /\ creation'[d].id <= counter
  BY <1>2, <1>4 DEF AllocatorInv, HandedOutOnce
<1>8. \A d, e \in Clients : Holds(d)' /\ Holds(e)' /\ d # e => creation'[d].id # creation'[e].id
  <2>. SUFFICES ASSUME NEW d \in Clients, NEW e \in Clients, Holds(d)', Holds(e)', d # e
                PROVE  creation'[d].id # creation'[e].id
    OBVIOUS
  <2>1. CASE d = c
    BY <1>0, <1>2, <1>7, <2>1
  <2>2. CASE e = c
    BY <1>0, <1>2, <1>7, <2>2
  <2>3. CASE d # c /\ e # c
    BY <1>4, <2>3 DEF AllocatorInv, HandedOutOnce
  <2>. QED
    BY <2>1, <2>2, <2>3
<1>9. \A s \in streams : ~s.supplied =>
        s.id <= counter' /\ \A d \in Clients : Holds(d)' => creation'[d].id # s.id
  <2>. SUFFICES ASSUME NEW s \in streams, ~s.supplied
                PROVE  s.id <= counter' /\ \A d \in Clients : Holds(d)' => creation'[d].id # s.id
    OBVIOUS
  <2>1. s.id \in Nat /\ s.id <= counter /\ \A d \in Clients : Holds(d) => creation[d].id # s.id
    BY <1>5 DEF AllocatorInv, HandedOutOnce
  <2>2. s.id <= counter' /\ s.id # counter + 1
    BY <1>0, <1>2, <2>1
  <2>. QED
    BY <1>2, <1>4, <2>1, <2>2
<1>. QED
  BY <1>1, <1>2, <1>3, <1>6, <1>8, <1>9 DEF AllocatorInv, HandedOutOnce

(* A candidate that is free goes on to the insert, with the number it has. *)
LEMMA CheckStep ==
  ASSUME AllocatorInv, NEW c \in Clients, CheckCandidate(c)
  PROVE  AllocatorInv'
<1>1. AllocatorTypeOK'
  BY AllocatorAssumption DEF AllocatorInv, AllocatorTypeOK, CheckCandidate, Creations,
     CreationPhases
<1>2. /\ counter' = counter /\ streams' = streams
      /\ \A d \in Clients \ {c} : creation'[d] = creation[d]
      /\ creation'[c].id = creation[c].id /\ creation'[c].supplied = creation[c].supplied
      /\ creation'[c].phase \in {"inserting", "incrementing", "failed"}
      /\ creation[c].phase = "checking"
  BY DEF AllocatorInv, AllocatorTypeOK, CheckCandidate, Creations
<1>3. \A d \in Clients : Holds(d)' =>
        /\ Holds(d) /\ creation'[d].id = creation[d].id
  BY <1>2 DEF Holds
<1>4. HandedOutOnce'
  BY <1>2, <1>3 DEF AllocatorInv, HandedOutOnce
<1>5. CandidateIsId' /\ ConflictIsSupplied'
  BY <1>2 DEF AllocatorInv, CandidateIsId, ConflictIsSupplied
<1>. QED
  BY <1>1, <1>4, <1>5 DEF AllocatorInv

(* What a first event that is recorded under a free number leaves.         *)
LEMMA CreatedPreserves ==
  ASSUME AllocatorInv, NEW c \in Clients, AllocatorTypeOK',
         creation[c].phase = "inserting", ~Taken(creation[c].id),
         counter' = counter, streams' = streams \cup {CreatedBy(c)},
         \A d \in Clients \ {c} : creation'[d] = creation[d],
         creation'[c].phase \in {"created", "failed"}
  PROVE  AllocatorInv'
<1>1. CandidateIsId'
  BY DEF AllocatorInv, CandidateIsId
<1>2. \A d \in Clients : Holds(d)' => d # c /\ Holds(d) /\ creation'[d] = creation[d]
  BY DEF Holds
<1>3. \A s \in streams' : s \in streams \/ (s.id = creation[c].id /\ s.supplied = creation[c].supplied)
  BY DEF CreatedBy
<1>4. ~creation[c].supplied => Holds(c)
  BY DEF Holds
<1>5. HandedOutOnce'
  <2>1. \A s \in streams' : ~s.supplied =>
          s.id <= counter /\ \A d \in Clients : Holds(d)' => creation'[d].id # s.id
    <3>. SUFFICES ASSUME NEW s \in streams', ~s.supplied
                  PROVE  s.id <= counter /\ \A d \in Clients : Holds(d)' => creation'[d].id # s.id
      OBVIOUS
    <3>1. CASE s \in streams
      BY <1>2, <3>1 DEF AllocatorInv, HandedOutOnce
    <3>2. CASE s.id = creation[c].id /\ s.supplied = creation[c].supplied
      BY <1>2, <1>4, <3>2 DEF AllocatorInv, HandedOutOnce
    <3>. QED
      BY <1>3, <3>1, <3>2
  <2>. QED
    BY <1>2, <2>1 DEF AllocatorInv, HandedOutOnce
<1>6. ConflictIsSupplied'
  <2>1. \A s, t \in streams' : s.id = t.id => s = t
    BY DEF AllocatorInv, ConflictIsSupplied, Taken, CreatedBy
  <2>2. \A d \in Clients : creation'[d].phase = "conflict" => d # c /\ creation'[d] = creation[d]
    OBVIOUS
  <2>. QED
    BY <2>1, <2>2 DEF AllocatorInv, ConflictIsSupplied
<1>. QED
  BY <1>1, <1>5, <1>6 DEF AllocatorInv

(* An insert that is refused met a stream whose number was chosen.         *)
LEMMA InsertStep ==
  ASSUME AllocatorInv, NEW c \in Clients, InsertCreation(c)
  PROVE  AllocatorInv'
<1>1. creation[c].phase = "inserting" /\ creation[c].id \in Ids
  BY DEF AllocatorInv, CandidateIsId, InsertCreation
<1>2. CreatedBy(c) \in [id : Ids, by : Authors \cup {NULL}, supplied : BOOLEAN]
  BY <1>1 DEF CreatedBy, AllocatorInv, AllocatorTypeOK, Creations
<1>3. AllocatorTypeOK'
  BY <1>2 DEF AllocatorInv, AllocatorTypeOK, InsertCreation, Creations, CreationPhases
<1>4. /\ counter' = counter
      /\ \A d \in Clients \ {c} : creation'[d] = creation[d]
      /\ creation'[c].phase = IF Taken(creation[c].id) THEN "conflict" ELSE "created"
      /\ creation'[c].id = creation[c].id /\ creation'[c].supplied = creation[c].supplied
      /\ streams' = IF Taken(creation[c].id) THEN streams ELSE streams \cup {CreatedBy(c)}
  BY DEF AllocatorInv, AllocatorTypeOK, InsertCreation, Creations
<1>5. CASE ~Taken(creation[c].id)
  BY <1>1, <1>3, <1>4, <1>5, CreatedPreserves
<1>6. CASE Taken(creation[c].id)
  <2>1. \A d \in Clients : Holds(d)' => d # c /\ Holds(d) /\ creation'[d] = creation[d]
    BY <1>4, <1>6 DEF Holds
  <2>2. HandedOutOnce' /\ CandidateIsId'
    BY <1>4, <1>6, <2>1 DEF AllocatorInv, HandedOutOnce, CandidateIsId
  <2>3. ~creation[c].supplied => \E s \in streams : s.id = creation[c].id /\ s.supplied
    <3>1. PICK s \in streams : s.id = creation[c].id
      BY <1>6 DEF Taken
    <3>2. ASSUME ~creation[c].supplied
          PROVE  s.supplied
      BY <1>1, <3>1, <3>2 DEF AllocatorInv, HandedOutOnce, Holds
    <3>. QED
      BY <3>1, <3>2
  <2>4. ConflictIsSupplied'
    BY <1>4, <1>6, <2>3 DEF AllocatorInv, ConflictIsSupplied
  <2>. QED
    BY <1>3, <2>2, <2>4 DEF AllocatorInv
<1>. QED
  BY <1>5, <1>6

(* A call that fails leaves what it did, or nothing.                       *)
LEMMA FailCreationStep ==
  ASSUME AllocatorInv, NEW c \in Clients, FailCreation(c)
  PROVE  AllocatorInv'
<1>1. counter \in Nat /\ counter' \in Nat /\ counter <= counter'
  BY DEF AllocatorInv, AllocatorTypeOK, FailCreation
<1>2. /\ creation' \in [Clients -> Creations] /\ sync' = sync
      /\ \A d \in Clients \ {c} : creation'[d] = creation[d]
      /\ creation'[c].phase = "failed"
  BY DEF AllocatorInv, AllocatorTypeOK, FailCreation, Creations, CreationPhases
<1>3. CASE streams' = streams
  <2>1. AllocatorTypeOK'
    BY <1>1, <1>2, <1>3 DEF AllocatorInv, AllocatorTypeOK
  <2>. QED
    BY <1>1, <1>2, <1>3, <2>1, IdleClientMoves
<1>4. CASE streams' # streams
  <2>1. /\ creation[c].phase = "inserting" /\ ~Taken(creation[c].id)
        /\ streams' = streams \cup {CreatedBy(c)} /\ counter' = counter
    BY <1>4 DEF FailCreation
  <2>2. CreatedBy(c) \in [id : Ids, by : Authors \cup {NULL}, supplied : BOOLEAN]
    BY <2>1 DEF CreatedBy, AllocatorInv, AllocatorTypeOK, Creations, CandidateIsId
  <2>3. AllocatorTypeOK'
    BY <1>2, <2>1, <2>2 DEF AllocatorInv, AllocatorTypeOK
  <2>. QED
    BY <1>2, <2>1, <2>3, CreatedPreserves
<1>. QED
  BY <1>3, <1>4

LEMMA EndStep ==
  ASSUME AllocatorInv, NEW c \in Clients, EndCreation(c)
  PROVE  AllocatorInv'
<1>1. AllocatorTypeOK'
  BY DEF AllocatorInv, AllocatorTypeOK, EndCreation, NoCreation, Creations, CreationPhases
<1>2. /\ counter' = counter /\ streams' = streams
      /\ \A d \in Clients \ {c} : creation'[d] = creation[d]
      /\ creation'[c].phase = "idle"
  BY DEF AllocatorInv, AllocatorTypeOK, EndCreation, NoCreation
<1>3. counter \in Nat
  BY DEF AllocatorInv, AllocatorTypeOK
<1>. QED
  BY <1>1, <1>2, <1>3, IdleClientMoves

-----------------------------------------------------------------------------
(* A start only ever moves the counter forward.                            *)
LEMMA SyncPreserves ==
  ASSUME AllocatorInv, NEW i \in Instances, StartSync(i) \/ SyncStep(i) \/ FailSync(i)
  PROVE  AllocatorInv'
<1>1. /\ streams' = streams /\ creation' = creation
      /\ counter \in Nat /\ counter' \in Nat /\ counter <= counter'
  BY DEF AllocatorInv, AllocatorTypeOK, Synchronisations, StartSync, SyncStep, FailSync,
     ListStreams, CompareCounter, Advance
<1>2. sync' \in [Instances -> Synchronisations]
  <2>1. Unsynchronised \in Synchronisations
    BY DEF Unsynchronised, Synchronisations
  <2>2. ASSUME StartSync(i)
        PROVE  sync' \in [Instances -> Synchronisations]
    BY <2>2 DEF AllocatorInv, AllocatorTypeOK, StartSync, Synchronisations
  <2>3. ASSUME ListStreams(i)
        PROVE  sync' \in [Instances -> Synchronisations]
    <3>1. [phase |-> "comparing", highest |-> Highest] \in Synchronisations
      BY HighestIsNat DEF AllocatorInv, Synchronisations
    <3>. QED
      BY <2>1, <2>3, <3>1 DEF AllocatorInv, AllocatorTypeOK, ListStreams
  <2>4. ASSUME CompareCounter(i)
        PROVE  sync' \in [Instances -> Synchronisations]
    BY <2>1, <2>4 DEF AllocatorInv, AllocatorTypeOK, CompareCounter, Synchronisations
  <2>5. ASSUME Advance(i) \/ FailSync(i)
        PROVE  sync' \in [Instances -> Synchronisations]
    BY <2>1, <2>5 DEF AllocatorInv, AllocatorTypeOK, Advance, FailSync
  <2>. QED
    BY <2>2, <2>3, <2>4, <2>5 DEF SyncStep
<1>3. \A s \in streams : s.id \in Nat
  BY AllocatorAssumption DEF AllocatorInv, AllocatorTypeOK, Ids
<1>4. HandedOutOnce'
  BY <1>1, <1>3 DEF AllocatorInv, HandedOutOnce, Holds
<1>5. CandidateIsId' /\ ConflictIsSupplied' /\ AllocatorTypeOK'
  BY <1>1, <1>2 DEF AllocatorInv, AllocatorTypeOK, CandidateIsId, ConflictIsSupplied
<1>. QED
  BY <1>4, <1>5 DEF AllocatorInv

LEMMA AllocatorInvNext ==
  ASSUME AllocatorInv, [AllocatorNext]_allocatorVars
  PROVE  AllocatorInv'
<1>1. ASSUME NEW c \in Clients, NEW by \in Authors,
             CreateUnnamed(c, by) \/ \E id \in Ids : CreateNamed(c, by, id)
      PROVE  AllocatorInv'
  BY <1>1, CreateStep
<1>2. ASSUME NEW c \in Clients, CreationStep(c)
      PROVE  AllocatorInv'
  BY <1>2, IncrementStep, CheckStep, InsertStep, EndStep DEF CreationStep
<1>3. ASSUME NEW c \in Clients, FailCreation(c)
      PROVE  AllocatorInv'
  BY <1>3, FailCreationStep
<1>4. ASSUME NEW i \in Instances, StartSync(i) \/ SyncStep(i) \/ FailSync(i)
      PROVE  AllocatorInv'
  BY <1>4, SyncPreserves
<1>5. CASE UNCHANGED allocatorVars
  BY <1>5 DEF allocatorVars, AllocatorInv, AllocatorTypeOK, CandidateIsId, HandedOutOnce, Holds,
     ConflictIsSupplied
<1>. QED
  BY <1>1, <1>2, <1>3, <1>4, <1>5 DEF AllocatorNext

-----------------------------------------------------------------------------
(* The inductive invariant: types, candidates that are numbers, and every  *)
(* number handed out once, behind the counter.                             *)
THEOREM AllocatorInvariance == AllocatorSpec => []AllocatorInv
<1>1. AllocatorInit => AllocatorInv
  BY AllocatorInvInit
<1>2. AllocatorInv /\ [AllocatorNext]_allocatorVars => AllocatorInv'
  BY AllocatorInvNext
<1>. QED
  BY <1>1, <1>2, PTL DEF AllocatorSpec

(* A creation that left the number to the server is refused only where     *)
(* some client chose that number itself, and no shipment is created twice. *)
THEOREM AllocatedOnce == AllocatorSpec => []ConflictIsSupplied
<1>1. AllocatorInv => ConflictIsSupplied
  BY DEF AllocatorInv
<1>. QED
  BY <1>1, AllocatorInvariance, PTL

-----------------------------------------------------------------------------
(* The server around it.                                                   *)

Accounts == [user : Authors, role : Roles, by : Clients \cup Instances \cup {NULL}]

Tabs ==
  [status : {"anonymous", "pending", "authenticated"},
   user : [user : Authors, role : Roles] \cup {NULL}, token : Authors \cup {NULL}]

(* A synchronisation that is over has left nothing behind.                 *)
IdleIsFresh == \A i \in Instances : sync[i].phase = "idle" => sync[i] = Unsynchronised

AccountsOK ==
  /\ accounts \subseteq Accounts
  /\ \A a, b \in accounts : a.user = b.user => a = b

(* There is such an account.                                               *)
Stored(user, role) == \E a \in accounts : a.user = user /\ a.role = role

(* Whatever is on its way into the store was sent by an operator.          *)
CreationsByOperators ==
  /\ \A c \in Clients : creation[c].phase # "idle" => Stored(creation[c].by, "operator")
  /\ \A s \in streams : s.by # NULL => Stored(s.by, "operator")

BootOK ==
  /\ boot \in [Instances -> [phase : {"down", "syncing", "seeding", "inserting", "listening"},
                             todo : SUBSET DemoAccounts, account : DemoAccounts \cup {NULL}]]
  /\ \A i \in Instances : boot[i].phase = "inserting" => boot[i].account \in DemoAccounts

Forms ==
  [kind : {"login"}, user : Authors, role : {NULL},
   phase : {"sent", "accepted", "refused"}, heard : BOOLEAN]
  \cup [kind : {"register"}, user : Authors, role : Roles,
        phase : {"sent", "hashed", "accepted", "refused"}, heard : BOOLEAN]

(* What a tab waits for, and what it may conclude from the answer.         *)
FormOK(t) ==
  form[t] # NULL =>
    /\ form[t] \in Forms
    /\ form[t].phase = "accepted" =>
         IF form[t].kind = "login" THEN Known(form[t].user)
         ELSE [user |-> form[t].user, role |-> form[t].role, by |-> t] \in accounts

(* While a session is restored no login is listened to.                    *)
RestoringOK(t) ==
  restoring[t] # NULL =>
    /\ DOMAIN restoring[t] = {"token", "reply"}
    /\ tab[t].status = "pending" /\ tab[t].token = restoring[t].token
    /\ restoring[t].token \in Authors
    /\ form[t] # NULL /\ form[t].kind = "login" => ~form[t].heard
    /\ restoring[t].reply # NULL /\ restoring[t].reply.status = 200 =>
         /\ restoring[t].reply.user = restoring[t].token
         /\ Stored(restoring[t].reply.user, restoring[t].reply.role)

ShownOK(t) ==
  tab[t].status = "authenticated" =>
    /\ tab[t].token = tab[t].user.user
    /\ Stored(tab[t].user.user, tab[t].user.role)

TabOK(t) == tab[t] \in Tabs /\ FormOK(t) /\ RestoringOK(t) /\ ShownOK(t)

SessionsOK ==
  /\ tab \in [Clients -> Tabs]
  /\ DOMAIN restoring = Clients /\ DOMAIN form = Clients
  /\ \A t \in Clients : TabOK(t)

ApiInv ==
  /\ AllocatorInv /\ IdleIsFresh
  /\ AccountsOK /\ BootOK /\ CreationsByOperators
  /\ SessionsOK

-----------------------------------------------------------------------------
(* Accounts.                                                               *)

LEMMA StoredIsKnown ==
  ASSUME AccountsOK, NEW user, NEW role, Stored(user, role)
  PROVE  Known(user) /\ RoleOf(user) = role
<1>1. PICK a \in accounts : a.user = user /\ a.role = role
  BY DEF Stored
<1>2. \A b \in accounts : b.user = user => b = a
  BY <1>1 DEF AccountsOK
<1>3. (CHOOSE b \in accounts : b.user = user) = a
  BY <1>1, <1>2
<1>. QED
  BY <1>1, <1>3 DEF Known, RoleOf

LEMMA KnownIsStored ==
  ASSUME AccountsOK, NEW user, Known(user)
  PROVE  user \in Authors /\ RoleOf(user) \in Roles /\ Stored(user, RoleOf(user))
<1>1. PICK a \in accounts : a.user = user
  BY DEF Known
<1>2. Stored(user, a.role)
  BY <1>1 DEF Stored
<1>. QED
  BY <1>1, <1>2, StoredIsKnown DEF AccountsOK, Accounts

(* The unique index.                                                       *)
LEMMA InsertAccountKeeps ==
  ASSUME AccountsOK, NEW a, a.user \in Authors, a.role \in Roles,
         NEW by \in Clients \cup Instances, InsertAccount(a, by)
  PROVE  AccountsOK' /\ accounts \subseteq accounts'
<1>. DEFINE new == [user |-> a.user, role |-> a.role, by |-> by]
<1>1. new \in Accounts
  BY DEF Accounts
<1>2. accounts' = accounts \/ (accounts' = accounts \cup {new} /\ ~Known(a.user))
  BY DEF InsertAccount
<1>. QED
  BY <1>1, <1>2 DEF AccountsOK, Known

(* Accounts are only added.                                                *)
LEMMA AccountsStep ==
  ASSUME ApiInv, [Next]_apiVars
  PROVE  AccountsOK' /\ accounts \subseteq accounts'
<1>1. CASE accounts' = accounts
  BY <1>1 DEF ApiInv, AccountsOK
<1>2. ASSUME NEW i \in Instances, Process(i), accounts' # accounts
      PROVE  AccountsOK' /\ accounts \subseteq accounts'
  <2>1. boot[i].phase = "inserting" /\ InsertAccount(boot[i].account, i)
    BY <1>2 DEF Process, Start, Synchronise, BeginSeeding, LookForDemo, InsertDemo, FailSeeding,
       Listen, Exit, authVars
  <2>2. boot[i].account.user \in Authors /\ boot[i].account.role \in Roles
    BY <2>1, ApiAssumption DEF ApiInv, BootOK
  <2>. QED
    BY <2>1, <2>2, InsertAccountKeeps DEF ApiInv
<1>3. ASSUME NEW t \in Clients, Session(t), accounts' # accounts
      PROVE  AccountsOK' /\ accounts \subseteq accounts'
  <2>1. form[t] # NULL /\ form[t].phase = "hashed" /\ InsertAccount(form[t], t)
    BY <1>3 DEF Session, Reload, AnswerMe, Restore, SendLogin, SendRegistration, Login,
       CheckUsername, Register, FailForm, Adopt, Logout, authVars
  <2>2. form[t].user \in Authors /\ form[t].role \in Roles
    BY <2>1 DEF ApiInv, SessionsOK, TabOK, FormOK, Forms
  <2>. QED
    BY <2>1, <2>2, InsertAccountKeeps DEF ApiInv
<1>4. ASSUME NEW t \in Clients, SendCreation(t) \/ Create(t)
      PROVE  accounts' = accounts
  BY <1>4 DEF SendCreation, Create, authVars
<1>5. ASSUME NEW token \in valid, Expire(token)
      PROVE  accounts' = accounts
  BY <1>5 DEF Expire
<1>6. CASE UNCHANGED apiVars
  BY <1>1, <1>6 DEF apiVars
<1>. QED
  BY <1>1, <1>2, <1>3, <1>4, <1>5, <1>6 DEF Next

-----------------------------------------------------------------------------
(* Identifiers.                                                            *)

(* On what the allocator keeps, the server takes the allocator's steps.    *)
LEMMA ServerTakesAllocatorSteps ==
  ASSUME ApiInv, [Next]_apiVars
  PROVE  [AllocatorNext]_allocatorVars
<1>1. ASSUME NEW i \in Instances, Exit(i)
      PROVE  [AllocatorNext]_allocatorVars
  <2>1. UNCHANGED <<counter, streams, creation>> /\ sync' = [sync EXCEPT ![i] = Unsynchronised]
    BY <1>1 DEF Exit
  <2>2. CASE sync[i].phase = "idle"
    <3>1. sync' = sync
      BY <2>1, <2>2 DEF ApiInv, IdleIsFresh, AllocatorInv, AllocatorTypeOK
    <3>. QED
      BY <2>1, <3>1 DEF allocatorVars
  <2>3. CASE sync[i].phase # "idle"
    <3>1. sync[i].phase \in {"listing", "comparing", "advancing"}
      BY <2>3 DEF ApiInv, AllocatorInv, AllocatorTypeOK, Synchronisations
    <3>2. FailSync(i)
      BY <2>1, <3>1 DEF FailSync
    <3>. QED
      BY <3>2 DEF AllocatorNext
  <2>. QED
    BY <2>2, <2>3
<1>2. ASSUME NEW i \in Instances, Process(i), ~Exit(i)
      PROVE  [AllocatorNext]_allocatorVars
  <2>1. StartSync(i) \/ SyncStep(i) \/ FailSync(i) \/ UNCHANGED allocatorVars
    BY <1>2 DEF Process, Start, Synchronise, BeginSeeding, LookForDemo, InsertDemo, FailSeeding,
       Listen, Boot
  <2>. QED
    BY <2>1 DEF AllocatorNext
<1>3. ASSUME NEW t \in Clients, SendCreation(t)
      PROVE  [AllocatorNext]_allocatorVars
  <2>1. tab[t].token \in Authors
    BY <1>3 DEF SendCreation, ApiInv, SessionsOK, Tabs
  <2>. QED
    BY <1>3, <2>1 DEF SendCreation, AllocatorNext
<1>4. ASSUME NEW t \in Clients, Create(t)
      PROVE  [AllocatorNext]_allocatorVars
  BY <1>4 DEF Create, AllocatorNext
<1>5. ASSUME NEW t \in Clients, Session(t)
      PROVE  UNCHANGED allocatorVars
  BY <1>5 DEF Session, Reload, AnswerMe, Restore, SendLogin, SendRegistration, Login,
     CheckUsername, Register, FailForm, Adopt, Logout, Unmoved
<1>6. ASSUME NEW token \in valid, Expire(token)
      PROVE  UNCHANGED allocatorVars
  BY <1>6 DEF Expire
<1>7. CASE UNCHANGED apiVars
  BY <1>7 DEF apiVars
<1>. QED
  BY <1>1, <1>2, <1>3, <1>4, <1>5, <1>6, <1>7 DEF Next

LEMMA IdleStaysFresh ==
  ASSUME ApiInv, [AllocatorNext]_allocatorVars
  PROVE  IdleIsFresh'
<1>1. CASE sync' = sync
  BY <1>1 DEF ApiInv, IdleIsFresh
<1>2. ASSUME NEW i \in Instances, StartSync(i) \/ SyncStep(i) \/ FailSync(i)
      PROVE  IdleIsFresh'
  <2>1. \A j \in Instances \ {i} : sync'[j] = sync[j]
    BY <1>2 DEF ApiInv, AllocatorInv, AllocatorTypeOK, StartSync, SyncStep, FailSync,
       ListStreams, CompareCounter, Advance
  <2>2. sync'[i].phase # "idle" \/ sync'[i] = Unsynchronised
    BY <1>2 DEF ApiInv, AllocatorInv, AllocatorTypeOK, Synchronisations, StartSync, SyncStep,
       FailSync, ListStreams, CompareCounter, Advance
  <2>. QED
    BY <2>1, <2>2 DEF ApiInv, IdleIsFresh
<1>3. ASSUME NEW c \in Clients,
             \/ \E by \in Authors : CreateUnnamed(c, by) \/ \E id \in Ids : CreateNamed(c, by, id)
             \/ CreationStep(c) \/ FailCreation(c)
      PROVE  sync' = sync
  BY <1>3 DEF CreateUnnamed, CreateNamed, CreationStep, Increment, CheckCandidate,
     InsertCreation, EndCreation, FailCreation
<1>4. CASE UNCHANGED allocatorVars
  BY <1>1, <1>4 DEF allocatorVars
<1>. QED
  BY <1>1, <1>2, <1>3, <1>4 DEF AllocatorNext

(* Whoever may create is an operator, and stays one until the creation is  *)
(* recorded and after.                                                     *)
LEMMA CreationsStep ==
  ASSUME ApiInv, [Next]_apiVars
  PROVE  CreationsByOperators'
<1>0. AccountsOK /\ accounts \subseteq accounts'
  BY AccountsStep DEF ApiInv
<1>2. CASE UNCHANGED <<streams, creation>>
  BY <1>0, <1>2 DEF ApiInv, CreationsByOperators, Stored
<1>3. ASSUME NEW t \in Clients, SendCreation(t)
      PROVE  CreationsByOperators'
  <2>1. streams' = streams /\ accounts' = accounts
    BY <1>3 DEF SendCreation, CreateUnnamed, CreateNamed, authVars
  <2>2. Stored(tab[t].token, "operator")
    BY <1>0, <1>3, KnownIsStored DEF SendCreation, Authorised, Verified
  <2>3. /\ \A c \in Clients \ {t} : creation'[c] = creation[c]
        /\ creation'[t].by = tab[t].token
    BY <1>3 DEF SendCreation, CreateUnnamed, CreateNamed, NoCreation, ApiInv, AllocatorInv,
       AllocatorTypeOK
  <2>. QED
    BY <2>1, <2>2, <2>3 DEF ApiInv, CreationsByOperators, Stored
<1>4. ASSUME NEW t \in Clients, Create(t)
      PROVE  CreationsByOperators'
  <2>1. accounts' = accounts
    BY <1>4 DEF Create, authVars
  <2>0. creation \in [Clients -> Creations]
    BY DEF ApiInv, AllocatorInv, AllocatorTypeOK
  <2>9. CreationStep(t) \/ FailCreation(t)
    BY <1>4 DEF Create
  <2>2. /\ \A c \in Clients \ {t} : creation'[c] = creation[c]
        /\ \/ creation'[t].phase = "idle"
           \/ creation[t].phase # "idle" /\ creation'[t].by = creation[t].by
    <3>1. CASE Increment(t)
      BY <2>0, <3>1 DEF Increment, Creations
    <3>2. CASE CheckCandidate(t)
      BY <2>0, <3>2 DEF CheckCandidate, Creations
    <3>3. CASE InsertCreation(t)
      BY <2>0, <3>3 DEF InsertCreation, Creations
    <3>4. CASE EndCreation(t)
      BY <2>0, <3>4 DEF EndCreation, NoCreation
    <3>5. CASE FailCreation(t)
      BY <2>0, <3>5 DEF FailCreation, Creations
    <3>. QED
      BY <2>9, <3>1, <3>2, <3>3, <3>4, <3>5 DEF CreationStep
  <2>3. \/ streams' = streams
        \/ creation[t].phase = "inserting" /\ streams' = streams \cup {CreatedBy(t)}
    <3>1. CASE InsertCreation(t)
      BY <2>0, <3>1 DEF InsertCreation, Creations
    <3>2. CASE FailCreation(t)
      BY <2>0, <3>2 DEF FailCreation, Creations
    <3>3. CASE Increment(t)
      BY ONLY <3>3 DEF Increment
    <3>4. CASE CheckCandidate(t)
      BY ONLY <3>4 DEF CheckCandidate
    <3>5. CASE EndCreation(t)
      BY ONLY <3>5 DEF EndCreation
    <3>. QED
      BY <2>9, <3>1, <3>2, <3>3, <3>4, <3>5 DEF CreationStep
  <2>4. \A c \in Clients : creation'[c].phase # "idle" => Stored(creation'[c].by, "operator")
    BY <2>2 DEF ApiInv, CreationsByOperators
  <2>5. \A s \in streams' : s.by # NULL => Stored(s.by, "operator")
    <3>1. creation[t].phase = "inserting" => Stored(CreatedBy(t).by, "operator")
      BY DEF ApiInv, CreationsByOperators, CreatedBy
    <3>. QED
      BY <2>3, <3>1 DEF ApiInv, CreationsByOperators
  <2>. QED
    BY <2>1, <2>4, <2>5 DEF CreationsByOperators, Stored
<1>5. ASSUME NEW i \in Instances, Process(i)
      PROVE  UNCHANGED <<streams, creation>>
  BY <1>5 DEF Process, Start, Synchronise, BeginSeeding, LookForDemo, InsertDemo, FailSeeding,
     Listen, Exit, Boot, allocatorVars, StartSync, SyncStep, FailSync, ListStreams,
     CompareCounter, Advance
<1>6. ASSUME NEW t \in Clients, Session(t)
      PROVE  UNCHANGED <<streams, creation>>
  BY <1>6 DEF Session, Reload, AnswerMe, Restore, SendLogin, SendRegistration, Login,
     CheckUsername, Register, FailForm, Adopt, Logout, Unmoved, allocatorVars
<1>7. ASSUME NEW token \in valid, Expire(token)
      PROVE  UNCHANGED <<streams, creation>>
  BY <1>7 DEF Expire, allocatorVars
<1>8. CASE UNCHANGED apiVars
  BY <1>2, <1>8 DEF apiVars, allocatorVars
<1>. QED
  BY <1>2, <1>3, <1>4, <1>5, <1>6, <1>7, <1>8 DEF Next

-----------------------------------------------------------------------------
(* Starts.                                                                 *)

LEMMA BootStep ==
  ASSUME ApiInv, [Next]_apiVars
  PROVE  BootOK'
<1>1. CASE boot' = boot
  BY <1>1 DEF ApiInv, BootOK
<1>2. ASSUME NEW i \in Instances, Process(i)
      PROVE  BootOK'
  <2>1. CASE Start(i) \/ Exit(i)
    BY <2>1 DEF Start, Exit, Off, ApiInv, BootOK
  <2>2. CASE Synchronise(i)
    BY <1>1, <2>2 DEF Synchronise
  <2>3. CASE BeginSeeding(i) \/ LookForDemo(i) \/ InsertDemo(i) \/ FailSeeding(i) \/ Listen(i)
    <3>1. PICK phase \in {"seeding", "inserting", "listening"}, todo \in SUBSET DemoAccounts,
               account \in DemoAccounts \cup {NULL} :
            /\ boot' = [boot EXCEPT ![i] = [phase |-> phase, todo |-> todo, account |-> account]]
            /\ phase = "inserting" => account \in DemoAccounts
      <4>1. boot[i].todo \subseteq DemoAccounts
        BY DEF ApiInv, BootOK
      <4>2. CASE BeginSeeding(i)
        BY <4>2 DEF BeginSeeding, Boot
      <4>3. CASE LookForDemo(i)
        BY <4>1, <4>3 DEF LookForDemo, Boot
      <4>4. CASE InsertDemo(i) \/ FailSeeding(i) \/ Listen(i)
        BY <4>1, <4>4 DEF InsertDemo, FailSeeding, Listen, Boot
      <4>. QED
        BY <2>3, <4>2, <4>3, <4>4
    <3>. QED
      BY <3>1 DEF ApiInv, BootOK
  <2>. QED
    BY <1>2, <2>1, <2>2, <2>3 DEF Process
<1>3. ASSUME NEW t \in Clients, SendCreation(t) \/ Create(t) \/ Session(t)
      PROVE  boot' = boot
  BY <1>3 DEF SendCreation, Create, Session, Reload, AnswerMe, Restore, SendLogin,
     SendRegistration, Login, CheckUsername, Register, FailForm, Adopt, Logout, Unmoved
<1>4. ASSUME NEW token \in valid, Expire(token)
      PROVE  boot' = boot
  BY <1>4 DEF Expire
<1>5. CASE UNCHANGED apiVars
  BY <1>1, <1>5 DEF apiVars
<1>. QED
  BY <1>1, <1>2, <1>3, <1>4, <1>5 DEF Next

-----------------------------------------------------------------------------
(* Sessions.                                                               *)

(* Accounts added meanwhile change nothing for a tab that does nothing.    *)
LEMMA RestingTab ==
  ASSUME NEW t \in Clients, TabOK(t), accounts \subseteq accounts',
         tab'[t] = tab[t], restoring'[t] = restoring[t], form'[t] = form[t]
  PROVE  TabOK(t)'
<1>1. FormOK(t)'
  BY DEF TabOK, FormOK, Known
<1>2. RestoringOK(t)'
  BY DEF TabOK, RestoringOK, Stored
<1>3. ShownOK(t)'
  BY DEF TabOK, ShownOK, Stored
<1>. QED
  BY <1>1, <1>2, <1>3 DEF TabOK

LEMMA FormMoves ==
  ASSUME NEW f \in Forms
  PROVE  /\ [f EXCEPT !.heard = FALSE] \in Forms
         /\ [f EXCEPT !.phase = "accepted"] \in Forms
         /\ [f EXCEPT !.phase = "refused"] \in Forms
         /\ f.kind = "register" => [f EXCEPT !.phase = "hashed"] \in Forms
<1>1. CASE f \in [kind : {"login"}, user : Authors, role : {NULL},
                  phase : {"sent", "accepted", "refused"}, heard : BOOLEAN]
  BY <1>1 DEF Forms
<1>2. CASE f \in [kind : {"register"}, user : Authors, role : Roles,
                  phase : {"sent", "hashed", "accepted", "refused"}, heard : BOOLEAN]
  BY <1>2 DEF Forms
<1>. QED
  BY <1>1, <1>2 DEF Forms

(* An action of a tab touches that tab.                                    *)
LEMMA OneTabMoves ==
  ASSUME SessionsOK, NEW t \in Clients, Session(t)
  PROVE  /\ tab' = [tab EXCEPT ![t] = tab'[t]]
         /\ DOMAIN restoring' = Clients /\ DOMAIN form' = Clients
         /\ \A u \in Clients \ {t} : restoring'[u] = restoring[u] /\ form'[u] = form[u]
<1>1. DOMAIN tab = Clients /\ DOMAIN restoring = Clients /\ DOMAIN form = Clients
  BY DEF SessionsOK
<1>2. tab' = [tab EXCEPT ![t] = tab'[t]]
  <2>1. CASE UNCHANGED tab
    BY <2>1 DEF SessionsOK
  <2>2. CASE Reload(t) \/ Restore(t) \/ Adopt(t) \/ Logout(t)
    BY <1>1, <2>2 DEF Reload, Restore, Adopt, Logout
  <2>. QED
    BY <2>1, <2>2 DEF Session, AnswerMe, SendLogin, SendRegistration, Login, CheckUsername,
       Register, FailForm
<1>3. /\ DOMAIN restoring' = Clients
      /\ \A u \in Clients \ {t} : restoring'[u] = restoring[u]
  <2>1. CASE UNCHANGED restoring
    BY <1>1, <2>1
  <2>2. CASE Reload(t) \/ AnswerMe(t) \/ Restore(t)
    BY <1>1, <2>2 DEF Reload, AnswerMe, Restore
  <2>. QED
    BY <2>1, <2>2 DEF Session, SendLogin, SendRegistration, Login, CheckUsername, Register,
       FailForm, Adopt, Logout
<1>4. /\ DOMAIN form' = Clients
      /\ \A u \in Clients \ {t} : form'[u] = form[u]
  <2>1. CASE UNCHANGED form
    BY <1>1, <2>1
  <2>2. CASE Reload(t) \/ Adopt(t) \/ SendLogin(t) \/ SendRegistration(t)
    BY <1>1, <2>2 DEF Reload, Adopt, SendLogin, SendRegistration
  <2>3. CASE Login(t) \/ CheckUsername(t) \/ Register(t) \/ FailForm(t)
    BY <1>1, <2>3 DEF Login, CheckUsername, Register, FailForm, Answered
  <2>. QED
    BY <2>1, <2>2, <2>3 DEF Session, AnswerMe, Restore, Logout
<1>. QED
  BY <1>2, <1>3, <1>4

(* The tab that acts: the page is loaded again, or its session restored.   *)
LEMMA RestoringStep ==
  ASSUME ApiInv, NEW t \in Clients, accounts \subseteq accounts',
         Reload(t) \/ AnswerMe(t) \/ Restore(t)
  PROVE  TabOK(t)'
<1>0. /\ TabOK(t) /\ tab[t] \in Tabs /\ accounts' = accounts /\ AccountsOK
      /\ DOMAIN tab = Clients /\ DOMAIN restoring = Clients /\ DOMAIN form = Clients
  BY DEF ApiInv, SessionsOK, Reload, AnswerMe, Restore, authVars
<1>1. CASE Reload(t)
  <2>1. /\ tab'[t].token = tab[t].token /\ tab'[t] \in Tabs
        /\ tab'[t].status = IF tab[t].token = NULL THEN "anonymous" ELSE "pending"
    BY <1>0, <1>1 DEF Reload, Anonymous, Tabs
  <2>2. \/ form'[t] = NULL
        \/ form[t] # NULL /\ form'[t] = [form[t] EXCEPT !.heard = FALSE]
    BY <1>0, <1>1 DEF Reload
  <2>3. FormOK(t)' /\ (form'[t] # NULL => ~form'[t].heard)
    <3>1. CASE form'[t] = NULL
      BY <3>1 DEF FormOK
    <3>2. CASE form[t] # NULL /\ form'[t] = [form[t] EXCEPT !.heard = FALSE]
      <4>1. form[t] \in Forms /\ form'[t] \in Forms
        BY <1>0, <3>2, FormMoves DEF TabOK, FormOK
      <4>2. /\ form'[t].kind = form[t].kind /\ form'[t].user = form[t].user
            /\ form'[t].role = form[t].role /\ form'[t].phase = form[t].phase
            /\ form'[t].heard = FALSE
        BY <3>2, <4>1 DEF Forms
      <4>. QED
        BY <1>0, <3>2, <4>1, <4>2 DEF TabOK, FormOK, Known
    <3>. QED
      BY <2>2, <3>1, <3>2
  <2>4. RestoringOK(t)'
    <3>1. CASE tab[t].token = NULL
      <4>1. restoring'[t] = NULL
        BY <1>0, <1>1, <3>1 DEF Reload
      <4>. QED
        BY <4>1 DEF RestoringOK
    <3>2. CASE tab[t].token # NULL
      <4>1. restoring'[t] = [token |-> tab[t].token, reply |-> NULL]
        BY <1>0, <1>1, <3>2 DEF Reload
      <4>2. tab[t].token \in Authors
        BY <1>0, <3>2 DEF Tabs
      <4>. QED
        BY <2>1, <2>3, <3>2, <4>1, <4>2 DEF RestoringOK
    <3>. QED
      BY <3>1, <3>2
  <2>5. ShownOK(t)'
    BY <2>1 DEF ShownOK
  <2>. QED
    BY <2>1, <2>3, <2>4, <2>5 DEF TabOK
<1>2. CASE AnswerMe(t)
  <2>1. tab' = tab /\ form' = form /\ restoring[t] # NULL
    BY <1>2 DEF AnswerMe
  <2>2. FormOK(t)' /\ ShownOK(t)' /\ tab'[t] \in Tabs
    BY <1>0, <2>1 DEF TabOK, FormOK, ShownOK, Known, Stored
  <2>. DEFINE reply == restoring'[t].reply
  <2>3. /\ DOMAIN restoring'[t] = {"token", "reply"}
        /\ restoring'[t].token = restoring[t].token
        /\ \/ reply.status \in {0, 401}
           \/ /\ Known(restoring[t].token)
              /\ reply.user = restoring[t].token /\ reply.role = RoleOf(restoring[t].token)
    BY <1>0, <1>2 DEF AnswerMe, TabOK, RestoringOK, Verified
  <2>4. reply.status = 200 =>
          reply.user = restoring[t].token /\ Stored(restoring[t].token, reply.role)
    BY <1>0, <2>3, KnownIsStored
  <2>5. RestoringOK(t)'
    BY <1>0, <2>1, <2>3, <2>4 DEF TabOK, RestoringOK, Stored
  <2>. QED
    BY <2>2, <2>5 DEF TabOK
<1>3. CASE Restore(t)
  <2>1. /\ form' = form /\ restoring'[t] = NULL
        /\ restoring[t] # NULL /\ restoring[t].reply # NULL
    BY <1>0, <1>3 DEF Restore
  <2>2. FormOK(t)' /\ RestoringOK(t)'
    BY <1>0, <2>1 DEF TabOK, FormOK, RestoringOK, Known
  <2>3. CASE restoring[t].reply.status = 200
    <3>1. tab'[t] = [tab[t] EXCEPT !.status = "authenticated",
                       !.user = [user |-> restoring[t].reply.user,
                                 role |-> restoring[t].reply.role]]
      BY <1>0, <1>3, <2>3 DEF Restore
    <3>2. /\ restoring[t].reply.user = tab[t].token
          /\ Stored(restoring[t].reply.user, restoring[t].reply.role)
          /\ restoring[t].reply.user \in Authors
      BY <1>0, <2>1, <2>3 DEF TabOK, RestoringOK
    <3>3. restoring[t].reply.role \in Roles
      BY <1>0, <3>2 DEF Stored, AccountsOK, Accounts
    <3>4. /\ tab'[t] \in Tabs /\ tab'[t].token = tab[t].token
          /\ tab'[t].user = [user |-> restoring[t].reply.user,
                             role |-> restoring[t].reply.role]
      <4>. DEFINE user == [user |-> restoring[t].reply.user, role |-> restoring[t].reply.role]
      <4>0. tab[t] \in Tabs
        BY <1>0
      <4>1. user \in [user : Authors, role : Roles]
        BY <3>2, <3>3
      <4>. HIDE DEF user
      <4>2. tab'[t] = [tab[t] EXCEPT !.status = "authenticated", !.user = user]
        BY <3>1 DEF user
      <4>3. tab'[t] \in Tabs /\ tab'[t].token = tab[t].token /\ tab'[t].user = user
        BY ONLY <4>0, <4>1, <4>2 DEF Tabs
      <4>. QED
        BY <4>3 DEF user
    <3>5. ShownOK(t)'
      BY <1>0, <3>2, <3>4 DEF ShownOK, Stored
    <3>. QED
      BY <2>2, <3>4, <3>5 DEF TabOK
  <2>4. CASE restoring[t].reply.status # 200
    <3>. DEFINE token == IF restoring[t].reply.status = 401 THEN NULL ELSE tab[t].token
    <3>1. tab'[t] = [tab[t] EXCEPT !.status = "anonymous", !.user = NULL, !.token = token]
      <4>1. tab' = [tab EXCEPT ![t] = [tab[t] EXCEPT !.status = "anonymous", !.user = NULL,
                      !.token = IF restoring[t].reply.status = 401 THEN NULL
                                ELSE tab[t].token]]
        BY <1>3, <2>4 DEF Restore
      <4>2. t \in DOMAIN tab
        BY <1>0
      <4>. QED
        BY ONLY <4>1, <4>2 DEF token
    <3>2. tab'[t] \in Tabs /\ tab'[t].status = "anonymous"
      <4>0. tab[t] \in Tabs
        BY <1>0
      <4>1. token \in Authors \cup {NULL}
        BY <4>0 DEF Tabs
      <4>. HIDE DEF token
      <4>. QED
        BY ONLY <3>1, <4>0, <4>1 DEF Tabs
    <3>3. ShownOK(t)'
      BY <3>2 DEF ShownOK
    <3>. QED
      BY <2>2, <3>2, <3>3 DEF TabOK
  <2>. QED
    BY <2>3, <2>4
<1>. QED
  BY <1>1, <1>2, <1>3

(* A form is sent.                                                         *)
LEMMA SendStep ==
  ASSUME ApiInv, NEW t \in Clients, SendLogin(t) \/ SendRegistration(t)
  PROVE  TabOK(t)'
<1>0. /\ TabOK(t) /\ tab[t] \in Tabs /\ DOMAIN form = Clients
      /\ tab' = tab /\ restoring' = restoring /\ accounts' = accounts
  BY DEF ApiInv, SessionsOK, SendLogin, SendRegistration, authVars
<1>1. PICK kind \in {"login", "register"}, user \in Authors, role \in Roles \cup {NULL} :
        /\ form'[t] = [kind |-> kind, user |-> user, role |-> role, phase |-> "sent",
                       heard |-> TRUE]
        /\ kind = "login" => role = NULL /\ tab[t].status = "anonymous"
        /\ kind = "register" => role \in Roles
  <2>1. CASE SendLogin(t)
    <3>1. PICK user \in Authors : form' = [form EXCEPT ![t] = NewForm("login", user, NULL, "sent")]
      BY <2>1 DEF SendLogin
    <3>2. form'[t] = NewForm("login", user, NULL, "sent")
      BY <1>0, <3>1
    <3>3. tab[t].status = "anonymous"
      BY <2>1 DEF SendLogin, CanSignIn
    <3>. QED
      BY <3>2, <3>3 DEF NewForm
  <2>2. CASE SendRegistration(t)
    <3>1. PICK user \in Authors, role \in Roles :
            form' = [form EXCEPT ![t] = NewForm("register", user, role, "sent")]
      BY <2>2 DEF SendRegistration
    <3>2. form'[t] = NewForm("register", user, role, "sent")
      BY <1>0, <3>1
    <3>. QED
      BY <3>2 DEF NewForm
  <2>. QED
    BY <2>1, <2>2
<1>2. form'[t] \in Forms /\ form'[t].phase = "sent" /\ form'[t].kind = kind
  BY <1>1 DEF Forms
<1>3. FormOK(t)'
  BY <1>2 DEF FormOK
<1>4. RestoringOK(t)'
  BY <1>0, <1>1, <1>2 DEF TabOK, RestoringOK, Stored
<1>5. ShownOK(t)'
  BY <1>0 DEF TabOK, ShownOK, Stored
<1>. QED
  BY <1>0, <1>3, <1>4, <1>5 DEF TabOK

(* The server works on it.                                                 *)
LEMMA AnswerStep ==
  ASSUME ApiInv, NEW t \in Clients, accounts \subseteq accounts',
         Login(t) \/ CheckUsername(t) \/ Register(t) \/ FailForm(t)
  PROVE  TabOK(t)'
<1>0. /\ TabOK(t) /\ tab[t] \in Tabs /\ DOMAIN form = Clients
      /\ tab' = tab /\ restoring' = restoring /\ form[t] # NULL /\ form[t] \in Forms
  BY DEF ApiInv, SessionsOK, TabOK, FormOK, Login, CheckUsername, Register, FailForm
<1>1. PICK phase \in {"accepted", "refused", "hashed"} :
        /\ form'[t] = [form[t] EXCEPT !.phase = phase]
        /\ phase = "hashed" => form[t].kind = "register"
        /\ phase = "accepted" =>
             \/ form[t].kind = "login" /\ Known(form[t].user)
             \/ /\ form[t].kind = "register"
                /\ [user |-> form[t].user, role |-> form[t].role, by |-> t] \in accounts'
  <2>1. CASE Login(t)
    <3>1. PICK password \in Passwords(form[t].user) :
            IF password = "right" THEN Answered(t, "accepted") ELSE Answered(t, "refused")
      BY <2>1 DEF Login
    <3>2. password = "right" => Known(form[t].user)
      BY <3>1 DEF Passwords
    <3>3. form[t].kind = "login"
      BY <2>1 DEF Login
    <3>. QED
      BY <1>0, <3>1, <3>2, <3>3 DEF Answered
  <2>2. CASE CheckUsername(t)
    BY <1>0, <2>2 DEF CheckUsername, Answered
  <2>3. CASE Register(t)
    <3>1. form[t].kind = "register" /\ InsertAccount(form[t], t)
      BY <2>3 DEF Register
    <3>2. CASE Known(form[t].user)
      BY <1>0, <2>3, <3>2 DEF Register, Answered
    <3>3. CASE ~Known(form[t].user)
      <4>1. [user |-> form[t].user, role |-> form[t].role, by |-> t] \in accounts'
        BY <3>1, <3>3 DEF InsertAccount
      <4>2. form'[t] = [form[t] EXCEPT !.phase = "accepted"]
        BY <1>0, <2>3, <3>3 DEF Register, Answered
      <4>. QED
        BY <3>1, <4>1, <4>2
    <3>. QED
      BY <3>2, <3>3
  <2>4. CASE FailForm(t)
    BY <1>0, <2>4 DEF FailForm, Answered
  <2>. QED
    BY <2>1, <2>2, <2>3, <2>4
<1>2. /\ form'[t].kind = form[t].kind /\ form'[t].user = form[t].user
      /\ form'[t].role = form[t].role /\ form'[t].heard = form[t].heard
      /\ form'[t].phase = phase
  BY <1>0, <1>1 DEF Forms
<1>3. form'[t] \in Forms
  BY <1>0, <1>1, FormMoves
<1>4. FormOK(t)'
  BY <1>0, <1>1, <1>2, <1>3 DEF FormOK, Known, Forms
<1>5. RestoringOK(t)'
  BY <1>0, <1>2 DEF TabOK, RestoringOK, Stored
<1>6. ShownOK(t)'
  BY <1>0 DEF TabOK, ShownOK, Stored
<1>. QED
  BY <1>0, <1>4, <1>5, <1>6 DEF TabOK

(* The answer arrives, or the user signs out.                              *)
LEMMA FinishStep ==
  ASSUME ApiInv, NEW t \in Clients, Adopt(t) \/ Logout(t)
  PROVE  TabOK(t)'
<1>0. /\ TabOK(t) /\ tab[t] \in Tabs /\ AccountsOK
      /\ DOMAIN form = Clients /\ DOMAIN tab = Clients
      /\ restoring' = restoring /\ accounts' = accounts
  BY DEF ApiInv, SessionsOK, Adopt, Logout, authVars
<1>1. CASE Logout(t)
  <2>1. form' = form /\ tab'[t] = Anonymous /\ restoring[t] = NULL
    BY <1>0, <1>1 DEF Logout, TabOK, RestoringOK
  <2>2. Anonymous \in Tabs /\ Anonymous.status = "anonymous"
    BY DEF Anonymous, Tabs
  <2>3. FormOK(t)'
    BY <1>0, <2>1 DEF TabOK, FormOK, Known
  <2>4. RestoringOK(t)' /\ ShownOK(t)'
    BY <1>0, <2>1, <2>2 DEF RestoringOK, ShownOK
  <2>. QED
    BY <2>1, <2>2, <2>3, <2>4 DEF TabOK
<1>2. CASE Adopt(t)
  <2>1. form[t] # NULL /\ form'[t] = NULL
    BY <1>0, <1>2 DEF Adopt
  <2>2. FormOK(t)'
    BY <2>1 DEF FormOK
  <2>3. CASE form[t].heard /\ form[t].kind = "login" /\ form[t].phase = "accepted"
    <3>1. tab'[t] = [status |-> "authenticated", user |-> PublicUser(form[t].user),
                     token |-> form[t].user]
      BY <1>0, <1>2, <2>3 DEF Adopt
    <3>2. Known(form[t].user)
      BY <1>0, <2>1, <2>3 DEF TabOK, FormOK
    <3>3. /\ form[t].user \in Authors /\ RoleOf(form[t].user) \in Roles
          /\ Stored(form[t].user, RoleOf(form[t].user))
      BY <1>0, <3>2, KnownIsStored
    <3>4. /\ PublicUser(form[t].user) \in [user : Authors, role : Roles]
          /\ PublicUser(form[t].user).user = form[t].user
          /\ PublicUser(form[t].user).role = RoleOf(form[t].user)
      BY <3>3 DEF PublicUser
    <3>5. tab'[t] \in Tabs
      BY <3>1, <3>3, <3>4 DEF Tabs
    <3>6. restoring'[t] = NULL
      BY <1>0, <2>1, <2>3 DEF TabOK, RestoringOK
    <3>7. RestoringOK(t)' /\ ShownOK(t)'
      BY <1>0, <3>1, <3>3, <3>4, <3>6 DEF RestoringOK, ShownOK, Stored
    <3>. QED
      BY <2>2, <3>5, <3>7 DEF TabOK
  <2>4. CASE ~(form[t].heard /\ form[t].kind = "login" /\ form[t].phase = "accepted")
    <3>1. tab'[t] = tab[t]
      BY <1>0, <1>2, <2>4 DEF Adopt
    <3>2. RestoringOK(t)' /\ ShownOK(t)'
      BY <1>0, <2>1, <3>1 DEF TabOK, RestoringOK, ShownOK, Stored
    <3>. QED
      BY <1>0, <2>2, <3>1, <3>2 DEF TabOK
  <2>. QED
    BY <2>3, <2>4
<1>. QED
  BY <1>1, <1>2

LEMMA SessionsStep ==
  ASSUME ApiInv, [Next]_apiVars
  PROVE  SessionsOK'
<1>0. SessionsOK /\ accounts \subseteq accounts'
  BY AccountsStep DEF ApiInv
<1>1. CASE UNCHANGED <<tab, restoring, form>>
  <2>1. \A t \in Clients : TabOK(t)'
    BY <1>0, <1>1, RestingTab DEF SessionsOK
  <2>. QED
    BY <1>0, <1>1, <2>1 DEF SessionsOK
<1>2. ASSUME NEW t \in Clients, Session(t)
      PROVE  SessionsOK'
  <2>1. TabOK(t)'
    BY <1>0, <1>2, RestoringStep, SendStep, AnswerStep, FinishStep DEF Session
  <2>2. \A u \in Clients \ {t} : tab'[u] = tab[u]
    BY <1>0, <1>2, OneTabMoves DEF SessionsOK
  <2>3. ASSUME NEW u \in Clients \ {t}
        PROVE  TabOK(u)'
    BY <1>0, <1>2, <2>2, RestingTab, OneTabMoves DEF SessionsOK
  <2>4. tab' \in [Clients -> Tabs]
    <3>1. tab'[t] \in Tabs /\ tab' = [tab EXCEPT ![t] = tab'[t]]
      BY <1>0, <1>2, <2>1, OneTabMoves DEF TabOK
    <3>. QED
      BY <1>0, <3>1 DEF SessionsOK
  <2>5. DOMAIN restoring' = Clients /\ DOMAIN form' = Clients
    BY <1>0, <1>2, OneTabMoves
  <2>. QED
    BY <2>1, <2>3, <2>4, <2>5 DEF SessionsOK
<1>3. ASSUME NEW i \in Instances, Process(i)
      PROVE  UNCHANGED <<tab, restoring, form>>
  BY <1>3 DEF Process, Start, Synchronise, BeginSeeding, LookForDemo, InsertDemo, FailSeeding,
     Listen, Exit, Boot, tabVars
<1>4. ASSUME NEW t \in Clients, SendCreation(t) \/ Create(t)
      PROVE  UNCHANGED <<tab, restoring, form>>
  BY <1>4 DEF SendCreation, Create, tabVars
<1>5. ASSUME NEW token \in valid, Expire(token)
      PROVE  UNCHANGED <<tab, restoring, form>>
  BY <1>5 DEF Expire, tabVars
<1>6. CASE UNCHANGED apiVars
  BY <1>1, <1>6 DEF apiVars
<1>. QED
  BY <1>1, <1>2, <1>3, <1>4, <1>5, <1>6 DEF Next

-----------------------------------------------------------------------------
(* The theorems.                                                           *)

LEMMA ApiInvInit ==
  ASSUME Init
  PROVE  ApiInv
<1>1. AllocatorInv /\ IdleIsFresh
  BY AllocatorInvInit DEF Init, AllocatorInit, IdleIsFresh
<1>2. AccountsOK
  <2>1. ASSUME NEW a \in accounts, NEW b \in accounts
        PROVE  a \in Accounts /\ (a.user = b.user => a = b)
    <3>1. PICK r \in Registered : a = [user |-> r.user, role |-> r.role, by |-> NULL]
      BY DEF Init
    <3>2. PICK q \in Registered : b = [user |-> q.user, role |-> q.role, by |-> NULL]
      BY DEF Init
    <3>3. r \in [user : Authors, role : Roles] /\ (r.user = q.user => r = q)
      BY ApiAssumption
    <3>. QED
      BY <3>1, <3>2, <3>3 DEF Accounts
  <2>. QED
    BY <2>1 DEF AccountsOK
<1>3. BootOK
  BY DEF Init, BootOK, Off
<1>4. CreationsByOperators
  BY DEF Init, AllocatorInit, NoCreation, Restored, CreationsByOperators
<1>5. SessionsOK
  BY DEF Init, Anonymous, SessionsOK, Tabs, TabOK, FormOK, RestoringOK, ShownOK
<1>. QED
  BY <1>1, <1>2, <1>3, <1>4, <1>5 DEF ApiInv

(* The inductive invariant of the server and its callers.                  *)
THEOREM ApiInvariance == Spec => []ApiInv
<1>1. Init => ApiInv
  BY ApiInvInit
<1>2. ApiInv /\ [Next]_apiVars => ApiInv'
  <2>. SUFFICES ASSUME ApiInv, [Next]_apiVars
                PROVE  ApiInv'
    OBVIOUS
  <2>1. AllocatorInv' /\ IdleIsFresh'
    BY ServerTakesAllocatorSteps, AllocatorInvNext, IdleStaysFresh DEF ApiInv
  <2>2. AccountsOK' /\ BootOK' /\ CreationsByOperators' /\ SessionsOK'
    BY AccountsStep, BootStep, CreationsStep, SessionsStep
  <2>. QED
    BY <2>1, <2>2 DEF ApiInv
<1>. QED
  BY <1>1, <1>2, PTL DEF Spec

(* Behind logins, restarts and failures the server is an allocator of      *)
(* identifiers: every behaviour of the one is a behaviour of the other.    *)
THEOREM ServerIsAllocator == Spec => AllocatorSpec
<1>1. Init => AllocatorInit
  BY DEF Init
<1>2. ApiInv /\ [Next]_apiVars => [AllocatorNext]_allocatorVars
  BY ServerTakesAllocatorSteps
<1>. QED
  BY <1>1, <1>2, ApiInvariance, PTL DEF Spec, AllocatorSpec

(* A name has one account, and who is told "created" has it.               *)
THEOREM AccountsAreUnique == Spec => []OneAccount
<1>1. ApiInv => OneAccount
  BY DEF ApiInv, AccountsOK, SessionsOK, TabOK, FormOK, OneAccount
<1>. QED
  BY <1>1, ApiInvariance, PTL

(* A tab shows the account whose token it sends, and the role stored.      *)
THEOREM TabsShowTheirAccount == Spec => []IdentityShown
<1>1. ApiInv => IdentityShown
  <2>. SUFFICES ASSUME ApiInv, NEW t \in Clients, tab[t].status = "authenticated"
                PROVE  /\ tab[t].token = tab[t].user.user
                       /\ Known(tab[t].token) /\ RoleOf(tab[t].token) = tab[t].user.role
    BY DEF IdentityShown
  <2>1. tab[t].token = tab[t].user.user /\ Stored(tab[t].token, tab[t].user.role)
    BY DEF ApiInv, SessionsOK, TabOK, ShownOK
  <2>. QED
    BY <2>1, StoredIsKnown DEF ApiInv
<1>. QED
  BY <1>1, ApiInvariance, PTL

(* What is created through the interface is created by operators.          *)
THEOREM CreatorsAreOperators == Spec => []WritesAreByOperators
<1>1. ApiInv => WritesAreByOperators
  BY StoredIsKnown DEF ApiInv, CreationsByOperators, WritesAreByOperators
<1>. QED
  BY <1>1, ApiInvariance, PTL

(* Identifiers are allocated once, whatever starts and fails around them.  *)
THEOREM ServerAllocatesOnce == Spec => []ConflictIsSupplied
BY ServerIsAllocator, AllocatedOnce, PTL
=============================================================================
