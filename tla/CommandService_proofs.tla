----------------------- MODULE CommandService_proofs ------------------------
(***************************************************************************)
(* What the concurrent write path guarantees for any number of requests,   *)
(* shipments and commands, and any query limit.                            *)
(*                                                                         *)
(* The argument: once the append's pre-check has passed, the version the   *)
(* request will write is one more than a version that was current, and     *)
(* streams only grow, so it is at most one more than the current version   *)
(* at the insert; the unique index leaves exactly that one.  So far it does*)
(* not matter what a command decides.  In the second part a request that   *)
(* holds an event decided it on a prefix of the stream it will append to,  *)
(* and on all of it when the insert succeeds: the streams are a ledger     *)
(* (ServiceIsLedger), and what is proved of the ledger holds of them.      *)
(***************************************************************************)
EXTENDS CommandService, FiniteSetTheorems, WellFoundedInduction, TLAPS

CONSTANT Aggregate   \* any one shipment

Fields == {"phase", "agg", "claimed", "base", "event", "prev", "seq", "told"}

(* Phases in which the event's version has passed the pre-check.           *)
Numbered == {"linking", "sequencing", "inserting", "inserted", "rejected"}

(* Phases of a request that has written, or may have.                      *)
MayHaveWritten == {"inserted", "accepted", "failed"}

LinksTo(prev, a, version) ==
  IF version = 0 THEN prev = NULL
  ELSE \E e \in DocsOf(a) : e.event.version = version /\ e.by = prev

DocumentOK(d) ==
  /\ d.agg \in Aggregates /\ d.by \in Requests
  /\ d.seq \in Nat /\ 1 <= d.seq /\ d.seq <= counter

StoreOK ==
  /\ counter \in Nat
  /\ \A a \in Aggregates : CurrentVersion(a) \in Nat
  /\ \A d \in store : DocumentOK(d)
  /\ \A d, e \in store : d.by = e.by => d = e

TaskOK(r) ==
  /\ DOMAIN task[r] = Fields
  /\ task[r].phase \in Numbered \cup {"appending"} =>
       task[r].agg \in Aggregates /\ task[r].claimed = task[r].base
  /\ task[r].phase \in Numbered =>
       /\ task[r].base \in Nat
       /\ task[r].base <= CurrentVersion(task[r].agg)
       /\ task[r].event.version = task[r].base + 1
  /\ task[r].phase \in {"sequencing", "inserting"} =>
       LinksTo(task[r].prev, task[r].agg, task[r].base)
  /\ task[r].phase = "inserting" =>
       /\ task[r].seq \in Nat /\ 1 <= task[r].seq /\ task[r].seq <= counter
       /\ \A d \in DocsOf(task[r].agg) :
            d.event.version <= task[r].base => d.seq < task[r].seq
  /\ task[r].phase \in {"inserted", "accepted"} => Written(r)
  /\ \A d \in store : d.by = r =>
       /\ task[r].phase \in MayHaveWritten
       /\ d.agg = task[r].agg /\ task[r].claimed = task[r].base
       /\ d.event.version = task[r].base + 1

(* The inductive invariant.  Gapless, ChainLinked and                      *)
(* SequenceFollowsVersion speak of the store alone; TaskOK says what each  *)
(* request in flight knows of the store, and still knows after others have *)
(* moved.                                                                  *)
Inv ==
  /\ DOMAIN task = Requests
  /\ StoreOK /\ Gapless /\ ChainLinked /\ SequenceFollowsVersion
  /\ \A r \in Requests : TaskOK(r)

-----------------------------------------------------------------------------
(* The newest of the versions 1, ..., n is n.                              *)
LEMMA MaxOfInterval ==
  ASSUME NEW n \in Nat, n # 0
  PROVE  Max(1 .. n) = n
<1>1. n \in 1 .. n /\ \A y \in 1 .. n : n >= y
  OBVIOUS
<1>2. \A x \in 1 .. n : (\A y \in 1 .. n : x >= y) => x = n
  OBVIOUS
<1>. QED
  BY <1>1, <1>2 DEF Max

(* The invariant holds initially.                                          *)
LEMMA InvInit ==
  ASSUME Init
  PROVE  Inv
<1>1. DOMAIN task = Requests /\ \A r \in Requests : task[r] = IdleTask
  BY DEF Init
<1>2. store = {} /\ counter = 0
  BY DEF Init
<1>3. \A a : VersionsOf(a) = {} /\ CurrentVersion(a) = 0
  BY <1>2 DEF DocsOf, VersionsOf, CurrentVersion
<1>4. StoreOK /\ ChainLinked /\ SequenceFollowsVersion
  BY <1>2, <1>3 DEF StoreOK, ChainLinked, SequenceFollowsVersion
<1>5. Gapless
  <2>1. \A a : DocsOf(a) = {}
    BY <1>2 DEF DocsOf
  <2>2. 1 .. 0 = {}
    OBVIOUS
  <2>. QED
    BY <1>3, <2>1, <2>2 DEF Gapless
<1>6. \A r \in Requests : TaskOK(r)
  BY <1>1, <1>2 DEF TaskOK, IdleTask, Fields, Numbered
<1>. QED
  BY <1>1, <1>4, <1>5, <1>6 DEF Inv

(* A step that leaves the store alone and moves one request preserves the  *)
(* invariant when what that request knows is still so.                     *)
LEMMA OneTaskMoves ==
  ASSUME Inv, NEW r \in Requests,
         store' = store, counter' = counter,
         DOMAIN task' = Requests,
         \A q \in Requests \ {r} : task'[q] = task[q],
         TaskOK(r)'
  PROVE  Inv'
<1>1. \A a : /\ DocsOf(a)' = DocsOf(a) /\ VersionsOf(a)' = VersionsOf(a)
             /\ CurrentVersion(a)' = CurrentVersion(a)
  BY DEF DocsOf, VersionsOf, CurrentVersion
<1>2. StoreOK' /\ Gapless' /\ ChainLinked' /\ SequenceFollowsVersion'
  BY <1>1 DEF Inv, StoreOK, Gapless, ChainLinked, SequenceFollowsVersion, DocumentOK
<1>3. \A q \in Requests \ {r} : TaskOK(q)'
  <2>. SUFFICES ASSUME NEW q \in Requests \ {r} PROVE TaskOK(q)'
    OBVIOUS
  <2>1. TaskOK(q) /\ task'[q] = task[q]
    BY DEF Inv
  <2>. QED
    BY <2>1, <1>1 DEF TaskOK, LinksTo, Written
<1>. QED
  BY <1>2, <1>3 DEF Inv

(* What EXCEPT leaves of a task: the fields, and each other task.          *)
LEMMA TaskFields ==
  ASSUME Inv, NEW r \in Requests
  PROVE  DOMAIN task = Requests /\ DOMAIN task[r] = Fields /\ TaskOK(r)
BY DEF Inv, TaskOK

(* Whatever the verdict, a request that has just run its checks has        *)
(* written nothing, and goes on only if its claim was the loaded version.  *)
LEMMA ExecutePreserves ==
  ASSUME Inv, NEW r \in Requests, Execute(r)
  PROVE  Inv'
<1>1. PICK a \in Aggregates, c \in Commands : \E claimed \in Claims(c), at \in Times :
        \E event \in IF Verdict(GetEvents(a), c, claimed, at) = "appending"
                      THEN Decide(Replay(GetEvents(a)), c, at) ELSE {NULL} :
          task' = [task EXCEPT ![r] =
            [IdleTask EXCEPT !.phase = Verdict(GetEvents(a), c, claimed, at),
                             !.agg = a, !.claimed = claimed,
                             !.base = Replay(GetEvents(a)).version, !.event = event]]
  BY Zenon DEF Execute
<1>. DEFINE events == GetEvents(a)
            base == Replay(events).version
<1>2. PICK claimed \in Claims(c), at \in Times : \E event :
        task' = [task EXCEPT ![r] =
            [IdleTask EXCEPT !.phase = Verdict(events, c, claimed, at), !.agg = a,
                             !.claimed = claimed, !.base = base, !.event = event]]
  BY <1>1, Zenon
<1>. DEFINE phase == Verdict(events, c, claimed, at)
<1>3. /\ phase \in {"failed", "notFound", "conflict", "refused", "appending"}
      /\ phase = "appending" => claimed = base
  BY DEF Verdict, ClaimHolds
<1>. HIDE DEF base, phase
<1>4. /\ task'[r].phase = phase /\ task'[r].agg = a /\ task'[r].claimed = claimed
      /\ task'[r].base = base /\ DOMAIN task'[r] = Fields
      /\ DOMAIN task' = Requests /\ \A q \in Requests \ {r} : task'[q] = task[q]
  BY <1>2, TaskFields DEF IdleTask, Fields, phase, base
<1>5. store' = store /\ counter' = counter /\ task[r].phase = "idle"
  BY DEF Execute
<1>6. \A d \in store : d.by # r
  BY <1>5, TaskFields DEF TaskOK, MayHaveWritten
<1>7. TaskOK(r)'
  BY <1>4, <1>5, <1>6, <1>3 DEF TaskOK, Numbered, MayHaveWritten
<1>. QED
  BY <1>4, <1>5, <1>7, OneTaskMoves

(* Ending a request that cannot have written, or with "failed".            *)
LEMMA FinishPreserves ==
  ASSUME Inv, NEW r \in Requests, NEW outcome, NEW told, Finish(r, outcome, told),
         store' = store, counter' = counter,
         \/ outcome = "conflict" /\ \A d \in store : d.by # r
         \/ outcome = "failed"
         \/ outcome = "accepted" /\ Written(r)
  PROVE  Inv'
<1>1. /\ task'[r].phase = outcome /\ task'[r].agg = task[r].agg
      /\ task'[r].claimed = task[r].claimed /\ task'[r].base = task[r].base
      /\ DOMAIN task'[r] = Fields
      /\ DOMAIN task' = Requests /\ \A q \in Requests \ {r} : task'[q] = task[q]
  BY TaskFields DEF Finish, Fields
<1>2. TaskOK(r)'
  BY <1>1, TaskFields DEF TaskOK, Numbered, MayHaveWritten, Written
<1>. QED
  BY <1>1, <1>2, OneTaskMoves

(* The pre-check that passes ties the base to the current version.         *)
LEMMA ReadVersionPreserves ==
  ASSUME Inv, NEW r \in Requests, ReadVersion(r)
  PROVE  Inv'
<1>. DEFINE current == CurrentVersion(task[r].agg)
<1>1. /\ store' = store /\ counter' = counter
      /\ task[r].phase = "appending" /\ \A d \in store : d.by # r
  BY TaskFields DEF ReadVersion, TaskOK, MayHaveWritten
<1>2. CASE task[r].base # current \/ task[r].event.version # current + 1
  BY <1>1, <1>2, FinishPreserves DEF ReadVersion
<1>3. CASE task[r].base = current /\ task[r].event.version = current + 1
  <2>1. task' = [task EXCEPT ![r].phase = "linking"]
    BY <1>3 DEF ReadVersion
  <2>2. /\ task'[r].phase = "linking" /\ task'[r].agg = task[r].agg
        /\ task'[r].claimed = task[r].claimed /\ task'[r].base = task[r].base
        /\ task'[r].event = task[r].event /\ DOMAIN task'[r] = Fields
        /\ DOMAIN task' = Requests /\ \A q \in Requests \ {r} : task'[q] = task[q]
    BY <2>1, TaskFields DEF Fields
  <2>3. current \in Nat /\ task[r].agg \in Aggregates
    BY <1>1, TaskFields DEF Inv, StoreOK, TaskOK
  <2>4. CurrentVersion(task[r].agg)' = current
    BY <1>1, <2>2 DEF CurrentVersion, VersionsOf, DocsOf
  <2>5. TaskOK(r)'
    BY <1>1, <1>3, <2>2, <2>3, <2>4, TaskFields DEF TaskOK, Numbered, MayHaveWritten
  <2>. QED
    BY <1>1, <2>2, <2>5, OneTaskMoves
<1>. QED
  BY <1>2, <1>3

(* The link is to the document at the version just checked, which exists   *)
(* because versions have no gap, and is the only one there.                *)
LEMMA ReadPreviousHashPreserves ==
  ASSUME Inv, NEW r \in Requests, ReadPreviousHash(r)
  PROVE  Inv'
<1>. DEFINE a == task[r].agg
            base == task[r].base
            found == PreviousLink(a, base)
<1>1. /\ store' = store /\ counter' = counter
      /\ task[r].phase = "linking" /\ \A d \in store : d.by # r
  BY TaskFields DEF ReadPreviousHash, TaskOK, MayHaveWritten
<1>2. PICK link \in (IF found = {} THEN {NULL} ELSE found) :
        task' = [task EXCEPT ![r].phase = "sequencing", ![r].prev = link]
  BY DEF ReadPreviousHash
<1>3. /\ task'[r].phase = "sequencing" /\ task'[r].agg = a /\ task'[r].prev = link
      /\ task'[r].claimed = task[r].claimed /\ task'[r].base = base
      /\ task'[r].event = task[r].event /\ DOMAIN task'[r] = Fields
      /\ DOMAIN task' = Requests /\ \A q \in Requests \ {r} : task'[q] = task[q]
  BY <1>2, TaskFields DEF Fields
<1>4. a \in Aggregates /\ base \in Nat /\ base <= CurrentVersion(a)
  BY <1>1, TaskFields DEF TaskOK, Numbered
<1>5. VersionsOf(a) = 1 .. CurrentVersion(a) /\ CurrentVersion(a) \in Nat
  BY <1>4 DEF Inv, StoreOK, Gapless
<1>6. LinksTo(link, a, base)
  <2>1. CASE base = 0
    <3>1. found = {}
      BY <2>1, <1>5 DEF PreviousLink, VersionsOf
    <3>. QED
      BY <2>1, <3>1, <1>2 DEF LinksTo
  <2>2. CASE base # 0
    <3>1. base \in VersionsOf(a)
      BY <2>2, <1>4, <1>5
    <3>2. found # {}
      BY <3>1 DEF PreviousLink, VersionsOf
    <3>. QED
      BY <2>2, <3>2, <1>2 DEF LinksTo, PreviousLink
  <2>. QED
    BY <2>1, <2>2
<1>7. LinksTo(link, a, base)' /\ CurrentVersion(a)' = CurrentVersion(a)
  BY <1>1, <1>3, <1>6 DEF LinksTo, DocsOf, CurrentVersion, VersionsOf
<1>8. TaskOK(r)'
  BY <1>1, <1>3, <1>7, TaskFields DEF TaskOK, Numbered, MayHaveWritten
<1>. QED
  BY <1>1, <1>3, <1>8, OneTaskMoves

(* A sequence is taken after every sequence on record.                     *)
LEMMA TakeSequencePreserves ==
  ASSUME Inv, NEW r \in Requests, TakeSequence(r)
  PROVE  Inv'
<1>1. /\ store' = store /\ counter' = counter + 1 /\ counter \in Nat
      /\ task[r].phase = "sequencing" /\ \A d \in store : d.by # r
  BY TaskFields DEF TakeSequence, TaskOK, MayHaveWritten, Inv, StoreOK
<1>2. task' = [task EXCEPT ![r].phase = "inserting", ![r].seq = counter + 1]
  BY DEF TakeSequence
<1>3. /\ task'[r].phase = "inserting" /\ task'[r].seq = counter + 1
      /\ task'[r].agg = task[r].agg /\ task'[r].prev = task[r].prev
      /\ task'[r].claimed = task[r].claimed /\ task'[r].base = task[r].base
      /\ task'[r].event = task[r].event /\ DOMAIN task'[r] = Fields
      /\ DOMAIN task' = Requests /\ \A q \in Requests \ {r} : task'[q] = task[q]
  BY <1>2, TaskFields DEF Fields
<1>4. \A a : /\ DocsOf(a)' = DocsOf(a) /\ VersionsOf(a)' = VersionsOf(a)
             /\ CurrentVersion(a)' = CurrentVersion(a)
  BY <1>1 DEF DocsOf, VersionsOf, CurrentVersion
<1>5. \A d \in store : d.seq \in Nat /\ d.seq <= counter
  BY DEF Inv, StoreOK, DocumentOK
<1>6. StoreOK'
  BY <1>1, <1>4 DEF Inv, StoreOK, DocumentOK
<1>7. Gapless' /\ ChainLinked' /\ SequenceFollowsVersion'
  BY <1>1, <1>4 DEF Inv, Gapless, ChainLinked, SequenceFollowsVersion
<1>8. TaskOK(r)'
  <2>1. \A d \in DocsOf(task[r].agg) : d.seq < counter + 1
    BY <1>1, <1>5 DEF DocsOf
  <2>2. LinksTo(task[r].prev, task[r].agg, task[r].base)'
    BY <1>1, <1>3, <1>4, TaskFields DEF TaskOK, LinksTo
  <2>. QED
    BY <1>1, <1>3, <1>4, <2>1, <2>2, TaskFields DEF TaskOK, Numbered, MayHaveWritten
<1>9. \A q \in Requests \ {r} : TaskOK(q)'
  <2>. SUFFICES ASSUME NEW q \in Requests \ {r} PROVE TaskOK(q)'
    OBVIOUS
  <2>1. TaskOK(q) /\ task'[q] = task[q]
    BY <1>3 DEF Inv
  <2>. QED
    BY <2>1, <1>1, <1>4 DEF TaskOK, LinksTo, Written
<1>. QED
  BY <1>3, <1>6, <1>7, <1>8, <1>9 DEF Inv

-----------------------------------------------------------------------------
(* The insert.  The unique index admits the document only when its version *)
(* is not there; being at most one more than the newest, it is the next.   *)
LEMMA InsertIsNext ==
  ASSUME Inv, NEW r \in Requests, task[r].phase = "inserting", ~Duplicate(Document(r))
  PROVE  /\ task[r].agg \in Aggregates
         /\ task[r].base = CurrentVersion(task[r].agg)
         /\ task[r].event.version = CurrentVersion(task[r].agg) + 1
<1>. DEFINE a == task[r].agg
            n == CurrentVersion(a)
<1>1. /\ a \in Aggregates /\ task[r].base \in Nat /\ task[r].base <= n
      /\ task[r].event.version = task[r].base + 1
  BY TaskFields DEF TaskOK, Numbered
<1>2. n \in Nat /\ VersionsOf(a) = 1 .. n
  BY <1>1 DEF Inv, StoreOK, Gapless
<1>3. task[r].event.version \notin VersionsOf(a)
  BY DEF Duplicate, Document, VersionsOf, DocsOf
<1>. QED
  BY <1>1, <1>2, <1>3

(* The stream grows by one, the other streams stay.                        *)
LEMMA StreamGrows ==
  ASSUME Inv, NEW r \in Requests, task[r].phase = "inserting",
         ~Duplicate(Document(r)), store' = store \cup {Document(r)},
         NEW a, a = task[r].agg, NEW n, n = CurrentVersion(a)
  PROVE  /\ DocsOf(a)' = DocsOf(a) \cup {Document(r)}
         /\ VersionsOf(a)' = 1 .. n + 1 /\ CurrentVersion(a)' = n + 1
         /\ \A b : b # a => /\ DocsOf(b)' = DocsOf(b)
                            /\ VersionsOf(b)' = VersionsOf(b)
                            /\ CurrentVersion(b)' = CurrentVersion(b)
<1>1. a \in Aggregates /\ task[r].event.version = n + 1
  BY InsertIsNext
<1>2. n \in Nat /\ VersionsOf(a) = 1 .. n
  BY <1>1 DEF Inv, StoreOK, Gapless
<1>3. DocsOf(a)' = DocsOf(a) \cup {Document(r)}
  BY DEF DocsOf, Document
<1>4. VersionsOf(a)' = VersionsOf(a) \cup {n + 1}
  BY <1>1, <1>3 DEF VersionsOf, Document
<1>5. VersionsOf(a)' = 1 .. n + 1
  BY <1>2, <1>4
<1>6. CurrentVersion(a)' = n + 1
  <2>1. n + 1 \in Nat /\ n + 1 # 0 /\ 1 .. n + 1 # {}
    BY <1>2
  <2>. QED
    BY <1>5, <2>1, MaxOfInterval DEF CurrentVersion
<1>7. ASSUME NEW b, b # a
      PROVE  /\ DocsOf(b)' = DocsOf(b) /\ VersionsOf(b)' = VersionsOf(b)
             /\ CurrentVersion(b)' = CurrentVersion(b)
  <2>1. DocsOf(b)' = DocsOf(b)
    BY <1>7 DEF DocsOf, Document
  <2>. QED
    BY <2>1 DEF VersionsOf, CurrentVersion
<1>. QED
  BY <1>3, <1>5, <1>6, <1>7

(* The insert, admitted or rejected, preserves the invariant.              *)
LEMMA InsertPreserves ==
  ASSUME Inv, NEW r \in Requests, Insert(r)
  PROVE  Inv'
<1>a. PICK a : a = task[r].agg
  OBVIOUS
<1>n. PICK n : n = CurrentVersion(a)
  OBVIOUS
<1>d. PICK new : new = Document(r)
  OBVIOUS
<1>1. counter' = counter /\ task[r].phase = "inserting" /\ \A d \in store : d.by # r
  BY TaskFields DEF Insert, TaskOK, MayHaveWritten
<1>2. CASE Duplicate(new)
  <2>1. store' = store /\ task' = [task EXCEPT ![r].phase = "rejected"]
    BY <1>2, <1>d DEF Insert
  <2>2. /\ task'[r].phase = "rejected" /\ task'[r].agg = a
        /\ task'[r].claimed = task[r].claimed /\ task'[r].base = task[r].base
        /\ task'[r].event = task[r].event /\ DOMAIN task'[r] = Fields
        /\ DOMAIN task' = Requests /\ \A q \in Requests \ {r} : task'[q] = task[q]
    BY <1>a, <2>1, TaskFields DEF Fields
  <2>3. CurrentVersion(a)' = CurrentVersion(a)
    BY <2>1 DEF CurrentVersion, VersionsOf, DocsOf
  <2>4. TaskOK(r)'
    BY <1>1, <1>a, <2>1, <2>2, <2>3, TaskFields DEF TaskOK, Numbered, MayHaveWritten
  <2>. QED
    BY <1>1, <2>1, <2>2, <2>4, OneTaskMoves
<1>3. CASE ~Duplicate(new)
  <2>1. store' = store \cup {new} /\ task' = [task EXCEPT ![r].phase = "inserted"]
    BY <1>3, <1>d DEF Insert
  <2>2. /\ task'[r].phase = "inserted" /\ task'[r].agg = a
        /\ task'[r].claimed = task[r].claimed /\ task'[r].base = task[r].base
        /\ task'[r].event = task[r].event /\ DOMAIN task'[r] = Fields
        /\ DOMAIN task' = Requests /\ \A q \in Requests \ {r} : task'[q] = task[q]
    BY <1>a, <2>1, TaskFields DEF Fields
  <2>3. /\ a \in Aggregates /\ task[r].base = n /\ task[r].event.version = n + 1
        /\ n \in Nat /\ VersionsOf(a) = 1 .. n
    BY <1>1, <1>3, <1>a, <1>n, <1>d, InsertIsNext DEF Inv, StoreOK, Gapless
  <2>4. /\ DocsOf(a)' = DocsOf(a) \cup {new}
        /\ VersionsOf(a)' = 1 .. n + 1 /\ CurrentVersion(a)' = n + 1
        /\ \A b : b # a => /\ DocsOf(b)' = DocsOf(b)
                           /\ VersionsOf(b)' = VersionsOf(b)
                           /\ CurrentVersion(b)' = CurrentVersion(b)
    BY <1>1, <1>3, <1>a, <1>n, <1>d, <2>1, StreamGrows
  <2>5. /\ new.agg = a /\ new.by = r /\ new.event.version = n + 1
        /\ new.prev = task[r].prev /\ new.seq = task[r].seq
    BY <2>3, <1>a, <1>d DEF Document
  <2>6. /\ task[r].seq \in Nat /\ 1 <= task[r].seq /\ task[r].seq <= counter
        /\ \A d \in DocsOf(a) : d.event.version <= n => d.seq < task[r].seq
        /\ LinksTo(task[r].prev, a, n) /\ task[r].claimed = n
    BY <1>1, <1>a, <2>3, TaskFields DEF TaskOK, Numbered
  <2>7. \A d \in DocsOf(a) : d.event.version \in Nat /\ d.event.version <= n
    <3>1. \A d \in DocsOf(a) : d.event.version \in VersionsOf(a)
      BY DEF VersionsOf
    <3>. QED
      BY <3>1, <2>3
  <2>8. StoreOK'
    <3>1. \A b \in Aggregates : CurrentVersion(b)' \in Nat
      BY <2>3, <2>4 DEF Inv, StoreOK
    <3>2. \A d \in store' : DocumentOK(d)'
      BY <1>1, <2>1, <2>3, <2>5, <2>6 DEF Inv, StoreOK, DocumentOK
    <3>3. \A d, e \in store' : d.by = e.by => d = e
      BY <1>1, <2>1, <2>5 DEF Inv, StoreOK
    <3>. QED
      BY <1>1, <3>1, <3>2, <3>3 DEF Inv, StoreOK
  <2>9. Gapless'
    <3>1. ASSUME NEW b \in Aggregates, b # a
          PROVE  /\ VersionsOf(b)' = 1 .. CurrentVersion(b)'
                 /\ \A d, e \in DocsOf(b)' : d.event.version = e.event.version => d = e
      BY <3>1, <2>4 DEF Inv, Gapless
    <3>2. VersionsOf(a)' = 1 .. CurrentVersion(a)'
      BY <2>4
    <3>3. \A d, e \in DocsOf(a)' : d.event.version = e.event.version => d = e
      BY <2>3, <2>4, <2>5, <2>7 DEF Inv, Gapless
    <3>. QED
      BY <3>1, <3>2, <3>3, <2>2 DEF Gapless
  <2>10. ChainLinked'
    <3>. SUFFICES ASSUME NEW d \in store'
                  PROVE  IF d.event.version = 1 THEN d.prev = NULL
                         ELSE \E e \in DocsOf(d.agg)' :
                                /\ e.event.version = d.event.version - 1 /\ e.by = d.prev
      BY DEF ChainLinked, DocsOf
    <3>1. CASE d = new
      BY <3>1, <2>3, <2>4, <2>5, <2>6 DEF LinksTo
    <3>2. CASE d \in store
      <4>1. DocsOf(d.agg) \subseteq DocsOf(d.agg)'
        BY <2>1 DEF DocsOf
      <4>. QED
        BY <3>2, <4>1 DEF Inv, ChainLinked
    <3>. QED
      BY <2>1, <3>1, <3>2
  <2>11. SequenceFollowsVersion'
    <3>. SUFFICES ASSUME NEW d \in store', NEW e \in store'
                  PROVE  /\ d.seq = e.seq => d = e
                         /\ d.agg = e.agg /\ d.event.version < e.event.version =>
                              d.seq < e.seq
      BY DEF SequenceFollowsVersion
    <3>1. CASE d \in store /\ e \in store
      BY <3>1 DEF Inv, SequenceFollowsVersion
    <3>2. \A f \in store : f.seq # new.seq
      BY <1>3, <1>d DEF Duplicate, Document
    <3>3. CASE d \in store /\ e = new
      BY <3>2, <3>3, <2>5, <2>6, <2>7 DEF DocsOf
    <3>4. CASE d = new /\ e \in store
      <4>1. ~(d.agg = e.agg /\ d.event.version < e.event.version)
        BY <3>4, <2>3, <2>5, <2>7 DEF DocsOf
      <4>. QED
        BY <3>2, <3>4, <4>1
    <3>5. CASE d = new /\ e = new
      BY <3>5, <2>3, <2>5
    <3>. QED
      BY <2>1, <3>1, <3>3, <3>4, <3>5
  <2>12. TaskOK(r)'
    <3>1. new \in store' /\ Written(r)'
      BY <2>1, <2>5 DEF Written
    <3>2. \A d \in store' : d.by = r => d = new
      BY <1>1, <2>1
    <3>3. CurrentVersion(a)' = n + 1
      BY <2>4
    <3>. QED
      BY <1>1, <2>2, <2>3, <2>5, <2>6, <3>1, <3>2, <3>3, TaskFields
         DEF TaskOK, Numbered, MayHaveWritten
  <2>13. ASSUME NEW q \in Requests \ {r} PROVE TaskOK(q)'
    <3>b. PICK b : b = task[q].agg
      OBVIOUS
    <3>1. TaskOK(q) /\ task'[q] = task[q]
      BY <2>2 DEF Inv
    <3>2. ASSUME b \in Aggregates
          PROVE  /\ CurrentVersion(b) \in Nat /\ CurrentVersion(b)' \in Nat
                 /\ CurrentVersion(b) <= CurrentVersion(b)'
                 /\ DocsOf(b) \subseteq DocsOf(b)'
      <4>1. CurrentVersion(b) \in Nat
        BY <3>2 DEF Inv, StoreOK
      <4>2. CASE b = a
        BY <4>1, <4>2, <1>n, <2>3, <2>4
      <4>3. CASE b # a
        BY <4>1, <4>3, <2>4
      <4>. QED
        BY <4>2, <4>3
    <3>3. task[q].phase \in Numbered =>
            /\ task[q].base \in Nat /\ task[q].base <= CurrentVersion(b)'
            /\ task[q].event.version = task[q].base + 1
      BY <3>1, <3>2, <3>b DEF TaskOK, Numbered
    <3>4. task[q].phase \in {"sequencing", "inserting"} =>
            LinksTo(task[q].prev, b, task[q].base)'
      BY <3>1, <3>2, <3>b DEF TaskOK, LinksTo, Numbered
    <3>5. task[q].phase = "inserting" =>
            \A d \in DocsOf(b)' : d.event.version <= task[q].base => d.seq < task[q].seq
      <4>. SUFFICES ASSUME task[q].phase = "inserting", NEW d \in DocsOf(b)',
                           d.event.version <= task[q].base
                    PROVE  d.seq < task[q].seq
        OBVIOUS
      <4>1. /\ b \in Aggregates /\ task[q].base \in Nat
            /\ task[q].base <= CurrentVersion(b)
        BY <3>1, <3>b DEF TaskOK, Numbered
      <4>2. d # new
        BY <4>1, <1>n, <2>3, <2>5 DEF DocsOf
      <4>3. d \in DocsOf(b)
        BY <4>2, <2>1 DEF DocsOf
      <4>. QED
        BY <4>3, <3>1, <3>b DEF TaskOK
    <3>6. Written(q) => Written(q)'
      BY <2>1 DEF Written
    <3>7. \A d \in store' : d.by = q => d \in store
      BY <2>1, <2>5
    <3>. QED
      BY <1>1, <3>1, <3>b, <3>3, <3>4, <3>5, <3>6, <3>7 DEF TaskOK
  <2>. QED
    BY <2>2, <2>8, <2>9, <2>10, <2>11, <2>12, <2>13 DEF Inv
<1>. QED
  BY <1>2, <1>3

-----------------------------------------------------------------------------
(* The ends of a request, whatever it was doing, preserve the invariant.    *)
LEMMA CrashAndRepliesPreserve ==
  ASSUME Inv, NEW r \in Requests, ReportConflict(r) \/ Reply(r) \/ Crash(r)
  PROVE  Inv'
<1>1. CASE ReportConflict(r)
  <2>1. \A d \in store : d.by # r
    BY <1>1, TaskFields DEF ReportConflict, TaskOK, MayHaveWritten
  <2>. QED
    BY <1>1, <2>1, FinishPreserves DEF ReportConflict
<1>2. CASE Reply(r)
  <2>1. Written(r)
    BY <1>2, TaskFields DEF Reply, TaskOK
  <2>. QED
    BY <1>2, <2>1, FinishPreserves DEF Reply
<1>3. CASE Crash(r)
  BY <1>3, FinishPreserves DEF Crash
<1>. QED
  BY <1>1, <1>2, <1>3

(* Every step preserves the invariant.                                     *)
LEMMA InvNext ==
  ASSUME Inv, [Next]_vars
  PROVE  Inv'
<1>1. CASE UNCHANGED vars
  <2>1. store' = store /\ counter' = counter /\ task' = task
    BY <1>1 DEF vars
  <2>2. \A a : /\ DocsOf(a)' = DocsOf(a) /\ VersionsOf(a)' = VersionsOf(a)
               /\ CurrentVersion(a)' = CurrentVersion(a)
    BY <2>1 DEF DocsOf, VersionsOf, CurrentVersion
  <2>3. StoreOK' /\ Gapless' /\ ChainLinked' /\ SequenceFollowsVersion'
    BY <2>1, <2>2 DEF Inv, StoreOK, Gapless, ChainLinked, SequenceFollowsVersion,
                      DocumentOK
  <2>4. \A r \in Requests : TaskOK(r)'
    BY <2>1, <2>2 DEF Inv, TaskOK, LinksTo, Written
  <2>. QED
    BY <2>1, <2>3, <2>4 DEF Inv
<1>2. CASE Next
  <2>1. PICK r \in Requests :
          \/ Execute(r) \/ ReadVersion(r) \/ ReadPreviousHash(r) \/ TakeSequence(r)
          \/ Insert(r) \/ ReportConflict(r) \/ Reply(r) \/ Crash(r)
    BY <1>2 DEF Next
  <2>. QED
    BY <2>1, ExecutePreserves, ReadVersionPreserves, ReadPreviousHashPreserves,
       TakeSequencePreserves, InsertPreserves, CrashAndRepliesPreserve
<1>. QED
  BY <1>1, <1>2

(* The invariant holds in every reachable state.                           *)
THEOREM Invariance == Spec => []Inv
<1>1. Init => Inv
  BY InvInit
<1>2. Inv /\ [Next]_vars => Inv'
  BY InvNext
<1>. QED
  BY <1>1, <1>2, PTL DEF Spec

(* Versions of every stream are 1, 2, ..., n, each once, however many      *)
(* requests race, fail or die (eventStoreRepository.append).               *)
THEOREM GaplessTheorem == Spec => []Gapless
<1>1. Inv => Gapless
  BY DEF Inv
<1>. QED
  BY <1>1, Invariance, PTL

(* Every event links to the one before it in its stream.                   *)
THEOREM ChainLinkedTheorem == Spec => []ChainLinked
<1>1. Inv => ChainLinked
  BY DEF Inv
<1>. QED
  BY <1>1, Invariance, PTL

(* The global sequence is unique and orders every stream as its versions.  *)
THEOREM SequenceTheorem == Spec => []SequenceFollowsVersion
<1>1. Inv => SequenceFollowsVersion
  BY DEF Inv
<1>. QED
  BY <1>1, Invariance, PTL

(* An accepted request has written exactly one event; one that was refused *)
(* or told of a conflict has written none.                                 *)
THEOREM AnswerTheorem == Spec => []AnswerIsTrue
<1>1. Inv => AnswerIsTrue
  <2>. SUFFICES ASSUME Inv, NEW r \in Requests
                PROVE  /\ task[r].phase = "accepted" =>
                            \E d \in store : {e \in store : e.by = r} = {d}
                       /\ task[r].phase \in {"refused", "notFound", "conflict"} =>
                            ~Written(r)
    BY DEF AnswerIsTrue
  <2>1. ASSUME task[r].phase = "accepted"
        PROVE  \E d \in store : {e \in store : e.by = r} = {d}
    <3>1. PICK d \in store : d.by = r
      BY <2>1, TaskFields DEF TaskOK, Written
    <3>2. {e \in store : e.by = r} = {d}
      BY <3>1 DEF Inv, StoreOK
    <3>. QED
      BY <3>2
  <2>2. task[r].phase \in {"refused", "notFound", "conflict"} => ~Written(r)
    BY TaskFields DEF TaskOK, Written, MayHaveWritten
  <2>. QED
    BY <2>1, <2>2
<1>. QED
  BY <1>1, Invariance, PTL

(* Two writes to one shipment never claimed the same version: of the       *)
(* requests that looked at the same state, at most one is recorded.        *)
THEOREM NoLostUpdateTheorem == Spec => []NoLostUpdate
<1>1. Inv => NoLostUpdate
  <2>. SUFFICES ASSUME Inv, NEW r \in Requests, NEW q \in Requests,
                       Written(r), Written(q), r # q,
                       task[r].agg = task[q].agg, task[r].claimed = task[q].claimed
                PROVE  FALSE
    BY DEF NoLostUpdate
  <2>1. PICK d \in store, e \in store : d.by = r /\ e.by = q
    BY DEF Written
  <2>2. /\ d.agg = task[r].agg /\ e.agg = task[q].agg
        /\ d.event.version = e.event.version
    BY <2>1, TaskFields DEF TaskOK
  <2>3. d.agg \in Aggregates /\ d \in DocsOf(d.agg) /\ e \in DocsOf(d.agg)
    BY <2>2 DEF Inv, StoreOK, DocumentOK, DocsOf
  <2>4. d = e
    BY <2>2, <2>3 DEF Inv, Gapless
  <2>. QED
    BY <2>1, <2>4
<1>. QED
  BY <1>1, Invariance, PTL

-----------------------------------------------------------------------------
(* Of the numbers with a property, one is the smallest.                     *)
LEMMA LeastElement ==
  ASSUME NEW S \in SUBSET Nat, S # {}
  PROVE  \E n \in S : \A m \in S : n <= m
<1>1. PICK n \in S : \A m \in S : ~(<<m, n>> \in OpToRel(<, Nat))
  BY NatLessThanWellFounded, WFMin
<1>2. \A m \in S : ~(m < n)
  BY <1>1 DEF OpToRel
<1>. QED
  BY <1>2

(* The read side over the ledger has no part in this.                      *)
L == INSTANCE ShipmentQueries_proofs WITH
  log <- [a \in Aggregates |-> Stream(a)], MaxVersion <- Cardinality(Requests),
  document <- <<>>, now <- 0, query <- NULL,
  StaleCreated <- 0, StaleMoving <- 0, PageSize <- 1, MaxEvents <- 0

LEMMA SameApply ==
  ASSUME NEW s, NEW event
  PROVE  L!ApplyEvent(s, event) = ApplyEvent(s, event)
BY DEF ApplyEvent, Created, Moved, Sampled, Amended, Planned, Revised, Extended, Flagged,
       ConfirmStage, Or, PlannedDate, MovementEvents, ConfirmingEvent, Stages,
       ReachedState,
       L!ApplyEvent, L!Created, L!Moved, L!Sampled, L!Amended, L!Planned,
       L!Revised, L!Extended, L!Flagged, L!ConfirmStage, L!Or,
       L!PlannedDate, L!MovementEvents, L!ConfirmingEvent, L!Stages,
       L!ReachedState

LEMMA SameReplay ==
  ASSUME NEW events
  PROVE  L!Replay(events) = Replay(events)
BY DEF Replay, ReplayFrom, InitialShipment, ApplyEvent, Created, Moved, Sampled, Amended, Planned, Revised, Extended, Flagged,
       ConfirmStage, Or, PlannedDate, MovementEvents, ConfirmingEvent, Stages,
       ReachedState, L!InitialShipment, L!Replay, L!ReplayFrom,
       L!ApplyEvent, L!Created, L!Moved, L!Sampled, L!Amended, L!Planned,
       L!Revised, L!Extended, L!Flagged, L!ConfirmStage, L!Or,
       L!PlannedDate, L!MovementEvents, L!ConfirmingEvent, L!Stages,
       L!ReachedState

LEMMA SameDecide ==
  ASSUME NEW s, NEW c, NEW at
  PROVE  L!Decide(s, c, at) = Decide(s, c, at)
BY DEF Decide, Create, Move, RecordTemperature, Amend, PlanSchedule, ReviseSchedule,
       ExtendSchedule, Archive, Restore, Active, Exists, Event, PairOf, PlannedDate,
       RequiredState, ConfirmingEvent, DayOf, IsBreach, WholeRange, Or,
       ValidPlannedDates, KeepsConfirmedDates, WindowOpens, WindowCloses, Normalised,
       ExtendedPlan, ExtendedDays, StageRank, Stages, LastStage,
       L!Decide, L!Create, L!Move, L!RecordTemperature, L!Amend,
       L!PlanSchedule, L!ReviseSchedule, L!ExtendSchedule, L!Archive,
       L!Restore, L!Active, L!Exists, L!Event, L!PairOf, L!PlannedDate,
       L!RequiredState, L!ConfirmingEvent, L!DayOf, L!IsBreach,
       L!WholeRange, L!Or, L!ValidPlannedDates, L!KeepsConfirmedDates,
       L!WindowOpens, L!WindowCloses, L!Normalised, L!ExtendedPlan,
       L!ExtendedDays, L!StageRank, L!Stages, L!LastStage


(* The ledger's assumptions hold of what stands for its constants.         *)
LEMMA LedgerAssumptions ==
  /\ NULL \notin L!Stages /\ NULL \notin L!ShipmentStates /\ NULL \notin L!PlanEntries
  /\ NULL \notin L!Confirmations /\ NULL \notin L!RestoredConfirmations
  /\ \A c \in Commands : c \in L!ValidCommands
  /\ 0 \in Nat /\ 1 \in Nat \ {0}
  /\ Times \subseteq Int /\ Cardinality(Requests) \in Nat
<1>1. /\ NULL \notin L!Stages
      /\ NULL \notin L!ShipmentStates /\ NULL \notin L!PlanEntries
      /\ NULL \notin L!Confirmations /\ NULL \notin L!RestoredConfirmations
  BY NullAssumption
     DEF ShipmentStates, PlanEntries, Confirmations, RestoredConfirmations, Stages,
         OptionalInts, L!ShipmentStates, L!PlanEntries, L!Confirmations,
         L!RestoredConfirmations, L!Stages, L!OptionalInts
<1>2. \A c \in Commands : c \in L!ValidCommands
  BY CommandServiceAssumption
     DEF ValidCommands, CreateCommands, MoveCommands, TemperatureCommands, AmendCommands,
         PlanCommands, ReviseCommands, ExtendCommands, ArchiveCommands, RestoreCommands,
         WholeDays, Proposals, Stages,
         L!ValidCommands, L!CreateCommands, L!MoveCommands,
         L!TemperatureCommands, L!AmendCommands, L!PlanCommands,
         L!ReviseCommands, L!ExtendCommands, L!ArchiveCommands,
         L!RestoreCommands, L!WholeDays, L!Proposals, L!Stages
<1>3. Cardinality(Requests) \in Nat
  BY CommandServiceAssumption, FS_CardinalityType
<1>. QED
  BY <1>1, <1>2, <1>3, CommandServiceAssumption

-----------------------------------------------------------------------------
(* Sorting documents with the versions 1, ..., n puts each at its version. *)
LEMMA AscendingByVersion ==
  ASSUME NEW docs, NEW n \in Nat, {d.event.version : d \in docs} = 1 .. n,
         \A d, e \in docs : d.event.version = e.event.version => d = e
  PROVE  /\ IsFiniteSet(docs) /\ Cardinality(docs) = n
         /\ Ascending(docs) \in [1 .. n -> docs]
         /\ \A i \in 1 .. n : Ascending(docs)[i].event.version = i
<1>. DEFINE version(d) == d.event.version
            at == [v \in 1 .. n |-> CHOOSE d \in docs : version(d) = v]
            Sorted(s) == \A i, j \in 1 .. n : i < j =>
                           s[i] # s[j] /\ version(s[i]) <= version(s[j])
            s == Ascending(docs)
<1>1. \A v \in 1 .. n : at[v] \in docs /\ version(at[v]) = v
  OBVIOUS
<1>2. \A d \in docs : version(d) \in 1 .. n /\ at[version(d)] = d
  BY <1>1
<1>3. IsFiniteSet(docs) /\ Cardinality(docs) = n
  <2>1. at \in Bijection(1 .. n, docs)
    <3>1. at \in [1 .. n -> docs] /\ DOMAIN at = 1 .. n
      BY <1>1
    <3>. HIDE DEF at
    <3>. QED
      BY <1>1, <1>2, <3>1 DEF Bijection, Injection, Surjection, IsInjective
  <2>2. ExistsBijection(1 .. n, docs)
    BY <2>1 DEF ExistsBijection
  <2>3. IsFiniteSet(1 .. n) /\ Cardinality(1 .. n) = n
    BY FS_Interval
  <2>. QED
    BY <2>2, <2>3, FS_Bijection
<1>4. at \in [1 .. n -> docs] /\ Sorted(at)
  <2>1. at \in [1 .. n -> docs]
    BY <1>1
  <2>. HIDE DEF at
  <2>. QED
    BY <1>1, <2>1
<1>5. s \in [1 .. n -> docs] /\ Sorted(s)
  <2>1. s = CHOOSE t \in [1 .. n -> docs] : Sorted(t)
    BY <1>3 DEF Ascending
  <2>. HIDE DEF at, s, Sorted
  <2>. QED
    BY <1>4, <2>1
<1>. HIDE DEF at, s
<1>6. \A i \in 1 .. n : version(s[i]) \in 1 .. n
  BY <1>2, <1>5
<1>7. \A i, j \in 1 .. n : i < j => version(s[i]) < version(s[j])
  BY <1>2, <1>5, <1>6
<1>8. ASSUME NEW i \in 1 .. n
      PROVE  version(s[i]) >= i
  <2>. DEFINE Low == {j \in 1 .. n : version(s[j]) < j}
  <2>1. SUFFICES ASSUME Low # {} PROVE FALSE
    BY <1>6
  <2>2. PICK j \in Low : \A k \in Low : j <= k
    <3>1. Low \in SUBSET Nat
      OBVIOUS
    <3>. HIDE DEF Low
    <3>. QED
      BY <2>1, <3>1, LeastElement
  <2>3. j # 1
    BY <1>6
  <2>4. j - 1 \in 1 .. n /\ j - 1 < j /\ j - 1 \notin Low
    BY <2>2, <2>3
  <2>5. version(s[j - 1]) >= j - 1 /\ version(s[j - 1]) < version(s[j])
    BY <1>6, <1>7, <2>4
  <2>. QED
    BY <1>6, <2>4, <2>5
<1>9. ASSUME NEW i \in 1 .. n
      PROVE  version(s[i]) <= i
  <2>. DEFINE High == {k \in 0 .. n - 1 : version(s[n - k]) > n - k}
  <2>1. SUFFICES ASSUME High # {} PROVE FALSE
    <3>1. PICK k \in 0 .. n - 1 : n - k = i
      <4>1. n - i \in 0 .. n - 1 /\ n - (n - i) = i
        OBVIOUS
      <4>. QED
        BY <4>1
    <3>2. k \notin High => version(s[i]) <= i
      BY <1>6, <3>1
    <3>. HIDE DEF High
    <3>. QED
      BY <2>1, <3>2
  <2>2. PICK k \in High : \A l \in High : k <= l
    <3>1. High \in SUBSET Nat
      OBVIOUS
    <3>. HIDE DEF High
    <3>. QED
      BY <2>1, <3>1, LeastElement
  <2>3. k # 0
    BY <1>6
  <2>4. /\ k - 1 \in 0 .. n - 1 /\ k - 1 < k /\ k - 1 \notin High
        /\ n - k \in 1 .. n /\ n - (k - 1) \in 1 .. n /\ n - k < n - (k - 1)
    BY <2>2, <2>3
  <2>5. version(s[n - (k - 1)]) <= n - (k - 1) /\ version(s[n - k]) < version(s[n - (k - 1)])
    BY <1>6, <1>7, <2>4
  <2>. QED
    BY <1>6, <2>4, <2>5
<1>10. \A i \in 1 .. n : version(s[i]) = i
  BY <1>6, <1>8, <1>9
<1>. QED
  BY <1>3, <1>5, <1>10 DEF s

-----------------------------------------------------------------------------
(* The refinement.                                                         *)

(* Phases in which a request holds an event it may still insert.           *)
Holding == {"appending", "linking", "sequencing", "inserting"}

(* An event decided on the first `base' events of a stream.                *)
DecidedOn(stream, base, event) ==
  /\ base \in 0 .. Len(stream)
  /\ \E c \in Commands, at \in Times :
       LET seen == Replay(SubSeq(stream, 1, base))
       IN  InOrder(seen, at) /\ event \in Decide(seen, c, at)

(* What such a request holds was decided on the first events of the stream,*)
(* which are there still.                                                  *)
Decided(r) ==
  task[r].phase \in Holding =>
    /\ task[r].agg \in Aggregates
    /\ DecidedOn(Stream(task[r].agg), task[r].base, task[r].event)

EventsTyped == \A d \in store : d.event.type \in EventTypes

RefInv == Inv /\ EventsTyped /\ \A r \in Requests : Decided(r)

(* A stream is a sequence whose n-th event is that of the document with    *)
(* version n.                                                              *)
ShapeOK(a) ==
  /\ Stream(a) \in Seq({d.event : d \in DocsOf(a)})
  /\ Len(Stream(a)) = CurrentVersion(a)
  /\ IsFiniteSet(DocsOf(a)) /\ Cardinality(DocsOf(a)) = CurrentVersion(a)
  /\ \A i \in 1 .. CurrentVersion(a) :
       Stream(a)[i].version = i /\ Stream(a)[i].type \in EventTypes
  /\ \A d \in DocsOf(a) : /\ d.event.version \in 1 .. CurrentVersion(a)
                          /\ Stream(a)[d.event.version] = d.event

LEMMA StreamShape ==
  Inv /\ EventsTyped => \A a \in Aggregates : ShapeOK(a)
<1>. SUFFICES ASSUME Inv, EventsTyped, NEW a \in Aggregates
              PROVE  ShapeOK(a)
  OBVIOUS
<1>1. PICK n \in Nat : n = CurrentVersion(a)
  BY DEF Inv, StoreOK
<1>2. PICK docs : docs = DocsOf(a)
  OBVIOUS
<1>3. /\ {d.event.version : d \in docs} = 1 .. n
      /\ \A d, e \in docs : d.event.version = e.event.version => d = e
  BY <1>1, <1>2 DEF Inv, Gapless, VersionsOf
<1>4. PICK s : s = Ascending(docs)
  OBVIOUS
<1>5. /\ IsFiniteSet(docs) /\ Cardinality(docs) = n
      /\ s \in [1 .. n -> docs] /\ \A i \in 1 .. n : s[i].event.version = i
  BY <1>3, <1>4, AscendingByVersion
<1>6. Stream(a) = [i \in 1 .. n |-> s[i].event]
  BY <1>2, <1>4, <1>5 DEF Stream
<1>7. Stream(a) \in Seq({d.event : d \in docs}) /\ Len(Stream(a)) = n
  BY <1>5, <1>6
<1>8. \A i \in 1 .. n : Stream(a)[i].version = i /\ Stream(a)[i].type \in EventTypes
  BY <1>2, <1>5, <1>6 DEF EventsTyped, DocsOf
<1>9. ASSUME NEW d \in docs
      PROVE  d.event.version \in 1 .. n /\ Stream(a)[d.event.version] = d.event
  <2>1. PICK v \in 1 .. n : v = d.event.version
    BY <1>3
  <2>2. s[v] \in docs /\ s[v].event.version = v
    BY <1>5
  <2>3. s[v] = d
    BY <1>3, <2>1, <2>2
  <2>. QED
    BY <1>6, <2>1, <2>3
<1>. QED
  BY <1>1, <1>2, <1>5, <1>7, <1>8, <1>9 DEF ShapeOK

(* What a request read is a prefix of the stream, of whatever length the   *)
(* query limit leaves, and the state it folds to has its length as version.*)
LEMMA LoadedIsPrefix ==
  ASSUME Inv, EventsTyped, NEW a \in Aggregates
  PROVE  \E k \in 0 .. Len(Stream(a)) :
           /\ GetEvents(a) = SubSeq(Stream(a), 1, k)
           /\ Replay(GetEvents(a)).version = k
<1>1. PICK n \in Nat : n = CurrentVersion(a)
  BY DEF Inv, StoreOK
<1>2. PICK S : Stream(a) \in Seq(S)
  BY StreamShape DEF ShapeOK
<1>3. /\ Len(Stream(a)) = n
      /\ \A i \in 1 .. n : Stream(a)[i].version = i /\ Stream(a)[i].type \in EventTypes
  BY <1>1, StreamShape DEF ShapeOK
<1>4. PICK k \in 0 .. n : GetEvents(a) = SubSeq(Stream(a), 1, k)
  BY <1>3, CommandServiceAssumption DEF GetEvents
<1>5. L!Replay(SubSeq(Stream(a), 1, k)).version = IF k = 0 THEN 0 ELSE Stream(a)[k].version
  <2>1. \A i \in 1 .. Len(Stream(a)) : Stream(a)[i].type \in L!EventTypes
    BY <1>3 DEF EventTypes, MovementEvents, ConfirmingEvent, Stages,
       L!EventTypes, L!MovementEvents, L!ConfirmingEvent, L!Stages
  <2>. QED
    BY <1>2, <1>3, <1>4, <2>1, LedgerAssumptions, DomainAssumption, L!PrefixEnvelope
<1>. QED
  BY <1>3, <1>4, <1>5, SameReplay

(* Nothing is recorded and nobody holds anything at first.                 *)
LEMMA RefInit ==
  ASSUME Init
  PROVE  RefInv
<1>1. Inv
  BY InvInit
<1>2. store = {} /\ \A r \in Requests : task[r].phase = "idle"
  BY DEF Init, IdleTask
<1>. QED
  BY <1>1, <1>2 DEF RefInv, EventsTyped, Decided, Holding

(* A step that leaves the store alone, and gives nobody anything to hold.  *)
LEMMA QuietStep ==
  ASSUME RefInv, store' = store, NEW r \in Requests,
         \A q \in Requests \ {r} : task'[q] = task[q],
         task'[r].phase \in Holding =>
           /\ task[r].phase \in Holding /\ task'[r].agg = task[r].agg
           /\ task'[r].base = task[r].base /\ task'[r].event = task[r].event
  PROVE  EventsTyped' /\ \A q \in Requests : Decided(q)'
<1>1. EventsTyped'
  BY DEF RefInv, EventsTyped
<1>2. \A a : Stream(a)' = Stream(a)
  BY DEF Stream, DocsOf
<1>3. ASSUME NEW q \in Requests
      PROVE  Decided(q)'
  <2>. SUFFICES ASSUME task'[q].phase \in Holding
                PROVE  /\ task'[q].agg \in Aggregates
                       /\ DecidedOn(Stream(task[q].agg), task[q].base, task[q].event)'
    BY DEF Decided
  <2>1. /\ task[q].phase \in Holding /\ task'[q].agg = task[q].agg
        /\ task'[q].base = task[q].base /\ task'[q].event = task[q].event
    BY DEF RefInv
  <2>2. PICK a \in Aggregates : a = task[q].agg /\ a = task'[q].agg
    BY <2>1 DEF RefInv, Decided
  <2>3. PICK s : s = Stream(a)
    OBVIOUS
  <2>4. DecidedOn(s, task[q].base, task[q].event)
    BY <2>1, <2>2, <2>3 DEF RefInv, Decided
  <2>5. Stream(task[q].agg)' = s
    <3>1. DocsOf(task[q].agg)' = DocsOf(a)
      BY <2>2 DEF DocsOf
    <3>. QED
      BY <2>3, <3>1 DEF Stream
  <2>. QED
    BY <2>1, <2>2, <2>4, <2>5 DEF DecidedOn
<1>. QED
  BY <1>1, <1>3

(* A command that is let through was decided on what was loaded.           *)
LEMMA ExecuteDecides ==
  ASSUME RefInv, NEW r \in Requests, Execute(r)
  PROVE  EventsTyped' /\ \A q \in Requests : Decided(q)'
<1>1. PICK a \in Aggregates, c \in Commands : \E claimed \in Claims(c), at \in Times :
        \E event \in IF Verdict(GetEvents(a), c, claimed, at) = "appending"
                      THEN Decide(Replay(GetEvents(a)), c, at) ELSE {NULL} :
          task' = [task EXCEPT ![r] =
            [IdleTask EXCEPT !.phase = Verdict(GetEvents(a), c, claimed, at),
                             !.agg = a, !.claimed = claimed,
                             !.base = Replay(GetEvents(a)).version, !.event = event]]
  BY Zenon DEF Execute
<1>2. PICK state : state = Replay(GetEvents(a))
  OBVIOUS
<1>3. PICK claimed \in Claims(c), at \in Times :
        \E event \in IF Verdict(GetEvents(a), c, claimed, at) = "appending"
                      THEN Decide(state, c, at) ELSE {NULL} :
          task' = [task EXCEPT ![r] =
            [IdleTask EXCEPT !.phase = Verdict(GetEvents(a), c, claimed, at),
                             !.agg = a, !.claimed = claimed,
                             !.base = state.version, !.event = event]]
  BY <1>1, <1>2, Zenon
<1>4. PICK phase : phase = Verdict(GetEvents(a), c, claimed, at)
  OBVIOUS
<1>5. PICK event \in IF phase = "appending" THEN Decide(state, c, at) ELSE {NULL} :
          task' = [task EXCEPT ![r] =
            [IdleTask EXCEPT !.phase = phase, !.agg = a, !.claimed = claimed,
                             !.base = state.version, !.event = event]]
  BY <1>3, <1>4, Zenon
<1>6. /\ task'[r].phase = phase /\ task'[r].agg = a
      /\ task'[r].base = state.version /\ task'[r].event = event
      /\ \A q \in Requests \ {r} : task'[q] = task[q]
  BY <1>5, TaskFields DEF RefInv, IdleTask
<1>7. store' = store
  BY DEF Execute
<1>8. CASE phase # "appending"
  <2>1. phase \in {"failed", "notFound", "conflict", "refused", "appending"}
    BY <1>4 DEF Verdict
  <2>2. task'[r].phase \notin Holding
    BY <1>6, <1>8, <2>1 DEF Holding
  <2>. QED
    BY <1>6, <1>7, <2>2, QuietStep
<1>9. CASE phase = "appending"
  <2>1. InOrder(state, at) /\ event \in Decide(state, c, at)
    BY <1>2, <1>4, <1>5, <1>9 DEF Verdict
  <2>2. PICK s : s = Stream(a)
    OBVIOUS
  <2>3. PICK k \in 0 .. Len(s) : GetEvents(a) = SubSeq(s, 1, k) /\ state.version = k
    BY <1>2, <2>2, LoadedIsPrefix DEF RefInv
  <2>4. DecidedOn(s, state.version, event)
    BY <1>2, <2>1, <2>3 DEF DecidedOn
  <2>5. Stream(task[r].agg)' = s
    <3>1. DocsOf(task[r].agg)' = DocsOf(a)
      BY <1>6, <1>7 DEF DocsOf
    <3>. QED
      BY <2>2, <3>1 DEF Stream
  <2>6. Decided(r)'
    BY <1>6, <2>4, <2>5 DEF Decided, DecidedOn
  <2>7. ASSUME NEW q \in Requests \ {r}
        PROVE  Decided(q)'
    <3>1. task'[q] = task[q] /\ Decided(q)
      BY <1>6 DEF RefInv
    <3>2. PICK b : b = task[q].agg
      OBVIOUS
    <3>3. DocsOf(task[q].agg)' = DocsOf(b)
      BY <1>7, <3>1, <3>2 DEF DocsOf
    <3>4. Stream(task[q].agg)' = Stream(b)
      BY <3>3 DEF Stream
    <3>. QED
      BY <3>1, <3>2, <3>4 DEF Decided, DecidedOn
  <2>8. EventsTyped'
    BY <1>7 DEF RefInv, EventsTyped
  <2>. QED
    BY <2>6, <2>7, <2>8
<1>. QED
  BY <1>8, <1>9

(* The steps between the load and the insert keep what a request holds.    *)
LEMMA BetweenKeeps ==
  ASSUME RefInv, NEW r \in Requests,
         \/ ReadVersion(r) \/ ReadPreviousHash(r) \/ TakeSequence(r)
         \/ ReportConflict(r) \/ Reply(r) \/ Crash(r)
  PROVE  store' = store /\ EventsTyped' /\ \A q \in Requests : Decided(q)'
<1>1. DOMAIN task = Requests /\ DOMAIN task[r] = Fields
  BY TaskFields DEF RefInv
<1>2. store' = store
  BY DEF ReadVersion, ReadPreviousHash, TakeSequence, ReportConflict, Reply, Crash
<1>3. \/ \E outcome \in {"conflict", "accepted", "failed"} : \E told : Finish(r, outcome, told)
      \/ ReadVersion(r) /\ task' = [task EXCEPT ![r].phase = "linking"]
      \/ ReadPreviousHash(r)
      \/ TakeSequence(r)
  BY DEF ReadVersion, ReportConflict, Reply, Crash
<1>4. ASSUME NEW outcome \in {"conflict", "accepted", "failed"}, NEW told,
             Finish(r, outcome, told)
      PROVE  EventsTyped' /\ \A q \in Requests : Decided(q)'
  <2>1. task'[r].phase = outcome /\ \A q \in Requests \ {r} : task'[q] = task[q]
    BY <1>1, <1>4 DEF Finish, Fields
  <2>2. task'[r].phase \notin Holding
    BY <2>1 DEF Holding
  <2>. QED
    BY <1>2, <2>1, <2>2, QuietStep
<1>5. CASE ReadVersion(r) /\ task' = [task EXCEPT ![r].phase = "linking"]
  <2>1. /\ task[r].phase \in Holding /\ task'[r].agg = task[r].agg
        /\ task'[r].base = task[r].base /\ task'[r].event = task[r].event
        /\ \A q \in Requests \ {r} : task'[q] = task[q]
    BY <1>1, <1>5 DEF ReadVersion, Fields, Holding
  <2>. QED
    BY <1>2, <2>1, QuietStep
<1>6. CASE ReadPreviousHash(r)
  <2>1. PICK link : task' = [task EXCEPT ![r].phase = "sequencing", ![r].prev = link]
    BY <1>6 DEF ReadPreviousHash
  <2>2. /\ task[r].phase \in Holding /\ task'[r].agg = task[r].agg
        /\ task'[r].base = task[r].base /\ task'[r].event = task[r].event
        /\ \A q \in Requests \ {r} : task'[q] = task[q]
    BY <1>1, <1>6, <2>1 DEF ReadPreviousHash, Fields, Holding
  <2>. QED
    BY <1>2, <2>2, QuietStep
<1>7. CASE TakeSequence(r)
  <2>1. /\ task[r].phase \in Holding /\ task'[r].agg = task[r].agg
        /\ task'[r].base = task[r].base /\ task'[r].event = task[r].event
        /\ \A q \in Requests \ {r} : task'[q] = task[q]
    BY <1>1, <1>7 DEF TakeSequence, Fields, Holding
  <2>. QED
    BY <1>2, <2>1, QuietStep
<1>. QED
  BY <1>2, <1>3, <1>4, <1>5, <1>6, <1>7

(* The shape of the streams in the next state.                             *)
LEMMA StreamShapeNext ==
  Inv' /\ EventsTyped' => \A a \in Aggregates : ShapeOK(a)'
<1>1. (Inv /\ EventsTyped => \A a \in Aggregates : ShapeOK(a))'
  BY StreamShape, PTL
<1>. QED
  BY <1>1

(* An insert that is admitted appends to one stream the event decided on   *)
(* the whole of it, and leaves the others alone.                           *)
LEMMA InsertAppends ==
  ASSUME RefInv, NEW r \in Requests, Insert(r), ~Duplicate(Document(r)),
         NEW a, a = task[r].agg, NEW event, event = task[r].event,
         NEW s, s = Stream(a)
  PROVE  /\ a \in Aggregates /\ EventsTyped'
         /\ task[r].base = Len(s) /\ Len(s) < Cardinality(Requests)
         /\ \E c \in Commands, at \in Times :
              InOrder(Replay(s), at) /\ event \in Decide(Replay(s), c, at)
         /\ Stream(a)' = Append(s, event)
         /\ \A b : b # a => Stream(b)' = Stream(b)
<1>n. PICK n : n = CurrentVersion(a)
  OBVIOUS
<1>d. PICK new : new = Document(r)
  OBVIOUS
<1>1. /\ Inv /\ Inv' /\ task[r].phase = "inserting" /\ store' = store \cup {new}
      /\ new.agg = a /\ new.by = r /\ new.event = event
  BY InsertPreserves, <1>d DEF RefInv, Insert, Document
<1>2. /\ a \in Aggregates /\ n \in Nat /\ task[r].base = n /\ event.version = n + 1
  BY <1>1, <1>n, InsertIsNext DEF Inv, StoreOK
<1>3. /\ DocsOf(a)' = DocsOf(a) \cup {new} /\ CurrentVersion(a)' = n + 1
      /\ \A b : b # a => DocsOf(b)' = DocsOf(b)
  <2>1. store' = store \cup {Document(r)}
    BY <1>1, <1>d
  <2>. QED
    BY <1>1, <1>n, <1>d, <2>1, StreamGrows
<1>4. PICK S : s \in Seq(S)
  BY <1>1, <1>2, StreamShape DEF RefInv, ShapeOK
<1>5. /\ Len(s) = n
      /\ \A d \in DocsOf(a) : d.event.version \in 1 .. n /\ s[d.event.version] = d.event
      /\ IsFiniteSet(DocsOf(a)) /\ Cardinality(DocsOf(a)) = n
  BY <1>1, <1>2, <1>n, StreamShape DEF RefInv, ShapeOK
<1>6. PICK c \in Commands, at \in Times :
        InOrder(Replay(s), at) /\ event \in Decide(Replay(s), c, at)
  <2>1. DecidedOn(s, n, event)
    BY <1>1, <1>2 DEF RefInv, Decided, Holding
  <2>2. SubSeq(s, 1, n) = s
    BY <1>2, <1>4, <1>5
  <2>. QED
    BY <2>1, <2>2 DEF DecidedOn
<1>7. event.type \in EventTypes
  <2>1. event \in L!Decide(Replay(s), c, at)
    BY <1>6, SameDecide
  <2>2. event.type \in L!EventTypes
    BY <2>1, LedgerAssumptions, DomainAssumption, L!DecidedEnvelope
  <2>. QED
    BY <2>2 DEF EventTypes, MovementEvents, ConfirmingEvent, Stages,
       L!EventTypes, L!MovementEvents, L!ConfirmingEvent, L!Stages
<1>8. EventsTyped'
  BY <1>1, <1>7 DEF RefInv, EventsTyped
<1>9. Stream(a)' = Append(s, event)
  <2>t. PICK t : t = Stream(a)'
    OBVIOUS
  <2>1. PICK T : t \in Seq(T)
    BY <1>1, <1>2, <1>8, <2>t, StreamShapeNext DEF ShapeOK
  <2>2. /\ Len(t) = n + 1
        /\ \A d \in DocsOf(a)' : t[d.event.version] = d.event
    BY <1>1, <1>2, <1>3, <1>8, <2>t, StreamShapeNext DEF ShapeOK
  <2>3. t[n + 1] = event
    BY <1>1, <1>2, <1>3, <2>2
  <2>4. ASSUME NEW i \in 1 .. n
        PROVE  t[i] = s[i]
    <3>1. VersionsOf(a) = 1 .. n
      BY <1>1, <1>2, <1>n DEF Inv, Gapless
    <3>2. PICK d \in DocsOf(a) : d.event.version = i
      BY <3>1 DEF VersionsOf
    <3>. QED
      BY <1>3, <1>5, <2>2, <3>2
  <2>5. Append(s, event) \in Seq(S \cup {event}) /\ Len(Append(s, event)) = n + 1
        /\ Append(s, event)[n + 1] = event /\ \A i \in 1 .. n : Append(s, event)[i] = s[i]
    BY <1>2, <1>4, <1>5
  <2>6. t = Append(s, event)
    <3>1. \A i \in 1 .. n + 1 : i = n + 1 \/ i \in 1 .. n
      BY <1>2
    <3>2. DOMAIN t = 1 .. n + 1 /\ DOMAIN Append(s, event) = 1 .. n + 1
      BY <1>2, <2>1, <2>2, <2>5
    <3>3. \A i \in 1 .. n + 1 : t[i] = Append(s, event)[i]
      BY <2>3, <2>4, <2>5, <3>1
    <3>4. t = [i \in 1 .. n + 1 |-> t[i]]
      BY <2>1, <3>2
    <3>5. Append(s, event) = [i \in 1 .. n + 1 |-> Append(s, event)[i]]
      BY <2>5, <3>2
    <3>. QED
      BY <3>3, <3>4, <3>5
  <2>. QED
    BY <2>t, <2>6
<1>10. \A b : b # a => Stream(b)' = Stream(b)
  BY <1>3 DEF Stream
<1>11. n < Cardinality(Requests)
  <2>1. PICK docs : docs = DocsOf(a)
    OBVIOUS
  <2>2. /\ \A d \in docs : d.by \in Requests \ {r}
        /\ \A d, e \in docs : d.by = e.by => d = e
    <3>1. \A d \in store : d.by # r
      BY <1>1, TaskFields DEF TaskOK, MayHaveWritten
    <3>. QED
      BY <1>1, <2>1, <3>1 DEF DocsOf, Inv, StoreOK, DocumentOK
  <2>3. PICK by : by = [d \in docs |-> d.by]
    OBVIOUS
  <2>4. by \in Injection(docs, Requests \ {r})
    BY <2>2, <2>3 DEF Injection, IsInjective
  <2>5. /\ IsFiniteSet(Requests \ {r})
        /\ Cardinality(Requests \ {r}) = Cardinality(Requests) - 1
    BY CommandServiceAssumption, FS_RemoveElement
  <2>6. Cardinality(docs) <= Cardinality(Requests \ {r})
    BY <2>4, <2>5, FS_Injection
  <2>. QED
    BY <1>2, <1>5, <2>1, <2>5, <2>6, CommandServiceAssumption, FS_CardinalityType
<1>. QED
  BY <1>2, <1>5, <1>6, <1>8, <1>9, <1>10, <1>11

(* The insert, admitted or rejected, keeps what every request holds decided*)
(* on the first events of its stream: the stream only grows.               *)
LEMMA InsertKeeps ==
  ASSUME RefInv, NEW r \in Requests, Insert(r)
  PROVE  EventsTyped' /\ \A q \in Requests : Decided(q)'
<1>1. DOMAIN task = Requests /\ DOMAIN task[r] = Fields
  BY TaskFields DEF RefInv
<1>2. CASE Duplicate(Document(r))
  <2>1. store' = store /\ task' = [task EXCEPT ![r].phase = "rejected"]
    BY <1>2 DEF Insert
  <2>2. /\ task'[r].phase \notin Holding /\ \A q \in Requests \ {r} : task'[q] = task[q]
    BY <1>1, <2>1 DEF Fields, Holding
  <2>. QED
    BY <2>1, <2>2, QuietStep
<1>3. CASE ~Duplicate(Document(r))
  <2>1. task' = [task EXCEPT ![r].phase = "inserted"]
    BY <1>3 DEF Insert
  <2>2. /\ task'[r].phase \notin Holding /\ \A q \in Requests \ {r} : task'[q] = task[q]
    BY <1>1, <2>1 DEF Fields, Holding
  <2>3. PICK a, event, s : a = task[r].agg /\ event = task[r].event /\ s = Stream(a)
    OBVIOUS
  <2>4. /\ a \in Aggregates /\ EventsTyped' /\ Stream(a)' = Append(s, event)
        /\ \A b : b # a => Stream(b)' = Stream(b)
    BY <1>3, <2>3, InsertAppends
  <2>5. PICK S : s \in Seq(S)
    BY <2>3, <2>4, StreamShape DEF RefInv, ShapeOK
  <2>6. ASSUME NEW q \in Requests, task'[q].phase \in Holding
        PROVE  task'[q].agg \in Aggregates
               /\ DecidedOn(Stream(task[q].agg), task[q].base, task[q].event)'
    <3>1. task'[q] = task[q] /\ Decided(q)
      BY <2>2, <2>6 DEF RefInv
    <3>2. PICK b, t : b = task[q].agg /\ t = Stream(b)
      OBVIOUS
    <3>3. b \in Aggregates /\ DecidedOn(t, task[q].base, task[q].event)
      BY <2>6, <3>1, <3>2 DEF Decided
    <3>4. Stream(task[q].agg)' = IF b = a THEN Append(s, event) ELSE t
      <4>1. DocsOf(task[q].agg)' = DocsOf(b)'
        BY <3>1, <3>2 DEF DocsOf
      <4>2. Stream(task[q].agg)' = Stream(b)'
        BY <4>1 DEF Stream
      <4>. QED
        BY <2>3, <2>4, <3>2, <4>2
    <3>5. PICK u : u = Stream(task[q].agg)'
      OBVIOUS
    <3>6. DecidedOn(u, task[q].base, task[q].event)
      <4>1. CASE b # a
        BY <3>3, <3>4, <3>5, <4>1
      <4>2. CASE b = a
        <5>1. u = Append(s, event) /\ t = s
          BY <2>3, <3>2, <3>4, <3>5, <4>2
        <5>2. \A k \in 0 .. Len(s) :
                k \in 0 .. Len(u) /\ SubSeq(u, 1, k) = SubSeq(s, 1, k)
          BY <2>5, <5>1
        <5>. QED
          BY <3>3, <5>1, <5>2 DEF DecidedOn
      <4>. QED
        BY <4>1, <4>2
    <3>. QED
      BY <3>1, <3>2, <3>3, <3>5, <3>6 DEF DecidedOn
  <2>. QED
    BY <2>4, <2>6 DEF Decided
<1>. QED
  BY <1>2, <1>3

(* Every step preserves the invariant of the refinement.                   *)
LEMMA RefInvNext ==
  ASSUME RefInv, [Next]_vars
  PROVE  RefInv'
<1>1. Inv'
  BY InvNext DEF RefInv
<1>2. CASE UNCHANGED vars
  <2>1. EventsTyped'
    BY <1>2 DEF RefInv, EventsTyped, vars
  <2>2. ASSUME NEW r \in Requests
        PROVE  Decided(r)'
    <3>1. \A q \in Requests \ {r} : task'[q] = task[q]
      BY <1>2 DEF vars
    <3>. QED
      BY <1>2, <3>1, QuietStep DEF vars
  <2>. QED
    BY <1>1, <2>1, <2>2 DEF RefInv
<1>3. CASE Next
  <2>1. PICK r \in Requests :
          \/ Execute(r) \/ ReadVersion(r) \/ ReadPreviousHash(r) \/ TakeSequence(r)
          \/ Insert(r) \/ ReportConflict(r) \/ Reply(r) \/ Crash(r)
    BY <1>3 DEF Next
  <2>2. EventsTyped' /\ \A q \in Requests : Decided(q)'
    BY <2>1, ExecuteDecides, BetweenKeeps, InsertKeeps
  <2>. QED
    BY <1>1, <2>2 DEF RefInv
<1>. QED
  BY <1>2, <1>3

(* What a request holds was decided on the first events of its stream.     *)
THEOREM RefInvariance == Spec => []RefInv
<1>1. Init => RefInv
  BY RefInit
<1>2. RefInv /\ [Next]_vars => RefInv'
  BY RefInvNext
<1>. QED
  BY <1>1, <1>2, PTL DEF Spec

-----------------------------------------------------------------------------
(* The streams.                                                            *)
Streams == [a \in Aggregates |-> Stream(a)]

(* Every step is a step of the ledger, or leaves it as it was.             *)
LEMMA StepIsRecord ==
  ASSUME RefInv, [Next]_vars
  PROVE  [L!Next]_Streams
<1>1. CASE store' = store
  <2>1. \A a : Stream(a)' = Stream(a)
    BY <1>1 DEF Stream, DocsOf
  <2>. QED
    BY <2>1 DEF Streams
<1>2. CASE store' # store
  <2>1. PICK r \in Requests : Insert(r) /\ ~Duplicate(Document(r))
    <3>1. PICK r \in Requests :
          \/ Execute(r) \/ ReadVersion(r) \/ ReadPreviousHash(r) \/ TakeSequence(r)
          \/ Insert(r) \/ ReportConflict(r) \/ Reply(r) \/ Crash(r)
      BY <1>2 DEF Next, vars
    <3>2. Insert(r)
      BY <1>2, <3>1 DEF Execute, ReadVersion, ReadPreviousHash, TakeSequence,
                        ReportConflict, Reply, Crash
    <3>. QED
      BY <1>2, <3>2 DEF Insert
  <2>2. PICK a, event, s : a = task[r].agg /\ event = task[r].event /\ s = Stream(a)
    OBVIOUS
  <2>3. /\ a \in Aggregates /\ Len(s) < Cardinality(Requests)
        /\ Stream(a)' = Append(s, event)
        /\ \A b : b # a => Stream(b)' = Stream(b)
    BY <2>1, <2>2, InsertAppends
  <2>4. PICK c \in Commands, at \in Times :
          InOrder(Replay(s), at) /\ event \in Decide(Replay(s), c, at)
    BY <2>1, <2>2, InsertAppends
  <2>5. L!InOrder(L!Replay(s), at) /\ event \in L!Decide(L!Replay(s), c, at)
    BY <2>4, SameReplay, SameDecide DEF InOrder, L!InOrder
  <2>6. Streams' = [Streams EXCEPT ![a] = Append(Streams[a], event)] /\ Streams[a] = s
    BY <2>2, <2>3 DEF Streams
  <2>7. L!Record(a, c, at)
    BY <2>3, <2>5, <2>6 DEF L!Record, Streams
  <2>. QED
    BY <2>3, <2>7 DEF L!Next
<1>. QED
  BY <1>1, <1>2

LEMMA SameLedger ==
  (Abstract!Init <=> L!Init) /\ (Abstract!Next <=> L!Next)
<1>1. Abstract!Init <=> L!Init
  BY DEF Abstract!Init, L!Init
<1>2. \A events : Abstract!Replay(events) = L!Replay(events)
  BY DEF L!InitialShipment, L!Replay, L!ReplayFrom,
       L!ApplyEvent, L!Created, L!Moved, L!Sampled, L!Amended, L!Planned,
       L!Revised, L!Extended, L!Flagged, L!ConfirmStage, L!Or,
       L!PlannedDate, L!MovementEvents, L!ConfirmingEvent, L!Stages, L!ReachedState,
       Abstract!InitialShipment, Abstract!Replay, Abstract!ReplayFrom,
       Abstract!ApplyEvent, Abstract!Created, Abstract!Moved, Abstract!Sampled,
       Abstract!Amended, Abstract!Planned, Abstract!Revised, Abstract!Extended,
       Abstract!Flagged, Abstract!ConfirmStage, Abstract!Or, Abstract!PlannedDate,
       Abstract!MovementEvents, Abstract!ConfirmingEvent, Abstract!Stages,
       Abstract!ReachedState
<1>3. \A s, c, at : Abstract!Decide(s, c, at) = L!Decide(s, c, at)
  BY DEF L!Decide, L!Create, L!Move, L!RecordTemperature, L!Amend,
       L!PlanSchedule, L!ReviseSchedule, L!ExtendSchedule, L!Archive,
       L!Restore, L!Active, L!Exists, L!Event, L!PairOf, L!PlannedDate,
       L!RequiredState, L!ConfirmingEvent, L!DayOf, L!IsBreach,
       L!WholeRange, L!Or, L!ValidPlannedDates, L!KeepsConfirmedDates,
       L!WindowOpens, L!WindowCloses, L!Normalised, L!ExtendedPlan,
       L!ExtendedDays, L!StageRank, L!Stages, L!LastStage,
       Abstract!Decide, Abstract!Create, Abstract!Move, Abstract!RecordTemperature,
       Abstract!Amend, Abstract!PlanSchedule, Abstract!ReviseSchedule,
       Abstract!ExtendSchedule, Abstract!Archive, Abstract!Restore, Abstract!Active,
       Abstract!Exists, Abstract!Event, Abstract!PairOf, Abstract!PlannedDate,
       Abstract!RequiredState, Abstract!ConfirmingEvent, Abstract!DayOf,
       Abstract!IsBreach, Abstract!WholeRange, Abstract!Or,
       Abstract!ValidPlannedDates, Abstract!KeepsConfirmedDates,
       Abstract!WindowOpens, Abstract!WindowCloses, Abstract!Normalised,
       Abstract!ExtendedPlan, Abstract!ExtendedDays, Abstract!StageRank,
       Abstract!Stages, Abstract!LastStage
<1>4. \A a, c, at : Abstract!Record(a, c, at) <=> L!Record(a, c, at)
  BY <1>2, <1>3 DEF Abstract!Record, L!Record, Abstract!InOrder, L!InOrder
<1>. QED
  BY <1>1, <1>4 DEF Abstract!Next, L!Next

(* Nothing recorded is an empty ledger.                                    *)
LEMMA InitIsEmptyLedger ==
  ASSUME Init
  PROVE  L!Init
<1>. SUFFICES ASSUME NEW a \in Aggregates PROVE Stream(a) = <<>>
  BY DEF L!Init
<1>1. DocsOf(a) = {}
  BY DEF Init, DocsOf
<1>2. Cardinality({}) = 0
  BY FS_EmptySet
<1>. QED
  BY <1>1, <1>2 DEF Stream

(* The concurrent, crashing write path does what the atomic ledger does:   *)
(* however requests interleave or fail, every recorded event was decided on*)
(* exactly the events before it, and this for any query limit: a stream    *)
(* longer than one query returns takes no more events                      *)
(* (commandService.execute, eventStoreRepository.append).                  *)
THEOREM ServiceIsLedger == Spec => ImplementsLedger
<1>1. Init => Abstract!Init
  BY InitIsEmptyLedger, SameLedger
<1>2. RefInv /\ [Next]_vars => [Abstract!Next]_[a \in Aggregates |-> Stream(a)]
  BY StepIsRecord, SameLedger DEF Streams
<1>. QED
  BY <1>1, <1>2, RefInvariance, PTL DEF Spec, ImplementsLedger, Abstract!Spec

(* The same, of the ledger whose theorems are at hand.                     *)
LEMMA StreamsAreALedger == Spec => L!Spec
<1>1. Init => L!Init
  BY InitIsEmptyLedger
<1>2. RefInv /\ [Next]_vars => [L!Next]_[a \in Aggregates |-> Stream(a)]
  BY StepIsRecord DEF Streams
<1>. QED
  BY <1>1, <1>2, RefInvariance, PTL DEF Spec, L!Spec

(* The rules of the domain survive the concurrency: what the stored events *)
(* of any shipment fold to keeps, at every moment of every interleaving,   *)
(* each rule that a shipment handling its commands one by one keeps        *)
(* (shipmentAggregate.handle, shipmentReducer.replay).                     *)
THEOREM RulesSurviveConcurrency ==
  ASSUME Aggregate \in Aggregates
  PROVE  Spec => /\ []L!One!TypeOK /\ []L!One!LifecycleOrder /\ []L!One!PlanFitsWindow
                 /\ []L!One!OriginalsAgree /\ []L!One!ConfirmedAgainstPlan
                 /\ []L!One!GrowthIsBooked /\ []L!One!RangeIsWhole
                 /\ []L!One!CalendarIsSound
                 /\ L!One!HistoryIsFrozen
<1>1. L!Spec => /\ []L!One!TypeOK /\ []L!One!LifecycleOrder /\ []L!One!PlanFitsWindow
                /\ []L!One!OriginalsAgree /\ []L!One!ConfirmedAgainstPlan
                /\ []L!One!GrowthIsBooked /\ []L!One!RangeIsWhole
                /\ []L!One!CalendarIsSound
                /\ L!One!HistoryIsFrozen
  BY LedgerAssumptions, DomainAssumption, L!StreamsKeepTheRules
<1>. QED
  BY <1>1, StreamsAreALedger

(* So does time travel: the stored events at or before an instant are the  *)
(* first ones of their stream, and the reducer does not refuse them        *)
(* (replayEngine.replayUntil).                                             *)
THEOREM TimeTravelSurvivesConcurrency == Spec => []L!TimeTravelIsPrefix
<1>1. L!Spec => []L!TimeTravelIsPrefix
  BY LedgerAssumptions, DomainAssumption, L!TimeTravelIsSound
<1>. QED
  BY <1>1, StreamsAreALedger
=============================================================================
