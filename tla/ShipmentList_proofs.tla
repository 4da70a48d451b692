------------------------- MODULE ShipmentList_proofs -------------------------
(***************************************************************************)
(* The list of shipments: what a wait that ended caught up promises, and   *)
(* that a list is never replaced by an older one, for any number of events,*)
(* waits, polls, failures and things the user does.                        *)
(*                                                                         *)
(* The argument for the promise follows the checkpoint.  The worker is done*)
(* with every event up to it; a status call that finds no lag compared the *)
(* newest event with a checkpoint read before, so everything recorded when *)
(* the wait began is behind the checkpoint; and the requests still under   *)
(* way when the promise is made no longer count.                           *)
(***************************************************************************)
EXTENDS ShipmentList, Integers, TLAPS

Phases == {"sent", "answered", "failed"}

Requests == [by : {"effect", "refetch"}, newest : BOOLEAN, phase : Phases, data : SUBSET Nat]

Calls == [phase : {"none", "reading", "answered"}, from : Nat, behind : Int]

Waits == [since : Nat, attempt : Nat, phase : {"none", "waiting", "polling"}, call : Calls]

Types ==
  /\ recorded \in Nat /\ position \in Nat /\ checkpoint \in Nat
  /\ projected \in SUBSET Nat /\ buried \in SUBSET Nat
  /\ requests \in SUBSET Requests
  /\ list \in [status : {"idle", "loading", "success", "error"}, data : SUBSET Nat]
  /\ sync \in [Syncs -> Waits]
  /\ promised \in Nat

Done(n) == (1 .. n) \subseteq projected \cup buried

(* The worker is done with what it has passed.                             *)
WorkerInv ==
  /\ checkpoint <= position /\ position <= recorded
  /\ Done(position)

(* What a status call was told is no newer than the checkpoint.            *)
CallInv(s) ==
  /\ sync[s].since <= recorded
  /\ sync[s].call.phase = "reading" => sync[s].call.from <= checkpoint
  /\ sync[s].call.phase = "answered" /\ sync[s].call.behind <= 0 =>
       sync[s].since <= checkpoint

WaitInv == promised <= checkpoint /\ \A s \in Syncs : CallInv(s)

Reflects(data) == (1 .. promised) \ buried \subseteq data

(* The page says that it synchronises only while it waits, and each wait   *)
(* has polls left.                                                         *)
SettlingInv ==
  /\ settling => \E s \in Syncs : sync[s].phase # "none"
  /\ \A s \in Syncs : sync[s].attempt < MaxAttempts

(* The list, and the answer that is to replace it.                         *)
ListInv ==
  /\ list.status = "success" => Reflects(list.data)
  /\ list.data \subseteq projected
  /\ \A r \in requests : r.newest /\ r.phase = "answered" =>
       Reflects(r.data) /\ list.data \subseteq r.data /\ r.data \subseteq projected
  /\ \A r1, r2 \in requests : r1.newest /\ r2.newest => r1 = r2

IInv == Types /\ WorkerInv /\ WaitInv /\ ListInv /\ SettlingInv

Step == [Next]_vars
-----------------------------------------------------------------------------
(* Steps that leave parts of the state alone.                              *)

LEMMA ServerKept ==
  ASSUME WorkerInv, UNCHANGED serverVars
  PROVE  WorkerInv'
  BY DEF WorkerInv, Done, serverVars, workerVars

LEMMA WaitKept ==
  ASSUME Types, WaitInv, UNCHANGED <<serverVars, sync, promised>>
  PROVE  WaitInv'
  BY DEF Types, WaitInv, CallInv, serverVars, workerVars

LEMMA ListKept ==
  ASSUME ListInv, UNCHANGED <<serverVars, list, requests, promised>>
  PROVE  ListInv'
  BY DEF ListInv, Reflects, serverVars, workerVars

LEMMA OutdatedType ==
  ASSUME NEW rs \in SUBSET Requests
  PROVE  \A q \in Outdated(rs) : q \in Requests /\ ~q.newest
  <1> SUFFICES ASSUME NEW r \in rs
               PROVE  /\ [r EXCEPT !.newest = FALSE] \in Requests
                      /\ ~[r EXCEPT !.newest = FALSE].newest
    BY DEF Outdated
  <1>1. r \in Requests  OBVIOUS
  <1> QED  BY <1>1 DEF Requests

LEMMA SettlingKept ==
  ASSUME SettlingInv, UNCHANGED <<sync, settling>>
  PROVE  SettlingInv'
  BY DEF SettlingInv

(* Asking for the list anew, whatever the promise becomes.                 *)
LEMMA ReaskStep ==
  ASSUME Types, ListInv, Reask, UNCHANGED serverVars
  PROVE  /\ list' \in [status : {"idle", "loading", "success", "error"}, data : SUBSET Nat]
         /\ requests' \in SUBSET Requests
         /\ ListInv'
  <1>1. /\ list'.status = "loading" /\ list'.data = list.data
        /\ list' \in [status : {"idle", "loading", "success", "error"}, data : SUBSET Nat]
    BY DEF Reask, Loading, Types
  <1>2. Request("effect") \in Requests /\ Request("effect").phase = "sent"
    BY DEF Request, Requests, Phases
  <1>3. requests' \in SUBSET Requests
    BY <1>2, OutdatedType DEF Reask, Types
  <1>4. \A r \in requests' : r.newest => r = Request("effect")
    BY OutdatedType DEF Reask, Types
  <1>5. ListInv'
    BY <1>1, <1>2, <1>4 DEF ListInv, serverVars, workerVars
  <1> QED  BY <1>1, <1>3, <1>5

(* The server's steps.                                                     *)
LEMMA ServerStep ==
  ASSUME IInv, Record \/ Worker
  PROVE  /\ recorded' \in Nat /\ position' \in Nat /\ checkpoint' \in Nat
         /\ projected' \in SUBSET Nat /\ buried' \in SUBSET Nat
         /\ WorkerInv'
         /\ recorded <= recorded' /\ checkpoint <= checkpoint'
         /\ projected \subseteq projected' /\ buried \subseteq buried'
  <1> USE DEF IInv, Types, WorkerInv, Done
  <1>1. CASE Record  BY <1>1 DEF Record, workerVars
  <1>2. CASE Apply
    <2>1. PICK healed \in SUBSET buried :
             projected' = projected \cup {position + 1} \cup healed
      BY <1>2 DEF Apply
    <2>2. \A n \in 1 .. position' : n \in 1 .. position \/ n = position + 1
      BY <1>2 DEF Apply
    <2> QED  BY <1>2, <2>1, <2>2 DEF Apply
  <1>3. CASE Bury
    <2>1. \A n \in 1 .. position' : n \in 1 .. position \/ n = position + 1
      BY <1>3 DEF Bury
    <2> QED  BY <1>3, <2>1 DEF Bury
  <1>4. CASE SaveCheckpoint  BY <1>4 DEF SaveCheckpoint
  <1>5. CASE Restart  BY <1>5 DEF Restart
  <1> QED  BY <1>1, <1>2, <1>3, <1>4, <1>5 DEF Worker

(* Beside them the page's part of the invariant stays.                     *)
LEMMA PageBesideServer ==
  ASSUME IInv, Record \/ Worker, UNCHANGED <<list, requests, sync, settling, promised>>
  PROVE  IInv'
  <1>1. /\ recorded' \in Nat /\ position' \in Nat /\ checkpoint' \in Nat
        /\ projected' \in SUBSET Nat /\ buried' \in SUBSET Nat
        /\ WorkerInv'
        /\ recorded <= recorded' /\ checkpoint <= checkpoint'
        /\ projected \subseteq projected' /\ buried \subseteq buried'
    BY ServerStep
  <1>2. Types'  BY <1>1 DEF IInv, Types
  <1>3. WaitInv'
    <2> SUFFICES ASSUME NEW s \in Syncs PROVE CallInv(s)'
      BY <1>1 DEF IInv, Types, WaitInv
    <2>1. CallInv(s) /\ sync[s] \in Waits /\ sync[s].call \in Calls
      BY DEF IInv, Types, WaitInv, Waits
    <2> QED  BY <1>1, <2>1 DEF CallInv, Waits, Calls, IInv, Types
  <1>4. ListInv'
    <2>1. \A data : Reflects(data) => Reflects(data)'
      BY <1>1 DEF Reflects
    <2> QED  BY <1>1, <2>1 DEF IInv, ListInv
  <1> QED  BY <1>1, <1>2, <1>3, <1>4, SettlingKept DEF IInv

-----------------------------------------------------------------------------
LEMMA IInvInit == Init => IInv
  <1> SUFFICES ASSUME Init PROVE IInv
    OBVIOUS
  <1> USE DEF Init, ServerInit
  <1>1. Types
    BY DEF Types, Requests, Phases, Waits, Calls, Request, NoList, NoSync, NoCall
  <1>2. WorkerInv  BY DEF WorkerInv, Done
  <1>3. WaitInv  BY DEF WaitInv, CallInv, NoSync, NoCall
  <1>4. ListInv  BY DEF ListInv, Reflects, Request, NoList
  <1>5. SettlingInv  BY ListAssumption DEF SettlingInv, NoSync
  <1> QED  BY <1>1, <1>2, <1>3, <1>4, <1>5 DEF IInv

-----------------------------------------------------------------------------
(* The list and its requests.                                              *)

LEMMA AnswerStep ==
  ASSUME IInv, NEW r \in requests, Answer(r)
  PROVE  IInv'
  <1>1. r \in Requests  BY DEF IInv, Types
  <1>2. PICK reply \in {[r EXCEPT !.phase = "answered", !.data = projected],
                        [r EXCEPT !.phase = "failed"]} :
           requests' = (requests \ {r}) \cup {reply}
    BY DEF Answer
  <1>3. /\ reply \in Requests /\ reply.newest = r.newest
        /\ reply.phase = "answered" => reply.data = projected
    BY <1>1, <1>2 DEF Requests, Phases, IInv, Types
  <1>4. Types'
    BY <1>2, <1>3 DEF Answer, IInv, Types, serverVars, workerVars
  <1>5. WorkerInv' /\ WaitInv' /\ SettlingInv'
    BY ServerKept, WaitKept, SettlingKept DEF Answer, IInv
  <1>6. Reflects(projected)
    <2> SUFFICES ASSUME NEW n \in 1 .. promised, n \notin buried PROVE n \in projected
      BY DEF Reflects
    <2>1. n \in 1 .. position
      BY DEF IInv, Types, WorkerInv, WaitInv
    <2> QED  BY <2>1 DEF IInv, WorkerInv, Done
  <1>7. ListInv'
    <2>1. /\ list' = list /\ promised' = promised /\ buried' = buried /\ projected' = projected
      BY DEF Answer, serverVars, workerVars
    <2>2. (list.status = "success" => Reflects(list.data)) /\ list.data \subseteq projected
      BY DEF IInv, ListInv
    <2>3. ASSUME NEW q \in requests', q.newest, q.phase = "answered"
          PROVE  Reflects(q.data) /\ list.data \subseteq q.data /\ q.data \subseteq projected
      <3>1. CASE q = reply  BY <2>2, <2>3, <3>1, <1>3, <1>6
      <3>2. CASE q \in requests  BY <2>3, <3>2 DEF IInv, ListInv
      <3> QED  BY <1>2, <3>1, <3>2
    <2>4. ASSUME NEW q1 \in requests', NEW q2 \in requests', q1.newest, q2.newest
          PROVE  q1 = q2
      <3>1. \A q \in requests : q.newest /\ r.newest => q = r
        BY DEF IInv, ListInv
      <3>2. \A p, q \in requests : p.newest /\ q.newest => p = q
        BY DEF IInv, ListInv
      <3> QED  BY <1>2, <1>3, <2>4, <3>1, <3>2
    <2> QED  BY <2>1, <2>2, <2>3, <2>4 DEF ListInv, Reflects
  <1> QED  BY <1>4, <1>5, <1>7 DEF IInv

LEMMA DeliverStep ==
  ASSUME IInv, NEW r \in requests, Deliver(r)
  PROVE  IInv' /\ (list'.status = "success" => list.data \subseteq list'.data)
  <1>1. r \in Requests  BY DEF IInv, Types
  <1>2. WorkerInv' /\ WaitInv' /\ SettlingInv'
    BY ServerKept, WaitKept, SettlingKept DEF Deliver, IInv
  <1>3. /\ requests' = requests \ {r}
        /\ promised' = promised /\ buried' = buried /\ projected' = projected
    BY DEF Deliver, serverVars, workerVars
  <1>4. /\ ListInv' /\ (list'.status = "success" => list.data \subseteq list'.data)
        /\ list' \in [status : {"idle", "loading", "success", "error"}, data : SUBSET Nat]
    <2>1. CASE ~r.newest
      BY <1>3, <2>1 DEF Deliver, Current, IInv, ListInv, Reflects, Types
    <2>2. CASE r.newest
      <3>1. \A q \in requests' : ~q.newest
        BY <1>3, <2>2 DEF IInv, ListInv
      <3>2. CASE r.phase = "failed"
        <4>1. list' = [status |-> "error", data |-> {}]
          BY <2>2, <3>2 DEF Deliver, Current, NoList
        <4> QED  BY <1>3, <3>1, <4>1 DEF ListInv
      <3>3. CASE r.phase = "answered"
        <4>1. list' = [status |-> "success", data |-> r.data]
          BY <2>2, <3>3 DEF Deliver, Current
        <4>2. Reflects(r.data) /\ list.data \subseteq r.data /\ r.data \subseteq projected
          BY <2>2, <3>3 DEF IInv, ListInv
        <4> QED  BY <1>1, <1>3, <3>1, <4>1, <4>2 DEF ListInv, Reflects, Requests
      <3> QED  BY <1>1, <3>2, <3>3 DEF Deliver, Requests, Phases
    <2> QED  BY <1>1, <2>1, <2>2 DEF Requests
  <1>5. Types'
    BY <1>3, <1>4 DEF Deliver, IInv, Types, serverVars, workerVars
  <1> QED  BY <1>2, <1>4, <1>5 DEF IInv

LEMMA RefetchStep ==
  ASSUME IInv, Refetch
  PROVE  IInv' /\ list'.status # "success"
  <1>1. /\ list'.status = "loading" /\ list'.data = list.data
        /\ list' \in [status : {"idle", "loading", "success", "error"}, data : SUBSET Nat]
    BY DEF Refetch, Loading, IInv, Types
  <1>2. Request("refetch") \in Requests /\ Request("refetch").phase = "sent"
    BY DEF Request, Requests, Phases
  <1>3. requests' \in SUBSET Requests /\ \A q \in requests' : q.newest => q = Request("refetch")
    BY <1>2, OutdatedType DEF Refetch, IInv, Types
  <1>4. ListInv'
    BY <1>1, <1>2, <1>3 DEF Refetch, IInv, ListInv, serverVars, workerVars
  <1>5. Types' /\ WorkerInv' /\ WaitInv' /\ SettlingInv'
    BY <1>1, <1>3, ServerKept, WaitKept, SettlingKept DEF Refetch, IInv, Types, serverVars, workerVars
  <1> QED  BY <1>1, <1>4, <1>5 DEF IInv

-----------------------------------------------------------------------------
(* Mounting and leaving.                                                   *)

LEMMA LeaveStep ==
  ASSUME IInv, Leave
  PROVE  IInv' /\ list'.status # "success"
  <1>1. Types'
    BY DEF Leave, NoList, NoSync, NoCall, Waits, Calls, IInv, Types, serverVars, workerVars
  <1>2. WorkerInv'  BY ServerKept DEF Leave, IInv
  <1>3. WaitInv'
    BY DEF Leave, NoSync, NoCall, WaitInv, CallInv, IInv, Types, serverVars, workerVars
  <1>4. ListInv' /\ list'.status # "success"
    BY DEF Leave, NoList, ListInv
  <1>5. SettlingInv'
    BY ListAssumption DEF Leave, NoSync, SettlingInv
  <1> QED  BY <1>1, <1>2, <1>3, <1>4, <1>5 DEF IInv

LEMMA ReturnStep ==
  ASSUME IInv, Return
  PROVE  IInv' /\ list'.status # "success"
  <1>1. Types'
    BY DEF Return, NoList, Request, Requests, Phases, IInv, Types, serverVars, workerVars
  <1>2. WorkerInv' /\ WaitInv' /\ SettlingInv'
    BY ServerKept, WaitKept, SettlingKept DEF Return, IInv
  <1>3. ListInv' /\ list'.status # "success"
    BY DEF Return, NoList, Request, ListInv
  <1> QED  BY <1>1, <1>2, <1>3 DEF IInv

-----------------------------------------------------------------------------
(* Waits.                                                                  *)

LEMMA StartSyncStep ==
  ASSUME IInv, NEW s \in Syncs, StartSync(s), UNCHANGED <<serverVars, promised>>
  PROVE  IInv' /\ list'.status # "success"
  <1>1. sync' = [sync EXCEPT ![s] = NewSync]
    BY DEF StartSync
  <1>2. /\ list' \in [status : {"idle", "loading", "success", "error"}, data : SUBSET Nat]
        /\ requests' \in SUBSET Requests /\ ListInv'
    BY ReaskStep DEF StartSync, IInv
  <1>3. Types'
    <2>1. NewSync \in Waits
      BY DEF NewSync, NoCall, Calls, Waits, IInv, Types
    <2> QED  BY <1>1, <1>2, <2>1 DEF IInv, Types, serverVars, workerVars
  <1>4. WaitInv'
    BY <1>1 DEF NewSync, NoCall, WaitInv, CallInv, IInv, Types, serverVars, workerVars
  <1>5. WorkerInv' /\ list'.status # "success"
    BY ServerKept DEF StartSync, Reask, Loading, IInv, Types
  <1>6. SettlingInv'
    BY <1>1, ListAssumption DEF NewSync, SettlingInv, IInv, Types
  <1> QED  BY <1>2, <1>3, <1>4, <1>5, <1>6 DEF IInv

LEMMA FinishStep ==
  ASSUME IInv, NEW s \in Syncs, NEW caughtUp \in BOOLEAN, Finish(s, caughtUp),
         UNCHANGED serverVars, caughtUp => sync[s].since <= checkpoint
  PROVE  IInv' /\ list'.status # "success"
  <1>1. sync' = [sync EXCEPT ![s] = NoSync]
    BY DEF Finish
  <1>2. /\ list' \in [status : {"idle", "loading", "success", "error"}, data : SUBSET Nat]
        /\ requests' \in SUBSET Requests /\ ListInv'
    BY ReaskStep DEF Finish, IInv
  <1>3. promised' \in Nat /\ promised' <= checkpoint
    BY DEF Finish, Promise, IInv, Types, Waits, WaitInv
  <1>4. Types'
    BY <1>1, <1>2, <1>3 DEF NoSync, NoCall, Waits, Calls, IInv, Types, serverVars, workerVars
  <1>5. WaitInv'
    BY <1>1, <1>3 DEF NoSync, NoCall, WaitInv, CallInv, IInv, Types, serverVars, workerVars
  <1>6. WorkerInv' /\ list'.status # "success"
    BY ServerKept DEF Finish, Reask, Loading, IInv, Types
  <1>7. SettlingInv'
    BY <1>1, ListAssumption DEF Finish, NoSync, SettlingInv, IInv, Types
  <1> QED  BY <1>2, <1>4, <1>5, <1>6, <1>7 DEF IInv

LEMMA WaitStep ==
  ASSUME IInv, NEW s \in Syncs, Wait(s)
  PROVE  IInv' /\ (list' = list \/ list'.status # "success")
  <1>1. CallInv(s) /\ sync[s] \in Waits /\ sync[s].call \in Calls
    BY DEF IInv, WaitInv, Types, Waits
  <1>2. CASE Poll(s)
    <2>1. sync' = [sync EXCEPT ![s].phase = "polling", ![s].call = CheckpointRead]
      BY <1>2 DEF Poll
    <2>2. Types'
      <3>1. CheckpointRead \in Calls
        BY DEF CheckpointRead, Calls, IInv, Types
      <3>2. [sync[s] EXCEPT !.phase = "polling", !.call = CheckpointRead] \in Waits
        BY <1>1, <3>1 DEF Waits
      <3> QED  BY <1>2, <2>1, <3>2 DEF Poll, IInv, Types, serverVars, workerVars
    <2>3. WaitInv'
      BY <1>1, <1>2, <2>1 DEF Poll, CheckpointRead, NoCall, WaitInv, CallInv, Waits, Calls, IInv,
                              Types, serverVars, workerVars
    <2>4. SettlingInv'
      BY <1>2, <2>1 DEF Poll, SettlingInv, Waits, IInv, Types
    <2> QED  BY <1>2, <2>2, <2>3, <2>4, ServerKept, ListKept DEF Poll, IInv
  <1>3. CASE AnswerStatus(s)
    <2>1. /\ sync' = [sync EXCEPT ![s].call = StatusKnown(sync[s].call)]
          /\ sync[s].call.from <= checkpoint
      BY <1>1, <1>3 DEF AnswerStatus, CallInv
    <2>2. Types'
      <3>1. StatusKnown(sync[s].call) \in Calls
        BY <1>1 DEF StatusKnown, Lag, Calls, IInv, Types
      <3>2. [sync[s] EXCEPT !.call = StatusKnown(sync[s].call)] \in Waits
        BY <1>1, <3>1 DEF Waits
      <3> QED  BY <1>3, <2>1, <3>2 DEF AnswerStatus, IInv, Types, serverVars, workerVars
    <2>3. recorded - sync[s].call.from <= 0 => sync[s].since <= checkpoint
      BY <1>1, <2>1 DEF CallInv, Waits, Calls, IInv, Types
    <2>4. WaitInv'
      BY <1>1, <1>3, <2>1, <2>3 DEF AnswerStatus, StatusKnown, Lag, NoCall, WaitInv, CallInv,
                              Waits, Calls, IInv, Types, serverVars, workerVars
    <2>5. SettlingInv'
      BY <1>3, <2>1 DEF AnswerStatus, SettlingInv, Waits, IInv, Types
    <2> QED  BY <1>3, <2>2, <2>4, <2>5, ServerKept, ListKept DEF AnswerStatus, IInv
  <1>4. CASE CaughtUp(s)
    BY <1>1, <1>4, FinishStep DEF CaughtUp, Unchanged, CallInv
  <1>5. CASE TryAgain(s)
    <2>1. /\ sync' = [sync EXCEPT ![s].phase = "waiting", ![s].call = NoCall,
                                  ![s].attempt = sync[s].attempt + 1]
          /\ sync[s].attempt + 1 < MaxAttempts
          /\ UNCHANGED <<serverVars, list, requests, settling, promised>>
      BY <1>5 DEF TryAgain, Unchanged
    <2>2. Types'
      BY <1>1, <2>1 DEF NoCall, Waits, Calls, IInv, Types, serverVars, workerVars
    <2>3. WaitInv'
      BY <1>1, <2>1 DEF NoCall, WaitInv, CallInv, Waits, Calls, IInv, Types, serverVars, workerVars
    <2>4. SettlingInv'
      BY <2>1 DEF SettlingInv, Waits, IInv, Types
    <2> QED  BY <2>1, <2>2, <2>3, <2>4, ServerKept, ListKept DEF IInv
  <1>6. CASE GiveUp(s)
    BY <1>6, FinishStep DEF GiveUp, Unchanged
  <1> QED  BY <1>2, <1>3, <1>4, <1>5, <1>6 DEF Wait

-----------------------------------------------------------------------------
(* A step keeps the invariant, and the list shown does not lose an event.  *)
LEMMA StepKeeps ==
  ASSUME IInv, Step
  PROVE  IInv' /\ (list'.status = "success" => list.data \subseteq list'.data)
  <1>1. CASE RecordElsewhere \/ WorkerStep
    BY <1>1, PageBesideServer DEF RecordElsewhere, WorkerStep, pageVars
  <1>2. CASE AnswerAny
    <2>1. PICK r \in requests : Answer(r)  BY <1>2 DEF AnswerAny
    <2> QED  BY <2>1, AnswerStep DEF Answer
  <1>3. CASE DeliverAny
    BY <1>3, DeliverStep DEF DeliverAny
  <1>4. CASE Refetch \/ Leave \/ Return
    BY <1>4, RefetchStep, LeaveStep, ReturnStep
  <1>5. CASE Submit \/ Refuse \/ Fail \/ DismissConflict
    <2>1. UNCHANGED <<serverVars, list, requests, sync, settling, promised>>
      BY <1>5 DEF Submit, Refuse, Fail, DismissConflict
    <2>2. Types'  BY <2>1 DEF IInv, Types, serverVars, workerVars
    <2> QED  BY <2>1, <2>2, ServerKept, WaitKept, ListKept, SettlingKept DEF IInv
  <1>6. CASE Accept
    BY <1>6, PageBesideServer DEF Accept
  <1>7. CASE Succeed \/ Reload
    <2>1. /\ \E s \in Syncs : StartSync(s)
          /\ UNCHANGED <<serverVars, promised>>
      BY <1>7 DEF Succeed, Reload
    <2> QED  BY <2>1, StartSyncStep
  <1>8. CASE WaitAny
    BY <1>8, WaitStep DEF WaitAny
  <1>9. CASE UNCHANGED vars
    <2>1. UNCHANGED <<serverVars, list, requests, sync, settling, promised>>
      BY <1>9 DEF vars, pageVars
    <2>2. Types'  BY <2>1 DEF IInv, Types, serverVars, workerVars
    <2> QED  BY <2>1, <2>2, ServerKept, WaitKept, ListKept, SettlingKept DEF IInv
  <1> QED  BY <1>1, <1>2, <1>3, <1>4, <1>5, <1>6, <1>7, <1>8, <1>9 DEF Step, Next

(* The inductive invariant of the page and the worker behind it.           *)
THEOREM ListInvariance == Spec => []IInv
  <1>1. IInv /\ Step => IInv'  BY StepKeeps
  <1> QED  BY <1>1, IInvInit, PTL DEF Spec, Step

(* The page says that it synchronises only while a wait with polls left is *)
(* under way, and once one has ended because the worker caught up, every   *)
(* list shown as loaded reflects what was recorded before the wait began,  *)
(* but for what was set aside.                                             *)
THEOREM CaughtUpIsListed == Spec => []SyncIsTrue
  <1>1. IInv => SyncIsTrue
    BY DEF IInv, ListInv, Reflects, SettlingInv, SyncIsTrue
  <1> QED  BY <1>1, ListInvariance, PTL

(* A list shown is not replaced by an older one.                           *)
THEOREM ShownListsGrow == Spec => ListNeverGoesBack
  <1>1. IInv /\ [Next]_vars =>
          [list'.status = "success" => list.data \subseteq list'.data]_vars
    BY StepKeeps DEF Step
  <1> QED  BY <1>1, ListInvariance, PTL DEF Spec, ListNeverGoesBack
=============================================================================
