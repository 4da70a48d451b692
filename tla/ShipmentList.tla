---------------------------- MODULE ShipmentList ----------------------------
(***************************************************************************)
(* The list of shipments in a browser.  It is served from the read model   *)
(* only, so after a command the page asks for the list at once, polls the  *)
(* worker's status, and asks again when the worker has caught up or when it*)
(* gives up waiting.                                                       *)
(*                                                                         *)
(* A list is the set of events that it reflects.  What it is narrowed to   *)
(* is left out: a change of it asks for the list as the end of a wait does.*)
(***************************************************************************)
EXTENDS LedgerServer

CONSTANTS
  Syncs,         \* waits for the worker that may be under way together
  MaxAttempts,   \* status polls after which a wait is given up
  MaxMoves       \* bound on what the user does

ASSUME ListAssumption == MaxAttempts \in Nat \ {0} /\ MaxMoves \in Nat

VARIABLES
  open,        \* whether the page is mounted
  list,        \* the list resource
  requests,    \* requests for it whose answer has not arrived
  command,     \* the command under way
  conflict,    \* whether the conflict dialog is up
  sync,        \* per wait, its state and its status call
  settling,    \* whether the page says that it is synchronising
  moves,
  promised     \* the newest event when a wait began that ended caught up

pageVars == <<open, list, requests, command, conflict, sync, settling, moves, promised>>
vars == <<serverVars, pageVars>>

-----------------------------------------------------------------------------
(* The list resource; it keeps what it showed while it asks again.         *)

NoList == [status |-> "idle", data |-> {}]

Request(by) == [by |-> by, newest |-> TRUE, phase |-> "sent", data |-> {}]

Outdated(rs) == {[r EXCEPT !.newest = FALSE] : r \in rs}

Loading == [list EXCEPT !.status = "loading"]

(* What the list depends on changed: the run that the last change started  *)
(* is aborted, one that was started by hand is only outdated.              *)
Reask ==
  /\ list' = Loading
  /\ requests' = Outdated({r \in requests : r.by = "refetch"}) \cup {Request("effect")}

NoSync == [since |-> 0, attempt |-> 0, phase |-> "none", call |-> NoCall]

NewSync == [since |-> recorded, attempt |-> 0, phase |-> "waiting", call |-> NoCall]

Init ==
  /\ ServerInit
  /\ open = TRUE /\ list = [NoList EXCEPT !.status = "loading"]
  /\ requests = {Request("effect")}
  /\ command = "none" /\ conflict = FALSE
  /\ sync = [s \in Syncs |-> NoSync] /\ settling = FALSE
  /\ moves = 0 /\ promised = 0

(* The server reads the list, or the call fails.                           *)
Answer(r) ==
  /\ r.phase = "sent"
  /\ \E reply \in {[r EXCEPT !.phase = "answered", !.data = projected],
                   [r EXCEPT !.phase = "failed"]} :
       requests' = (requests \ {r}) \cup {reply}
  /\ UNCHANGED <<serverVars, open, list, command, conflict, sync, settling, moves, promised>>

(* Mutant: whatever was not aborted is shown.                              *)
Anything(r) == TRUE

Current(r) == r.newest

Deliver(r) ==
  /\ r.phase # "sent"
  /\ requests' = requests \ {r}
  /\ list' = IF ~Current(r) THEN list
             ELSE IF r.phase = "failed" THEN [NoList EXCEPT !.status = "error"]
             ELSE [status |-> "success", data |-> r.data]
  /\ UNCHANGED <<serverVars, open, command, conflict, sync, settling, moves, promised>>

-----------------------------------------------------------------------------
(* The user.                                                               *)

Move == open /\ moves < MaxMoves /\ moves' = moves + 1

(* The refresh button, and the retry button of an error.                   *)
Refetch ==
  /\ Move
  /\ list' = Loading
  /\ requests' = Outdated(requests) \cup {Request("refetch")}
  /\ UNCHANGED <<serverVars, open, command, conflict, sync, settling, promised>>

(* The page is left: its requests are aborted, its waits come to nothing,  *)
(* and the answer to its command is not heard.  A creation that succeeds   *)
(* starts a wait and leaves for the page of the shipment in one step.      *)
Leave ==
  /\ Move
  /\ open' = FALSE /\ list' = NoList /\ requests' = {}
  /\ command' = "none" /\ conflict' = FALSE
  /\ sync' = [s \in Syncs |-> NoSync] /\ settling' = FALSE /\ promised' = 0
  /\ UNCHANGED serverVars

Return ==
  /\ ~open /\ open' = TRUE
  /\ list' = [NoList EXCEPT !.status = "loading"] /\ requests' = {Request("effect")}
  /\ UNCHANGED <<serverVars, command, conflict, sync, settling, moves, promised>>

(* One command at a time: an amendment, an archival, a restoration.        *)
Submit ==
  /\ Move /\ ~conflict /\ command = "none"
  /\ command' = "sent"
  /\ UNCHANGED <<serverVars, open, list, requests, conflict, sync, settling, promised>>

-----------------------------------------------------------------------------
(* Commands.                                                               *)

(* The server records it; the answer may be lost on its way.               *)
Accept ==
  /\ command = "sent" /\ Record
  /\ command' \in {"accepted", "error"}
  /\ UNCHANGED <<open, list, requests, conflict, sync, settling, moves, promised>>

(* It refuses, or the call fails.                                          *)
Refuse ==
  /\ command = "sent" /\ command' \in {"conflict", "error"}
  /\ UNCHANGED <<serverVars, open, list, requests, conflict, sync, settling, moves, promised>>

(* The list is asked for at once, and a wait for the worker begins.        *)
StartSync(s) ==
  /\ sync[s].phase = "none"
  /\ sync' = [sync EXCEPT ![s] = NewSync]
  /\ settling' = TRUE
  /\ Reask

Succeed ==
  /\ command = "accepted" /\ command' = "none"
  /\ \E s \in Syncs : StartSync(s)
  /\ UNCHANGED <<serverVars, open, conflict, moves, promised>>

Fail ==
  /\ command \in {"conflict", "error"} /\ command' = "none"
  /\ conflict' = (command = "conflict")
  /\ UNCHANGED <<serverVars, open, list, requests, sync, settling, moves, promised>>

(* The conflict dialog's two buttons.                                      *)
Reload ==
  /\ conflict /\ conflict' = FALSE
  /\ \E s \in Syncs : StartSync(s)
  /\ UNCHANGED <<serverVars, open, command, moves, promised>>

DismissConflict ==
  /\ conflict /\ conflict' = FALSE
  /\ UNCHANGED <<serverVars, open, list, requests, command, sync, settling, moves, promised>>

-----------------------------------------------------------------------------
(* Waiting for the worker.                                                 *)

Poll(s) ==
  /\ sync[s].phase = "waiting"
  /\ sync' = [sync EXCEPT ![s].phase = "polling", ![s].call = CheckpointRead]
  /\ UNCHANGED <<serverVars, open, list, requests, command, conflict, settling, moves, promised>>

AnswerStatus(s) ==
  /\ sync[s].call.phase = "reading"
  /\ sync' = [sync EXCEPT ![s].call = StatusKnown(sync[s].call)]
  /\ UNCHANGED <<serverVars, open, list, requests, command, conflict, settling, moves, promised>>

Promise(s, caughtUp) ==
  IF caughtUp /\ promised < sync[s].since THEN sync[s].since ELSE promised

(* Mutant: a wait that ends does not ask for the list again.               *)
FinishQuietly(s, caughtUp) ==
  /\ sync' = [sync EXCEPT ![s] = NoSync]
  /\ settling' = FALSE
  /\ promised' = Promise(s, caughtUp)
  /\ UNCHANGED <<list, requests>>

(* Either way the list is asked for once more.                             *)
Finish(s, caughtUp) ==
  /\ sync' = [sync EXCEPT ![s] = NoSync]
  /\ settling' = FALSE
  /\ promised' = Promise(s, caughtUp)
  /\ Reask

Unchanged == UNCHANGED <<serverVars, open, command, conflict, moves>>

CaughtUp(s) ==
  /\ sync[s].call.phase = "answered" /\ sync[s].call.behind <= 0
  /\ Finish(s, TRUE) /\ Unchanged

TryAgain(s) ==
  /\ sync[s].call.phase = "answered" /\ sync[s].call.behind > 0
  /\ sync[s].attempt + 1 < MaxAttempts
  /\ sync' = [sync EXCEPT ![s].phase = "waiting", ![s].call = NoCall,
                          ![s].attempt = sync[s].attempt + 1]
  /\ UNCHANGED <<list, requests, settling, promised>> /\ Unchanged

(* The last poll found the worker behind, or a poll failed.                *)
GiveUp(s) ==
  /\ sync[s].phase = "polling"
  /\ sync[s].call.phase = "answered" =>
       sync[s].call.behind > 0 /\ sync[s].attempt + 1 = MaxAttempts
  /\ Finish(s, FALSE) /\ Unchanged

Wait(s) == Poll(s) \/ AnswerStatus(s) \/ CaughtUp(s) \/ TryAgain(s) \/ GiveUp(s)

-----------------------------------------------------------------------------
RecordElsewhere == Record /\ UNCHANGED pageVars
WorkerStep == Worker /\ UNCHANGED pageVars
AnswerAny == \E r \in requests : Answer(r)
DeliverAny == \E r \in requests : Deliver(r)
WaitAny == \E s \in Syncs : Wait(s)

Next ==
  \/ RecordElsewhere \/ WorkerStep \/ AnswerAny \/ DeliverAny
  \/ Refetch \/ Leave \/ Return
  \/ Submit \/ Accept \/ Refuse \/ Succeed \/ Fail \/ Reload \/ DismissConflict
  \/ WaitAny

Spec == Init /\ [][Next]_vars

-----------------------------------------------------------------------------
(* Properties.                                                             *)

(* What the page says of synchronising is true: it says that it is only    *)
(* while it waits for the worker, which it does for a few polls at most;   *)
(* and once a wait has ended because the worker caught up, every list shown*)
(* as loaded reflects everything that was recorded before that wait began, *)
(* but for what the worker set aside, however waits, refreshes and their   *)
(* answers overlap.                                                        *)
SyncIsTrue ==
  /\ settling => \E s \in Syncs : sync[s].phase # "none" /\ sync[s].attempt < MaxAttempts
  /\ list.status = "success" => (1 .. promised) \ buried \subseteq list.data

(* A list shown is not replaced by an older one, whichever of the requests *)
(* under way is answered last.                                             *)
ListNeverGoesBack ==
  [][list'.status = "success" => list.data \subseteq list'.data]_vars
=============================================================================
