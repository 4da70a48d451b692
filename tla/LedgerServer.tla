---------------------------- MODULE LedgerServer ----------------------------
(***************************************************************************)
(* The server as the overviews of the client see it: events numbered by    *)
(* their sequence, the worker that projects them and its checkpoint.       *)
(*                                                                         *)
(* Of the worker this keeps what ProjectionWorker establishes for one of   *)
(* them and appends that do not overtake each other: events are projected  *)
(* in order or set aside, and the checkpoint passes only those.            *)
(***************************************************************************)
EXTENDS Naturals

CONSTANTS
  MaxEvents,     \* bound on the events recorded
  MaxFailures    \* bound on the events set aside and the restarts

ASSUME ServerAssumption == MaxEvents \in Nat /\ MaxFailures \in Nat

VARIABLES
  recorded,      \* the sequence of the newest event
  projected,     \* the events that the read model reflects
  buried,        \* the events that were dead-lettered
  position,      \* the last event of the batch the worker is through with
  checkpoint,
  failures

workerVars == <<projected, buried, position, checkpoint, failures>>
serverVars == <<recorded, workerVars>>

ServerInit ==
  /\ recorded = 0 /\ projected = {} /\ buried = {}
  /\ position = 0 /\ checkpoint = 0 /\ failures = 0

Record ==
  /\ recorded < MaxEvents
  /\ recorded' = recorded + 1
  /\ UNCHANGED workerVars

(* An event that reveals a gap brings the missing ones of its shipment.    *)
Apply ==
  /\ position < recorded
  /\ position' = position + 1
  /\ \E healed \in SUBSET buried : projected' = projected \cup {position + 1} \cup healed
  /\ UNCHANGED <<recorded, buried, checkpoint, failures>>

(* Every attempt at an event failed.                                       *)
Bury ==
  /\ position < recorded /\ failures < MaxFailures
  /\ position' = position + 1 /\ failures' = failures + 1
  /\ buried' = buried \cup {position + 1}
  /\ UNCHANGED <<recorded, projected, checkpoint>>

SaveCheckpoint ==
  /\ checkpoint < position
  /\ checkpoint' = position
  /\ UNCHANGED <<recorded, projected, buried, position, failures>>

(* The process is restarted in the middle of a batch.                      *)
Restart ==
  /\ position # checkpoint /\ failures < MaxFailures
  /\ position' = checkpoint /\ failures' = failures + 1
  /\ UNCHANGED <<recorded, projected, buried, checkpoint>>

Worker == Apply \/ Bury \/ SaveCheckpoint \/ Restart

-----------------------------------------------------------------------------
(* The worker's status as it is asked for: the checkpoint is read, then the*)
(* newest sequence.  A call is one of these records; it is sent as its     *)
(* first read is done.                                                     *)

NoCall == [phase |-> "none", from |-> 0, behind |-> 0]

CheckpointRead == [phase |-> "reading", from |-> checkpoint, behind |-> 0]

Lag(from) == recorded - from

StatusKnown(call) == [phase |-> "answered", from |-> 0, behind |-> Lag(call.from)]
=============================================================================
