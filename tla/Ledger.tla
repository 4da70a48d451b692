------------------------------- MODULE Ledger -------------------------------
(***************************************************************************)
(* What the write side promises, with no concurrency in it: one stream of  *)
(* events per shipment, and a single atomic step that decides a command on *)
(* the state the whole stream folds to and appends the event.              *)
(* CommandService.tla is shown to implement it.                            *)
(***************************************************************************)
EXTENDS ShipmentDomain

CONSTANTS
  Aggregates,   \* shipment identifiers
  Commands,     \* commands clients may send
  Times,        \* instants at which events may be stamped
  MaxVersion    \* bound on the length of a stream

ASSUME LedgerAssumption ==
  /\ \A c \in Commands : c \in ValidCommands
  /\ Times \subseteq Int /\ MaxVersion \in Nat

VARIABLE log

Init == log = [a \in Aggregates |-> <<>>]

Record(a, c, at) ==
  LET state == Replay(log[a])
  IN  /\ Len(log[a]) < MaxVersion
      /\ InOrder(state, at)
      /\ \E event \in Decide(state, c, at) :
           log' = [log EXCEPT ![a] = Append(@, event)]

Next == \E a \in Aggregates, c \in Commands, at \in Times : Record(a, c, at)

Spec == Init /\ [][Next]_log

-----------------------------------------------------------------------------
(* The store can be read back: every stream is a sequence of well-formed   *)
(* events that the reducer does not refuse.                                *)
TypeOK ==
  /\ log \in [Aggregates -> Seq(EventRecords)]
  /\ \A a \in Aggregates : Replayable(log[a])

(* Time travel is sound: for every instant, the events at or before it are *)
(* a prefix of the stream, so the historical query folds a state that      *)
(* really existed and replay never refuses it.                             *)
TimeTravelIsPrefix ==
  \A a \in Aggregates, instant \in Times :
    LET past == EventsUntil(log[a], instant)
    IN  /\ past = SubSeq(log[a], 1, Len(past))
        /\ Replayable(past)
=============================================================================
