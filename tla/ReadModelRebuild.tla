-------------------------- MODULE ReadModelRebuild --------------------------
(***************************************************************************)
(* The rebuild script, run once beside writers and workers: it lists the   *)
(* shipments, empties the read model, projects every stream again and      *)
(* moves the worker's checkpoint to the newest sequence it has read.       *)
(* The properties are those of ProjectionWorker, under this specification. *)
(***************************************************************************)
EXTENDS ProjectionWorker

VARIABLE rebuild

rebuildVars == <<vars, rebuild>>

RebuildInit ==
  /\ Init
  /\ rebuild = [phase |-> "listing", left |-> {}, agg |-> {}, next |-> <<>>,
                stored |-> 0, latest |-> 0]

ListAggregates ==
  /\ rebuild.phase = "listing"
  /\ rebuild' = [rebuild EXCEPT !.phase = "emptying",
                                !.left = {e.agg : e \in events}]
  /\ UNCHANGED vars

DeleteAll ==
  /\ rebuild.phase = "emptying"
  /\ readModel' = [a \in Aggregates |-> <<>>]
  /\ rebuild' = [rebuild EXCEPT !.phase = "reading"]
  /\ UNCHANGED <<storeVars, checkpoint, deadLetters, announced, worker, failures>>

(* One stream is read whole and replayed.                                  *)
ReadStream ==
  /\ rebuild.phase = "reading"
  /\ \E a \in rebuild.left :
       LET stream == {e \in events : e.agg = a}
       IN  rebuild' = [rebuild EXCEPT !.phase = "checking",
             !.left = @ \ {a}, !.agg = {a},
             !.next = Ascending({e.version : e \in stream}),
             !.latest = Max({rebuild.latest} \cup {e.seq : e \in stream})]
  /\ UNCHANGED vars

(* saveProjection: the lookup, then the write, as in the worker.           *)
CheckRebuilt ==
  /\ rebuild.phase = "checking"
  /\ \E a \in rebuild.agg :
       rebuild' = [rebuild EXCEPT !.phase = "writing",
                                  !.stored = Version(readModel[a])]
  /\ UNCHANGED vars

WriteRebuilt ==
  /\ rebuild.phase = "writing"
  /\ \E a \in rebuild.agg :
       readModel' =
         IF \/ rebuild.stored >= Version(rebuild.next)
            \/ /\ rebuild.stored > 0
               /\ Version(readModel[a]) >= Version(rebuild.next)
           THEN readModel
           ELSE [readModel EXCEPT ![a] = rebuild.next]
  /\ rebuild' = [rebuild EXCEPT !.phase = "reading", !.agg = {}, !.next = <<>>,
                                !.stored = 0]
  /\ UNCHANGED <<storeVars, checkpoint, deadLetters, announced, worker, failures>>

MoveCheckpoint ==
  /\ rebuild.phase = "reading" /\ rebuild.left = {}
  /\ checkpoint' = rebuild.latest
  /\ rebuild' = [rebuild EXCEPT !.phase = "done", !.latest = 0]
  /\ UNCHANGED <<storeVars, readModel, deadLetters, announced, worker, failures>>

Rebuild ==
  \/ ListAggregates \/ DeleteAll \/ ReadStream \/ CheckRebuilt \/ WriteRebuilt
  \/ MoveCheckpoint

RebuildNext == Rebuild \/ (Next /\ UNCHANGED rebuild)

RebuildSpec ==
  RebuildInit /\ [][RebuildNext]_rebuildVars

(* A projection is taken back to an older version by the emptying of the   *)
(* read model and otherwise only by a write, of a worker or of the script, *)
(* that found no document when it looked: the version guard stops every    *)
(* other one, whoever writes beside it.                                    *)
TakenBackKnowingly ==
  [][\A a \in Aggregates : Version(readModel'[a]) < Version(readModel[a]) =>
       \/ rebuild.phase = "emptying"
       \/ rebuild.phase = "writing" /\ rebuild.stored = 0 /\ rebuild.agg = {a}
       \/ \E w \in Workers : /\ worker[w].phase = "writing"
                             /\ worker[w].stored = 0
                             /\ Current(w).agg = a]_rebuildVars
=============================================================================
