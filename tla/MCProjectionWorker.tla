------------------------- MODULE MCProjectionWorker -------------------------
(***************************************************************************)
(* Instances of ProjectionWorker for TLC.  Shipments are interchangeable,  *)
(* and so are worker processes; liveness runs use no symmetry.             *)
(***************************************************************************)
EXTENDS ProjectionWorker

LOCAL INSTANCE TLC

Symmetry == Permutations(Aggregates) \cup Permutations(Workers)
=============================================================================
