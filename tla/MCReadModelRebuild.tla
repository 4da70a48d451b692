------------------------- MODULE MCReadModelRebuild -------------------------
(***************************************************************************)
(* The rebuild script beside two workers and two writers.  States that     *)
(* differ only in what is kept for other properties, the announcements and *)
(* the overtaken events, count as one: no guard reads either.              *)
(***************************************************************************)
EXTENDS ReadModelRebuild

LOCAL INSTANCE TLC

Seen ==
  <<events, pending, counter, readModel, checkpoint, deadLetters, worker, failures, rebuild>>

Symmetry == Permutations(Aggregates) \cup Permutations(Workers)
=============================================================================
