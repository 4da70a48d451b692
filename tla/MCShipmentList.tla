--------------------------- MODULE MCShipmentList ---------------------------
(***************************************************************************)
(* The list; the configuration gives its bounds.  Waits differ in nothing. *)
(***************************************************************************)
EXTENDS ShipmentList, TLC

Symmetry == Permutations(Syncs)
=============================================================================
