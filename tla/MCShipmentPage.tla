--------------------------- MODULE MCShipmentPage ---------------------------
(***************************************************************************)
(* The page; the configurations give its bounds.                           *)
(***************************************************************************)
EXTENDS ShipmentPage
=============================================================================
