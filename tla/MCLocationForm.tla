--------------------------- MODULE MCLocationForm ---------------------------
(***************************************************************************)
(* A catalogue of a country with two states and two without any, one of    *)
(* them with no curated city; "port" is a city of two places.              *)
(***************************************************************************)
EXTENDS LocationForm

CONSTANTS India, Singapore, Monaco, TN, KL, port, town

States == [country \in Countries |-> IF country = India THEN {TN, KL} ELSE {}]

Cities == {<<India, TN, port>>, <<India, KL, town>>, <<Singapore, NULL, port>>}
=============================================================================
