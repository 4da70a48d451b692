----------------------------- MODULE MCShipment -----------------------------
(***************************************************************************)
(* One shipment over three days of two instants each.  Creation declares   *)
(* no temperature range or one; an amendment names one bound, a valid one  *)
(* or one beyond the other; any plan over three dates may be proposed, the *)
(* last of which lies beyond every window that was not extended.           *)
(***************************************************************************)
EXTENDS ShipmentCalendar

ShipmentTimes == {0, 3, 5}
ShipmentDates == {0, 2, 3}
ShipmentTemps == 1 .. 3

Creations ==
  [kind : {"create"}, origin : Places, structured : {FALSE}, days : {MaxDays},
   minT : {NULL}, maxT : {NULL}]
  \cup [kind : {"create"}, origin : Places, structured : {TRUE}, days : {1},
        minT : {1}, maxT : {2}]

Amendments ==
  [kind : {"amend"}, origin : {NULL}, structured : {FALSE},
   minT : {3}, maxT : {NULL}]
  \cup [kind : {"amend"}, origin : {NULL}, structured : {FALSE},
        minT : {NULL}, maxT : {3}]

ShipmentCommands ==
  Creations \cup Amendments \cup MoveCommands \cup [kind : {"temperature"}, value : {3}]
  \cup PlanCommands \cup ReviseCommands \cup ExtendCommands
  \cup ArchiveCommands \cup RestoreCommands
=============================================================================
