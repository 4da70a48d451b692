-------------------------- MODULE MCShipmentQueries --------------------------
(***************************************************************************)
(* Two shipments over two days, one page entry at a time: a plan for these *)
(* days, a revision of one stage, extensions, movements on any day, a      *)
(* reading outside the declared range, archival.                           *)
(***************************************************************************)
EXTENDS ShipmentQueries

LOCAL INSTANCE TLC

Proposed(arrival) ==
  {p \in Proposals : /\ p["LOAD_ON_SHIP"].date = 0
                     /\ p["ARRIVE_AT_PORT"].date = arrival
                     /\ p["UNLOAD_FROM_SHIP"].date = 1}

QueryCommands ==
  [kind : {"create"}, origin : Places, structured : {FALSE}, days : {1},
   minT : {1}, maxT : {1}]
  \cup [kind : {"move"}, stage : {"LOAD_ON_SHIP", "ARRIVE_AT_PORT"}, location : Places]
  \cup [kind : {"temperature"}, value : {2}]
  \cup [kind : {"plan"}, proposal : Proposed(0)]
  \cup [kind : {"revise"}, proposal : Proposed(1)]
  \cup [kind : {"extend"}, stage : {"ARRIVE_AT_PORT"}, days : {1}]
  \cup ArchiveCommands

QueryTimes == 0 .. 1
QueryTemps == 1 .. 2
QueryDates == 0 .. 1
Symmetry == Permutations(Aggregates)
=============================================================================
