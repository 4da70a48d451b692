-------------------------- MODULE MCCommandService --------------------------
(***************************************************************************)
(* Requests race to create, load, archive and restore shipments.           *)
(***************************************************************************)
EXTENDS CommandService

LOCAL INSTANCE TLC

RaceCommands ==
  [kind : {"create"}, origin : Places, structured : {FALSE}, days : {1},
   minT : {NULL}, maxT : {NULL}]
  \cup [kind : {"move"}, stage : {"LOAD_ON_SHIP"}, location : Places]
  \cup ArchiveCommands

RaceTimes == {0, 1}
NoTemps == {}
NoDates == {}

RequestSymmetry == Permutations(Requests)
=============================================================================
