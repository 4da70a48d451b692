------------------------ MODULE MCTemperatureMonitor ------------------------
(***************************************************************************)
(* Instances of TemperatureMonitor for TLC.  Processes are interchangeable.*)
(***************************************************************************)
EXTENDS TemperatureMonitor

LOCAL INSTANCE TLC

Symmetry == Permutations(Processes)
=============================================================================
