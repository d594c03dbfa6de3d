------------------------ MODULE MCSimulationCommands ------------------------
(* Instances of SimulationCommands for TLC. *)
EXTENDS SimulationCommands
=============================================================================
