-------------------------- MODULE MCAutonomyQueue --------------------------
(* The instance AutonomyQueue is checked with is all in its configuration. *)
(* (No symmetry: it is unsound for the liveness property.)                 *)
EXTENDS AutonomyQueue

=============================================================================
