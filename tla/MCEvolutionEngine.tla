------------------------- MODULE MCEvolutionEngine -------------------------
(* Symmetry of the objectives, where all of them are always proposed:      *)
(* Proposed then is the same whatever Tests and Observability are.         *)
EXTENDS EvolutionEngine, TLC

\* Bound: stop() is left to the other run.
NotStopped == ~stopping

Symmetry == Permutations(Objectives)
=============================================================================
