-------------------------- MODULE MCAutoImplement --------------------------
(* Change lists and symmetry for model-checking AutoImplement.             *)
EXTENDS AutoImplement, TLC

CONSTANTS a, n \* a tracked file and a new one

\* Edit the tracked file twice, edit it and create the new one, and a list whose
\* second item is invalid.
SomeProposals == {<<a, a>>, <<a, n>>, <<n, Malformed>>}

\* One shape of change list, where git failures multiply the behaviours.
OneProposal == {<<a>>}

Symmetry == Permutations(Runs)
=============================================================================
