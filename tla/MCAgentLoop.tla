---------------------------- MODULE MCAgentLoop ----------------------------
(* Plans of two titles for model-checking AgentLoop.                       *)
EXTENDS AgentLoop

CONSTANTS g, h

\* An empty plan, a single goal, and two goals in either order.
SomePlans == {<<>>, <<g>>, <<h>>, <<g, h>>, <<h, g>>}

\* One plan of two goals.
TwoGoals == {<<g, h>>}
=============================================================================
