---------------------------- MODULE GoalPlanning ----------------------------
(***************************************************************************)
(* The planner and the dependency graph beside the goal manager: what was  *)
(* planned is among what callers add, and the graph is asked about the     *)
(* goals the repository comes to hold (goals/goal_planner.py).             *)
(***************************************************************************)
EXTENDS GoalManager, GoalGraph

CONSTANT Objectives      \* what a caller may ask the planner to plan: lines of words

Planned == UNION {ToSet(plan_goals(o)) : o \in Objectives}
ASSUME ObjectivesAssumption == Objectives \subseteq Seq(Seq(Nat))
ASSUME PlannedAssumption == Planned \subseteq Offered

-----------------------------------------------------------------------------
(***************************************************************************)
(* Properties.                                                             *)
(***************************************************************************)
\* All that a goal depends on, directly or through others.
IsClosed(adj, S) == \A id \in S : Inside(adj, id) \subseteq S
Below(adj, id) ==
  {b \in DOMAIN adj : \A S \in SUBSET DOMAIN adj : Inside(adj, id) \subseteq S /\ IsClosed(adj, S) => b \in S}

IsCycle(adj, cycle) ==
  /\ Len(cycle) > 1 /\ cycle[1] = Last(cycle)
  /\ \A i \in 1..(Len(cycle) - 1) : cycle[i + 1] \in Inside(adj, cycle[i])
CyclesFound(adj, cycle) ==
  /\ (cycle # <<>>) = \E id \in DOMAIN adj : id \in Below(adj, id)
  /\ cycle = <<>> \/ IsCycle(adj, cycle)
OrderFollows(adj, order) ==
  /\ Len(order) = Cardinality(DOMAIN adj) /\ ToSet(order) = DOMAIN adj
  /\ \A i, j \in DOMAIN order : order[j] \in Inside(adj, order[i]) => j < i
DepthsBounded(adj, depth, cyclic) ==
  \A id \in DOMAIN adj :
    /\ (depth[id] > 0) = (Inside(adj, id) # {})
    /\ depth[id] <= Cardinality(Below(adj, id) \cup (IF cyclic THEN {id} ELSE {}))
SomethingIsUnblocked(adj, goals) ==
  \/ \E id \in DOMAIN adj : ~(ToSet(adj[id]) \subseteq DOMAIN adj)
  \/ \A id \in DOMAIN adj : Settled(goals, id)
  \/ \E id \in get_unblocked(goals) : ~Settled(goals, id)
PlansAreSound ==
  \A o \in Objectives :
    /\ validate_backlog(plan_goals(o)) \subseteq {"empty"}
    /\ \A i \in DOMAIN Split(o) : Untitled(Split(o)[i]) \/ \E g \in ToSet(plan_goals(o)) : g.title = Split(o)[i]

\* The repository's goals in the order of their ids.
AsListed(goals) ==
  LET key == [g \in goals |-> <<IF g.id[1] = "goal" THEN 0 ELSE 1>> \o g.id[2]]
  IN InOrder(goals, [g \in goals |-> {h \in goals : Before(key[h], key[g])}])

\* The dependency graph answers as the relation it is built from does, over whatever
\* goals the repository comes to hold: a cycle is found exactly when there is one and is
\* one; without one the order is complete and lets no goal go before what it depends
\* on, no depth is more than what there is below, and as long as a goal is open one is not
\* blocked; and what the planner plans names every part of the objective once, so that it
\* passes the backlog's own validation.
PlanningIsSound ==
  LET goals == AsListed(repository)
      adj == Adj(goals)
      cycle == find_cycle(goals)
      depth == [id \in DOMAIN adj |-> dependency_depth(goals, id)]
  IN /\ CyclesFound(adj, cycle) /\ DepthsBounded(adj, depth, cycle # <<>>)
     /\ cycle = <<>> => OrderFollows(adj, topological_sort(goals)) /\ SomethingIsUnblocked(adj, goals)
     /\ PlansAreSound
=============================================================================
