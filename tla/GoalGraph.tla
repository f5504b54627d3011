------------------------------ MODULE GoalGraph ------------------------------
(***************************************************************************)
(* How the dependencies of goals are read: GoalDependencyGraph,            *)
(* GoalPrioritizer and the rule-based planner (goals/).                    *)
(***************************************************************************)
EXTENDS Goals

\* The members of a sequence at some of its places, and each where it is first.
Picked(s, places) ==
  LET at == InOrder(places, [i \in places |-> {j \in places : j < i}])
  IN [k \in DOMAIN at |-> s[at[k]]]
Once(s) == Picked(s, {i \in DOMAIN s : \A j \in 1..(i - 1) : s[j] # s[i]})

-----------------------------------------------------------------------------
(***************************************************************************)
(* GoalDependencyGraph, over a sequence of goals with distinct ids.        *)
(***************************************************************************)
Ids(goals) == {goals[i].id : i \in DOMAIN goals}
GoalOf(goals, id) == goals[CHOOSE i \in DOMAIN goals : goals[i].id = id]
Listed(goals, ids) ==
  LET found == Picked(goals, {i \in DOMAIN goals : goals[i].id \in ids})
  IN [k \in DOMAIN found |-> found[k].id]

\* _adj: what every goal names as its dependencies, and those of them that are goals.
Adj(goals) == [id \in Ids(goals) |-> GoalOf(goals, id).depends]
Inside(adj, id) == ToSet(adj[id]) \cap DOMAIN adj

\* dfs of has_cycle and find_cycle.  On the path are the grey nodes, the one looked at
\* last; next is its dependency to look at.  The cycle found ends with the node it
\* starts with.
dfs(adj) ==
  LET visit[s \in [path : Seq(DOMAIN adj) \ {<<>>}, next : Nat \ {0}, black : SUBSET DOMAIN adj]] ==
        LET node == Last(s.path)
            dep == adj[node][s.next]
            grey == {i \in DOMAIN s.path : s.path[i] = dep}
            below == visit[[path |-> Append(s.path, dep), next |-> 1, black |-> s.black]]
        IN IF s.next > Len(adj[node]) THEN [cycle |-> <<>>, black |-> s.black \cup {node}]
           ELSE IF dep \notin DOMAIN adj \/ dep \in s.black THEN visit[[s EXCEPT !.next = @ + 1]]
           ELSE IF grey # {}
                THEN [cycle |-> <<node>> \o SubSeq(s.path, Min(grey), Len(s.path)), black |-> s.black]
           ELSE IF below.cycle # <<>> THEN below
           ELSE visit[[s EXCEPT !.next = @ + 1, !.black = below.black]]
  IN visit
find_cycle(goals) ==
  LET visit == dfs(Adj(goals))
      searched[k \in 0..Len(goals)] ==
        IF k = 0 THEN [cycle |-> <<>>, black |-> {}]
        ELSE LET found == searched[k - 1]
             IN IF found.cycle # <<>> \/ goals[k].id \in found.black THEN found
                ELSE visit[[path |-> <<goals[k].id>>, next |-> 1, black |-> found.black]]
  IN searched[Len(goals)].cycle
has_cycle(goals) == find_cycle(goals) # <<>>

\* Where goals name one among their dependencies, once for every time they do.
get_dependents(goals, id) ==
  UNION {{<<i, k>> : k \in {n \in DOMAIN goals[i].depends : goals[i].depends[n] = id}} : i \in DOMAIN goals}

\* Mutant: a successor is queued as soon as one of its dependencies is done.
ReleasedEarly(degree, succ) == TRUE

\* topological_sort, Kahn's queue: a node is queued when its last dependency among
\* the goals leaves the queue.  One pass more than there are goals finds it empty.
Released(degree, succ) == degree[succ] = 0
Pass(goals, adj, s) ==
  LET node == Head(s.queue)
      times == [id \in DOMAIN adj |-> Cardinality({k \in DOMAIN adj[id] : adj[id][k] = node})]
      degree == [id \in DOMAIN adj |-> s.degree[id] - times[id]]
      freed == {id \in DOMAIN adj : times[id] > 0 /\ Released(degree, id)}
  IN IF s.queue = <<>> THEN s
     ELSE [queue |-> Tail(s.queue) \o Listed(goals, freed), degree |-> degree, order |-> Append(s.order, node)]
topological_sort(goals) ==
  LET adj == Adj(goals)
      degree == [id \in DOMAIN adj |-> Cardinality({k \in DOMAIN adj[id] : adj[id][k] \in DOMAIN adj})]
      free == {id \in DOMAIN adj : degree[id] = 0}
      passed[k \in 0..(Len(goals) + 1)] ==
        IF k = 0 THEN [queue |-> Listed(goals, free), degree |-> degree, order |-> <<>>]
        ELSE Pass(goals, adj, passed[k - 1])
  IN IF has_cycle(goals) THEN <<>> ELSE passed[Len(goals) + 1].order

\* get_unblocked, goals that are done already included.
Settled(goals, id) == GoalOf(goals, id).status \in {"done", "cancelled"}
get_unblocked(goals) ==
  {id \in Ids(goals) : \A d \in ToSet(GoalOf(goals, id).depends) : d \in Ids(goals) /\ Settled(goals, d)}

\* dfs of dependency_depth: a node seen before adds nothing, so that the depth may be
\* less than the longest chain.
deepen(adj) ==
  LET places == [node : DOMAIN adj, next : Nat \ {0}, depth : Nat, seen : SUBSET DOMAIN adj]
      visit[s \in {s \in places : s.node \in s.seen}] ==
        LET dep == adj[s.node][s.next]
            below == IF dep \in s.seen THEN [depth |-> 0, seen |-> s.seen]
                     ELSE visit[[node |-> dep, next |-> 1, depth |-> 0, seen |-> s.seen \cup {dep}]]
        IN IF s.next > Len(adj[s.node]) THEN [depth |-> s.depth, seen |-> s.seen]
           ELSE IF dep \notin DOMAIN adj THEN visit[[s EXCEPT !.next = @ + 1]]
           ELSE visit[[s EXCEPT !.next = @ + 1, !.depth = Max({@, 1 + below.depth}), !.seen = below.seen]]
  IN visit
dependency_depth(goals, id) == deepen(Adj(goals))[[node |-> id, next |-> 1, depth |-> 0, seen |-> {id}]].depth

\* GoalPrioritizer.prioritize; risk is the complexity.
prioritize(goals) ==
  LET key == [i \in DOMAIN goals |->
                <<goals[i].priority, -dependency_depth(goals, goals[i].id),
                  -Cardinality(get_dependents(goals, goals[i].id)), -goals[i].complexity, i>>]
      order == InOrder(DOMAIN goals, [i \in DOMAIN goals |-> {j \in DOMAIN goals : Before(key[j], key[i])}])
  IN [k \in DOMAIN order |-> goals[order[k]]]

\* validate_backlog: what is wrong with a list of goals.
validate_backlog(goals) ==
  {e \in {"empty", "cycle", "missing", "duplicate"} :
     CASE e = "empty" -> goals = <<>>
       [] e = "cycle" -> has_cycle(goals)
       [] e = "missing" -> \E i \in DOMAIN goals : ~(ToSet(goals[i].depends) \subseteq Ids(goals))
       [] e = "duplicate" -> \E i, j \in DOMAIN goals : i < j /\ goals[i].title = goals[j].title}

-----------------------------------------------------------------------------
(***************************************************************************)
(* GoalDecomposer and RuleBasedPlanningStrategy.  An objective is its      *)
(* lines; a line is the sequence of the parts between "and"s.              *)
(***************************************************************************)
\* _split_objective: the lines when there are two, else the parts of the one.
Split(objective) ==
  LET lines == Picked(objective, {i \in DOMAIN objective : objective[i] # <<>>})
  IN IF Len(lines) # 1 THEN lines ELSE [i \in DOMAIN lines[1] |-> <<lines[1][i]>>]

PlanGoal(title) ==
  [id |-> <<"plan", title>>, title |-> title, priority |-> 2, status |-> "todo", depends |-> <<>>,
   complexity |-> IF 9 \in ToSet(title) THEN 3 ELSE 2]

\* decompose: the id is a function of the title, which is kept once; word 9 stands for
\* the words that make a goal a large one.
decompose(objective) ==
  LET named == Picked(Split(objective), {i \in DOMAIN Split(objective) : ~Untitled(Split(objective)[i])})
      titles == Once(named)
  IN [i \in DOMAIN titles |-> PlanGoal(titles[i])]
plan_goals(objective) ==
  LET goals == decompose(objective)
  IN IF goals = <<>> \/ has_cycle(goals) THEN <<>> ELSE prioritize(goals)
=============================================================================
