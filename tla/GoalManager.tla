---------------------------- MODULE GoalManager ----------------------------
(***************************************************************************)
(* GoalManager over EngineeringMemoryGoalRepository and GoalEventBus       *)
(* (goals/goal_manager.py): every call changes the repository, forgets the *)
(* cached backlog and tells the handlers, which may raise; the backlog is  *)
(* rebuilt from the repository and from what the memory has recorded.      *)
(***************************************************************************)
EXTENDS Goals

CONSTANTS Offered,       \* the goals callers add, those they had planned among them
          Priorities,    \* the priorities a caller may ask for, not all of them valid
          Titles,        \* what the development sessions were about
          MaxRecords,    \* bound: the records the memory holds
          MaxCalls       \* bound: the calls of a run

\* The ids the merge makes are of its own namespace: whoever adds a goal under one of
\* them adds the goal of that title.
ASSUME OfferedAssumption ==
  /\ Offered \subseteq Goal
  /\ \A g \in Offered : g.id[1] = "goal" => g.id[2] = g.title
ASSUME TitlesAssumption == Titles \subseteq Seq(Nat)
ASSUME BoundsAssumption == MaxRecords \in Nat /\ MaxCalls \in Nat

VARIABLES repository,    \* _store: a set of goals with distinct ids
          backlog,       \* _backlog: a record [goals], goals is <<>> before the first
          cached,        \* whether _backlog is there
          memory,        \* the records, in order
          told,          \* the last event of every goal, other than progress: {<<id, event>>}
          stale,         \* a handler raised before the backlog was forgotten
          last,          \* the last call: what it was, whether it raised, what it answered
          calls          \* how many there have been
goalVars == <<repository, backlog, cached, memory, told, stale, last, calls>>

None == [id |-> <<"none">>]
Answer(call, raised) == [call |-> call, raised |-> raised, goal |-> <<"none">>, done |-> 0, total |-> 0]

-----------------------------------------------------------------------------
(***************************************************************************)
(* The repository and the bus.                                             *)
(***************************************************************************)
load(id) == IF \E g \in repository : g.id = id THEN CHOOSE g \in repository : g.id = id ELSE None
Saved(store, g) == {x \in store : x.id # g.id} \cup {g}
SaveAll(store, goals) == {x \in store : \A g \in goals : x.id # g.id} \cup goals

\* The repository's goals in order, each where those before it leave it.
Rank(g) == <<g.priority>> \o g.title
Sorted(goals) ==
  InOrder(goals, [g \in goals |-> {h \in goals : Before(Rank(h), Rank(g))}])
list(store) == Sorted(store)

Emitted(known, id, event) == {p \in known : p[1] # id} \cup {<<id, event>>}
EmitAll(known, goals) ==
  {p \in known : \A g \in goals : p[1] # g.id} \cup {<<g.id, "created">> : g \in goals}

-----------------------------------------------------------------------------
(***************************************************************************)
(* The backlog.                                                            *)
(***************************************************************************)
failed_count_to_priority(n) == CASE n >= 2 -> 0 [] n = 1 -> 1 [] OTHER -> 2

\* The titles the memory knows and no goal of the repository has: the first record of each.
Remembered ==
  {i \in DOMAIN memory :
     /\ \A g \in repository : g.title # memory[i].objective
     /\ \A k \in 1..(i - 1) : memory[k].objective # memory[i].objective}
Sessions(title) == {i \in DOMAIN memory : memory[i].objective = title}
Failed(title) == {i \in Sessions(title) : ~memory[i].success}

\* Mutant: a title whose last session succeeded counts as done.
LastDecides(title) ==
  [id |-> <<"goal", title>>, title |-> title, depends |-> <<>>, complexity |-> 2,
   priority |-> failed_count_to_priority(Cardinality(Failed(title))),
   status |-> IF memory[Max(Sessions(title))].success THEN "done" ELSE "todo"]
MemoryGoal(title) ==
  [id |-> <<"goal", title>>, title |-> title, depends |-> <<>>, complexity |-> 2,
   priority |-> failed_count_to_priority(Cardinality(Failed(title))),
   status |-> IF Failed(title) = {} THEN "done" ELSE "todo"]
MergedGoals(first) == {MemoryGoal(memory[i].objective) : i \in first}

\* A goal without a title or a description is no goal: one session that was recorded
\* without a diagnosis, the last of its title, makes the merge raise before anything is
\* saved.
MergeRaises ==
  \E i \in Remembered :
    LET title == memory[i].objective IN Untitled(title) \/ memory[Max(Sessions(title))].blank

\* create_backlog, of which a handler of "created" may raise after the goal of the n-th
\* record.
BuildFails(n) ==
  \/ /\ MergeRaises
     /\ n = 0
     /\ UNCHANGED <<repository, told, stale>>
  \/ /\ ~MergeRaises
     /\ n \in Remembered
     /\ repository' = SaveAll(repository, MergedGoals({i \in Remembered : i <= n}))
     /\ told' = EmitAll(told, MergedGoals({i \in Remembered : i <= n}))
     /\ stale' = (stale \/ cached)
\* Titles are kept once: the merge comes after what the repository lists, of which the
\* first of a title stays.
Deduped(goals) ==
  {g \in goals : \A h \in goals : h.title = g.title => ~Before(Rank(h), Rank(g))}
Built == Sorted(Deduped(repository) \cup MergedGoals(Remembered))
Build ==
  /\ ~MergeRaises
  /\ repository' = SaveAll(repository, MergedGoals(Remembered))
  /\ told' = EmitAll(told, MergedGoals(Remembered))
  /\ backlog' = Built
  /\ cached' = TRUE
  /\ stale' = FALSE

CreateBacklog == Build /\ last' = Answer("create_backlog", FALSE) /\ UNCHANGED memory
\* A raise leaves the backlog as it was.
CreateBacklogRaises ==
  /\ \E n \in 0..Len(memory) : BuildFails(n)
  /\ last' = Answer("create_backlog", TRUE)
  /\ UNCHANGED <<backlog, cached, memory>>

WithStatus(goals, status) == {i \in DOMAIN goals : goals[i].status = status}
FirstTodo(goals) ==
  LET todo == WithStatus(goals, "todo") IN IF todo = {} THEN <<"none">> ELSE goals[Min(todo)].id

Reuse == cached /\ UNCHANGED <<repository, backlog, cached, told, stale>>
NextGoal ==
  /\ \/ Reuse
     \/ ~cached /\ Build
  /\ last' = [Answer("next_goal", FALSE) EXCEPT !.goal = FirstTodo(backlog')]
  /\ UNCHANGED memory
\* progress() rebuilds a backlog that is empty, too.
Progress ==
  /\ \/ backlog # <<>> /\ Reuse
     \/ (~cached \/ backlog = <<>>) /\ Build
  /\ last' = [Answer("progress", FALSE) EXCEPT
                !.goal = FirstTodo(backlog'),
                !.done = Cardinality(WithStatus(backlog', "done")),
                !.total = Len(backlog')]
  /\ UNCHANGED memory
AskRaises ==
  /\ \/ ~cached /\ last' = Answer("next_goal", TRUE)
     \/ (~cached \/ backlog = <<>>) /\ last' = Answer("progress", TRUE)
  /\ \E n \in 0..Len(memory) : BuildFails(n)
  /\ UNCHANGED <<backlog, cached, memory>>

-----------------------------------------------------------------------------
(***************************************************************************)
(* The calls that change a goal.                                           *)
(***************************************************************************)
Invalidate == backlog' = <<>> /\ cached' = FALSE /\ stale' = FALSE

validate_goal(g) == \A e \in repository : e.id = g.id \/ e.title # g.title

\* Mutant: the handlers hear of the goal before it is saved.
AddAfterEmit(g) ==
  /\ GoalValid(g)
  /\ validate_goal(g)
  /\ told' = Emitted(told, g.id, "created")
  /\ \E raises \in BOOLEAN :
       /\ IF raises THEN stale' = (stale \/ cached) /\ UNCHANGED <<repository, backlog, cached>>
          ELSE Invalidate /\ repository' = Saved(repository, MakeGoal(g))
       /\ last' = Answer("add_goal", raises)
  /\ UNCHANGED memory
\* add_goal: the handlers hear of the goal before the backlog is forgotten.
AddGoal(g) ==
  /\ GoalValid(g)
  /\ validate_goal(g)
  /\ repository' = Saved(repository, MakeGoal(g))
  /\ told' = Emitted(told, g.id, "created")
  /\ \E raises \in BOOLEAN :
       /\ IF raises THEN stale' = (stale \/ cached) /\ UNCHANGED <<backlog, cached>>
          ELSE Invalidate
       /\ last' = Answer("add_goal", raises)
  /\ UNCHANGED memory
AddGoalRaises(g) ==
  /\ ~(GoalValid(g) /\ validate_goal(g))
  /\ last' = Answer("add_goal", TRUE)
  /\ UNCHANGED <<repository, backlog, cached, memory, told, stale>>

\* Mutant: a cached backlog outlives the change.
SettleKept(id, status, event, call) ==
  /\ load(id) # None
  /\ repository' = Saved(repository, Rebuilt(load(id), status, load(id).priority))
  /\ told' = Emitted(told, id, event)
  /\ \E raises \in BOOLEAN : last' = Answer(call, raises)
  /\ UNCHANGED <<memory, backlog, cached, stale>>
\* complete_goal and fail_goal.
Settle(id, status, event, call) ==
  /\ load(id) # None
  /\ repository' = Saved(repository, Rebuilt(load(id), status, load(id).priority))
  /\ Invalidate
  /\ told' = Emitted(told, id, event)
  /\ \E raises \in BOOLEAN : last' = Answer(call, raises)
  /\ UNCHANGED memory
CompleteGoal(id) == Settle(id, "done", "completed", "complete_goal")
FailGoal(id) == Settle(id, "blocked", "failed", "fail_goal")

\* reprioritize, which tells nobody.
Reprioritize(id, priority) ==
  /\ load(id) # None
  /\ IF priority \in 0..4
     THEN /\ repository' = Saved(repository, Rebuilt(load(id), load(id).status, priority))
          /\ Invalidate
     ELSE UNCHANGED <<repository, backlog, cached, stale>>
  /\ last' = Answer("reprioritize", priority \notin 0..4)
  /\ UNCHANGED <<memory, told>>

RemoveGoal(id) ==
  /\ load(id) # None
  /\ repository' = repository \ {load(id)}
  /\ Invalidate
  /\ told' = Emitted(told, id, "cancelled")
  /\ \E raises \in BOOLEAN : last' = Answer("remove_goal", raises)
  /\ UNCHANGED memory

\* update_progress: a completion that is no number of percents raises before anything
\* happens; one that is complete settles the goal, unless it is done or a handler of
\* the progress raises.
UpdateProgress(id, completion) ==
  /\ load(id) # None
  /\ \/ /\ completion = 100 /\ load(id).status # "done"
        /\ Settle(id, "done", "completed", "update_progress")
     \/ /\ \E raises \in BOOLEAN :
             /\ raises \/ (completion \in 0..100 /\ (completion < 100 \/ load(id).status = "done"))
             /\ last' = Answer("update_progress", raises)
        /\ UNCHANGED <<repository, backlog, cached, memory, told, stale>>

\* A session of the development pipeline is recorded (external: engineering memory).
Record(title, success, blank) ==
  /\ Len(memory) < MaxRecords
  /\ memory' = Append(memory, [objective |-> title, success |-> success, blank |-> blank])
  /\ last' = Answer("record", FALSE)
  /\ UNCHANGED <<repository, backlog, cached, told, stale>>

-----------------------------------------------------------------------------
GoalsInit ==
  /\ repository = {} /\ backlog = <<>> /\ cached = FALSE /\ stale = FALSE
  /\ memory = <<>> /\ told = {} /\ last = Answer("none", FALSE)
  /\ calls = 0

Call ==
  \/ \E g \in Offered : AddGoal(g) \/ AddGoalRaises(g)
  \/ \E g \in repository :
       \/ CompleteGoal(g.id) \/ FailGoal(g.id) \/ RemoveGoal(g.id)
       \/ \E p \in Priorities : Reprioritize(g.id, p)
       \/ \E c \in {-1, 50, 100} : UpdateProgress(g.id, c)
  \/ \E t \in Titles, success, blank \in BOOLEAN : Record(t, success, blank)
  \/ CreateBacklog \/ CreateBacklogRaises \/ NextGoal \/ Progress \/ AskRaises
GoalsNext == calls < MaxCalls /\ calls' = calls + 1 /\ Call

GoalsSpec == GoalsInit /\ [][GoalsNext]_goalVars

-----------------------------------------------------------------------------
(***************************************************************************)
(* Properties.                                                             *)
(***************************************************************************)
TitlesUnique == \A g, h \in repository : (g.id = h.id \/ g.title = h.title) => g = h

\* What is held is of its kind; a goal under an id of the merge's is the goal of that
\* title, so that the merge replaces none.
Records == [objective : Titles, success : BOOLEAN, blank : BOOLEAN]
Events == {"created", "completed", "failed", "cancelled"}
HeldOK ==
  /\ repository \subseteq Goal /\ IsFiniteSet(repository)
  /\ \A g \in repository : g.id[1] = "goal" => g.id[2] = g.title
  /\ memory \in Seq(Records) /\ told \subseteq GoalId \X Events
  /\ cached \in BOOLEAN /\ stale \in BOOLEAN /\ calls \in 0..MaxCalls

\* The repository holds valid goals, at most one of an id or a title, whatever callers
\* add, rename or plan again and whatever the memory brings back (add_goal's validation
\* and the merge's skip each keep their half of it).
GoalsOK ==
  /\ HeldOK
  /\ \A g \in repository : GoalValid(g) /\ g.status \in Statuses
  /\ TitlesUnique
  /\ stale => cached
  /\ ~cached => backlog = <<>>

\* The last event of a goal, progress apart, tells how the repository has it, although
\* a handler may raise in every one of them (emit appends to the history first).
EventsTellTheStatus ==
  /\ \A g \in repository : \E p \in told : p[1] = g.id
  /\ \A p \in told :
       LET g == load(p[1])
       IN CASE p[2] = "created" -> g # None
            [] p[2] = "completed" -> g # None /\ g.status = "done"
            [] p[2] = "failed" -> g # None /\ g.status = "blocked"
            [] p[2] = "cancelled" -> g = None

\* The repository is sound, and listeners were told how it is.
RepositoryIsTold == GoalsOK /\ EventsTellTheStatus

\* A cached backlog is the repository in the order of priority, unless a handler of
\* "created" raised since it was built; and what next_goal and progress answer from it
\* is then true of the repository: the goal is one of the most urgent to do, and the
\* count of done goals is that of the repository.
BacklogIsCurrent ==
  cached /\ ~stale =>
    /\ backlog = list(repository)
    /\ last.call \in {"next_goal", "progress"} /\ ~last.raised =>
         \/ last.goal = <<"none">> /\ \A g \in repository : g.status # "todo"
         \/ /\ load(last.goal) # None /\ load(last.goal).status = "todo"
            /\ \A g \in repository : g.status = "todo" => g.priority >= load(last.goal).priority
    /\ last.call = "progress" /\ ~last.raised =>
         last.done = Cardinality({g \in repository : g.status = "done"})

\* The inductive invariant.
GoalsInv == RepositoryIsTold /\ BacklogIsCurrent

\* A goal the memory knows comes back with the next backlog, done only if every session
\* of it succeeded; its priority grows with the sessions that failed.
MergeIsCautious ==
  [][\A g \in repository' : (\A h \in repository : h.id # g.id) /\ last'.call # "add_goal" =>
       LET about == {i \in DOMAIN memory : memory[i].objective = g.title}
           failed == {i \in about : ~memory[i].success}
       IN /\ about # {}
          /\ (g.status = "done") = (failed = {})
          /\ Cardinality(failed) >= 2 => g.priority = 0]_goalVars
=============================================================================
