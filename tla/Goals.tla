-------------------------------- MODULE Goals --------------------------------
(***************************************************************************)
(* What goals are made of (goals/goal.py): Goal's own normalisation, and   *)
(* what the manager keeps of a goal it builds again.  A goal is [id, title,*)
(* priority, status, depends, complexity]; a title is a sequence of words  *)
(* (numbers, 0 for a blank); an id is a hash of a title, made by the merge *)
(* with the memory ("goal") or by whoever planned it ("plan").             *)
(***************************************************************************)
EXTENDS Ordering, SequencesExt, FiniteSetsExt

\* GoalStatus, the names it had before, and what callers may write; "unknown" stands for
\* any other word.
Statuses == {"todo", "in_progress", "blocked", "done", "cancelled"}
Legacy == [pending |-> "todo", running |-> "in_progress", completed |-> "done", failed |-> "blocked",
           cancelled |-> "cancelled"]
Written == Statuses \cup DOMAIN Legacy \cup {"unknown"}

GoalId == {"goal", "plan"} \X Seq(Nat)
Goal == [id : GoalId, title : Seq(Nat), priority : Int, status : Written, depends : Seq(GoalId),
         complexity : 0..4]

normalize_status(raw) == IF raw \in DOMAIN Legacy THEN Legacy[raw] ELSE raw

Untitled(title) == ToSet(title) \subseteq {0}

\* Goal.__post_init__: the goal with its status normalised, if it is one at all.
GoalValid(g) == normalize_status(g.status) \in Statuses /\ g.priority \in 0..4 /\ ~Untitled(g.title)
MakeGoal(g) == [g EXCEPT !.status = normalize_status(g.status)]

\* What the rebuilt goal keeps: not the dependencies, nor the complexity.
Rebuilt(g, status, priority) ==
  [g EXCEPT !.status = status, !.priority = priority, !.depends = <<>>, !.complexity = 2]
=============================================================================
