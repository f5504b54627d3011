--------------------------- MODULE MCGoalManager ---------------------------
(***************************************************************************)
(* Three goals of a caller, some of which depend on each other or on none  *)
(* there is, one that takes the id of another, one that is none; an        *)
(* objective of one line and one of two; two titles of sessions and a blank.*)
(***************************************************************************)
EXTENDS GoalPlanning

Caller(n, title, status, priority, depends) ==
  [id |-> <<"plan", <<n>>>>, title |-> title, priority |-> priority, status |-> status,
   depends |-> [i \in DOMAIN depends |-> <<"plan", <<depends[i]>>>>], complexity |-> 2]

MCObjectives == {<<<<1, 5, 1>>>>, <<<<5>>, <<>>, <<0>>, <<5>>>>}
MCPlanned == UNION {ToSet(plan_goals(o)) : o \in MCObjectives}
MCOffered == {Caller(3, <<3>>, "todo", 2, <<4, 4>>), Caller(3, <<3>>, "pending", 2, <<1, 4, 1>>),
              Caller(4, <<4>>, "running", 1, <<3, 7>>), Caller(4, <<3>>, "unknown", 1, <<>>),
              Caller(1, <<1>>, "todo", 3, <<4>>)} \cup MCPlanned
MCTitles == {<<5>>, <<6>>, <<0>>}
=============================================================================
