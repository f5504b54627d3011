------------------------------ MODULE TaskQueue ------------------------------
(***************************************************************************)
(* What the objective queue promises its callers, with no file, lock or    *)
(* thread in it: tasks are numbered as they are accepted, run one at a     *)
(* time in that order, and end once.  A fault may lose all tasks at once   *)
(* (the file was cut short) or orphan the running one (the process died);  *)
(* neither is ever served again.                                           *)
(***************************************************************************)
EXTENDS Integers

CONSTANT Size

VARIABLE status

Task == 1..Size

Having(st) == {i \in Task : status[i] = st}

Init == status = [i \in Task |-> "absent"]

Submit(i) ==
  /\ status[i] = "absent" /\ \A j \in Having("absent") : i =< j
  /\ status' = [status EXCEPT ![i] = "queued"]

Start(i) ==
  /\ Having("running") = {}
  /\ status[i] = "queued" /\ \A j \in Having("queued") : i =< j
  /\ status' = [status EXCEPT ![i] = "running"]

Finish(i) ==
  /\ status[i] = "running"
  /\ \E outcome \in {"done", "failed"} : status' = [status EXCEPT ![i] = outcome]

LoseAll == status' = [i \in Task |-> IF status[i] = "absent" THEN "absent" ELSE "lost"]

Restart == status' = [i \in Task |-> IF status[i] = "running" THEN "orphaned" ELSE status[i]]

Next ==
  \/ \E i \in Task : Submit(i) \/ Start(i) \/ Finish(i)
  \/ LoseAll
  \/ Restart

Spec == Init /\ [][Next]_status
=============================================================================
