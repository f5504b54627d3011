------------------------------ MODULE Routing ------------------------------
(***************************************************************************)
(* Who works on a mission: what the host is doing (resources/manager.py),  *)
(* what the dispatcher makes of it (dispatcher/routing_policy.py) and whom *)
(* it runs (dispatcher/dispatcher.py).  A host says how full its disk is   *)
(* and which processes run, each name a sequence of words; a mission has an*)
(* objective, its length and a priority; an agent of the registry its name,*)
(* kind, cost and priority.  Scores are counted in tenths.                 *)
(***************************************************************************)
EXTENDS Integers, SequencesExt, FiniteSetsExt

Unknown == -1        \* None
DiskBusy == 95
Critical == {<<"gta5.exe">>, <<"dofus.exe">>, <<"ankama", "launcher.exe">>, <<"blender.exe">>,
             <<"unrealeditor.exe">>, <<"unity.exe">>, <<"cl.exe">>, <<"msbuild.exe">>, <<"ninja.exe">>}

-----------------------------------------------------------------------------
(***************************************************************************)
(* SystemResourceProbe and ResourceManager.                                *)
(***************************************************************************)
\* Windows quotes its names; of the others the first word is the name.
ProcessName(quoted, name) == IF quoted THEN name ELSE <<Head(name)>>
ActiveProcesses(host) ==
  IF host.listed THEN {ProcessName(host.quoted, p) : p \in host.processes} ELSE {}
\* Nothing measures the processor and the memory.
snapshot(host) ==
  [cpu |-> Unknown, ram |-> Unknown, disk |-> host.disk, processes |-> ActiveProcesses(host)]

MissionCost(length) == CASE length > 4000 -> "high" [] length \in 1001..4000 -> "medium" [] OTHER -> "low"
\* Mutant: the limit itself is not busy.
BusyAbove(snap) == snap.disk # Unknown /\ snap.disk > DiskBusy
Busy(snap) == snap.disk # Unknown /\ snap.disk >= DiskBusy
decide(snap, length) ==
  LET critical == snap.processes \cap Critical # {}
  IN CASE critical /\ MissionCost(length) = "high" -> "defer"
       [] (critical \/ Busy(snap)) /\ ~(critical /\ MissionCost(length) = "high") -> "reduce"
       [] OTHER -> "continue"

-----------------------------------------------------------------------------
(***************************************************************************)
(* The agents: the patch agent takes any mission, the ones that are not    *)
(* there take none, those of others say for themselves.                    *)
(***************************************************************************)
CanExecute(agent) == agent.kind # "unavailable"
Priority(agent, mission) == IF agent.kind = "patch" THEN 10 + mission.priority ELSE agent.priority
EstimateCost(agent) == IF agent.kind = "patch" THEN 1 ELSE agent.cost

\* The mission's priority is in the patch agent's own, and is added once more.
Score(agent, mission, action) ==
  10 * (Priority(agent, mission) + mission.priority)
  + 2 * (5 - Min({5, mission.length \div 800})) + 3
  - CASE action = "defer" -> 100
      [] action = "reduce" /\ EstimateCost(agent) > 2 -> 5 * (EstimateCost(agent) - 2)
      [] OTHER -> 0
\* The places in the registry of those who take the mission.
Capable(agents) == {i \in DOMAIN agents : CanExecute(agents[i])}
\* The first of the ranking: it puts the best first and leaves equals as they were registered.
FirstRanked(agents, mission, action) ==
  LET score(i) == Score(agents[i], mission, action)
  IN CHOOSE i \in Capable(agents) :
       \A j \in Capable(agents) \ {i} : score(i) > score(j) \/ (score(i) = score(j) /\ i < j)
\* The best is found again by its name, so that of two of one name the first is run.
Selected(agents, mission, snap) ==
  LET best == agents[FirstRanked(agents, mission, decide(snap, mission.length))].name
  IN agents[Min({i \in Capable(agents) : agents[i].name = best})]
=============================================================================
