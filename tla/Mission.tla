------------------------------ MODULE Mission ------------------------------
(***************************************************************************)
(* A mission (mission/mission_executor.py): its steps, each dispatched to  *)
(* the agent the routing chooses, and the account it keeps of them.  Its   *)
(* project is the one the patching agents are at work on.  A mission that  *)
(* has ended may be run again: the executor keeps nothing of its own.      *)
(***************************************************************************)
EXTENDS AgentEngine, Routing

CONSTANTS Missions,     \* [objective, length, priority, project: is it in the context?, steps]
          Registries,   \* the sequences of agents that may be registered
          Hosts,        \* what the machine may be at
          MaxRuns,
          Start         \* the project at first

\* Costs and priorities are whole numbers, as scores are counted in tenths of them.
ASSUME MissionsAssumption ==
  /\ \A r \in Registries : r \in Seq([name : STRING, kind : STRING, cost : Int, priority : Int])
  /\ \A m \in Missions : m.length \in Nat /\ m.priority \in Int /\ m.steps \in Nat /\ IsFiniteSet(m.objective)
  /\ \A h \in Hosts : h.disk \in Int
  /\ Start \in [DOMAIN Start -> Seq(STRING)] /\ DOMAIN Start \subseteq ToSet(PathOrder)

VARIABLES mission,      \* the mission itself
          steps,        \* the status of each of its steps
          history,      \* mission.history: [event, step]
          run           \* the call of run(): where it stands, whom it has chosen

missionVars == <<mission, steps, history, run>>
vars == <<patchVars, missionVars>>

NoHost == [listed |-> FALSE, quoted |-> FALSE, processes |-> {}, disk |-> Unknown]
NoAgent == [name |-> "none", kind |-> "unavailable", cost |-> 0, priority |-> 0]
Init ==
  /\ PatchInit(Start)
  /\ \E m \in Missions, r \in Registries : mission = [of |-> m, agents |-> r, status |-> "created", current |-> 1]
  /\ steps = [k \in 1..mission.of.steps |-> "created"]
  /\ history = <<>>
  /\ run = [at |-> "idle", count |-> 0, agent |-> NoAgent, host |-> NoHost, shown |-> NoContext]

-----------------------------------------------------------------------------
Recorded(event) == history' = Append(history, [event |-> event, step |-> mission'.current])
RunAt(place) == run' = [run EXCEPT !.at = place, !.agent = NoAgent, !.host = NoHost, !.shown = NoContext]
Running(place) == run.at = place /\ UNCHANGED patchVars

\* planejar: a mission without steps gets one.
Plan ==
  /\ Running("idle") /\ run.count < MaxRuns
  /\ mission' = [mission EXCEPT !.status = "planning"]
  /\ steps' = IF steps = <<>> THEN <<"created">> ELSE steps
  /\ Recorded("planning")
  /\ run' = [run EXCEPT !.at = "next", !.count = @ + 1]
\* executar, with the step it has come to.
Reached == IF mission.status = "planning" THEN 1 ELSE mission.current + 1
BeginStep ==
  /\ Running("next") /\ Reached <= Len(steps)
  /\ mission' = [mission EXCEPT !.status = "running", !.current = Reached]
  /\ steps' = [steps EXCEPT ![Reached] = "running"]
  /\ Recorded("step_running") /\ RunAt("choose")
\* Dispatcher.dispatch: whom to run is a matter of the machine as it is now.
Choose ==
  /\ Running("choose") /\ Capable(mission.agents) # {}
  /\ \E host \in Hosts :
       run' = [run EXCEPT !.at = "execute", !.host = host,
                          !.agent = Selected(mission.agents, mission.of, snapshot(host))]
  /\ UNCHANGED <<mission, steps, history>>
Asks == run.agent.kind = "patch" /\ mission.of.project
\* PatchAgentAdapter.execute: the patch is only asked for, and is the step's payload.
ShowToPatcher ==
  /\ Running("execute") /\ Asks
  /\ \E context \in Contexts(mission.of.objective) : run' = [run EXCEPT !.at = "ask", !.shown = context]
  /\ UNCHANGED <<mission, steps, history>>
CanReturn == run.at = IF run.agent.kind = "patch" THEN "ask" ELSE "execute"
CanRaise == CASE run.at = "choose" -> Capable(mission.agents) = {}
              [] run.at = "execute" -> ~Asks
              [] OTHER -> run.at = "ask"
StepCompletes ==
  /\ CanReturn /\ UNCHANGED <<patchVars, mission>>
  /\ steps' = [steps EXCEPT ![mission.current] = "completed"]
  /\ Recorded("step_validated") /\ RunAt("next")
\* The exception leaves run(): nothing of what follows the steps is done.
StepFails ==
  /\ CanRaise /\ UNCHANGED patchVars
  /\ mission' = [mission EXCEPT !.status = "failed"]
  /\ steps' = [steps EXCEPT ![mission.current] = "failed"]
  /\ Recorded("step_failed") /\ RunAt("idle")
\* validar, registrar_historico, proxima_etapa, finalizar.
Finalize ==
  /\ Running("next") /\ Reached > Len(steps)
  /\ mission' = [mission EXCEPT !.status = "completed", !.current = Len(steps)]
  /\ history' = history \o [k \in 1..3 |-> [event |-> <<"mission_validated", "history_registered",
                                                        "mission_finalized">>[k], step |-> Len(steps)]]
  /\ UNCHANGED steps /\ RunAt("idle")

-----------------------------------------------------------------------------
MissionStep == Plan \/ BeginStep \/ Choose \/ ShowToPatcher \/ StepCompletes \/ StepFails \/ Finalize
JobStep ==
  \/ \E kind \in Jobs : StartJob(kind)
  \/ AskTeam \/ RunTests \/ ShowProject \/ GenerateFails \/ Generate
  \/ SkipMissing \/ Backup \/ Operated \/ Write \/ Applied
Next == MissionStep \/ ((JobStep \/ PassStep \/ Tick \/ Edit) /\ UNCHANGED missionVars)
Spec == Init /\ [][Next]_vars

-----------------------------------------------------------------------------
(***************************************************************************)
(* Properties.                                                             *)
(***************************************************************************)
\* A machine short of disk, or with a process of the critical ones whose name the listing
\* gives whole.
Pressed(host) ==
  \/ host.disk >= DiskBusy
  \/ /\ host.listed
     /\ \E p \in host.processes : IF host.quoted THEN p \in Critical ELSE <<Head(p)>> \in Critical
\* The agent a step is given to takes missions; no other that does is more urgent by more than
\* the machine's state accounts for; and on a pressed machine it is not a dear one where a
\* cheap one is as urgent, unless the mission is the very long one all agents are marked down
\* for alike, or another agent has its name (ResourceManager.decide, RoutingPolicy.rank_agents,
\* Dispatcher.dispatch).
RoutingIsJustified ==
  run.at = "execute" =>
    LET chosen == run.agent
        capable == {mission.agents[i] : i \in Capable(mission.agents)}
        unique == \A i, j \in Capable(mission.agents) : i # j => mission.agents[i].name # mission.agents[j].name
        urgency(a) == Priority(a, mission.of)
    IN /\ chosen \in capable
       /\ unique => \A a \in capable :
            /\ urgency(a) > urgency(chosen) => Pressed(run.host) /\ EstimateCost(a) > EstimateCost(chosen)
            /\ Pressed(run.host) /\ mission.of.length <= 4000 /\ urgency(a) = urgency(chosen)
                 => EstimateCost(chosen) <= 2 \/ EstimateCost(a) >= EstimateCost(chosen)

\* What an agent is shown is as long as it may be, but for the newlines between blocks; only its
\* last file is cut, and its files are of the directories chosen, none of them there twice.
Fits(shown) ==
  LET n == Len(shown.blocks)
  IN /\ ContextLength(shown.blocks) <= Max({0, MaxChars + n - 1}) /\ n <= MaxFiles
     /\ \A k \in 1..n :
          /\ k < n => shown.blocks[k].size >= HeaderSize
          /\ \A l \in 1..n : k # l => shown.blocks[k].path # shown.blocks[l].path
          /\ ToSet(shown.blocks[k].path) \cap shown.dirs # {}
\* What the path of a file says of an objective that the project's own path does not: topics,
\* words, and whether it is of the two names that count.
Gain(t, objective, p) ==
  IF Detected(t, objective) /\ ~AnyIn(t.words, ProjectRoot) /\ AnyIn(t.words, p) THEN t.boost ELSE 0
Relevance(objective, p) ==
  Gain(DocumentTopic, objective, p) + Gain(GitTopic, objective, p)
  + Gain(GameTopic, objective, p) + Gain(PatchTopic, objective, p)
  + 5 * Cardinality({w \in objective : ~InPath(w, ProjectRoot) /\ InPath(w, p)})
  + (IF Last(p) \in {"readme.md", "main.py"} THEN 2 ELSE 0)
\* A patcher is shown the file whose path says more of the objective before the one that says
\* less, wherever the project is, though of what its own path says nothing tells them
\* apart; and none that is hidden, binary, empty, in a directory never looked at, or named by a
\* pattern that stands.
Relevant(shown) ==
  LET path(k) == shown.blocks[k].path
      n == Len(shown.blocks)
  IN \A k \in 1..n :
       /\ k < n => shown.blocks[k].size > HeaderSize
       /\ \A l \in k..n : Relevance(shown.about, path(k)) >= Relevance(shown.about, path(l))
       /\ path(k) \notin Binary /\ ~Internal(path(k)) /\ Last(path(k)) \notin Hidden
       /\ \A i \in DOMAIN Gitignore :
            Gitignore[i].kind # "dir" /\ Matches(Gitignore[i], path(k), FALSE) =>
              \E j \in i..Len(Gitignore) : Gitignore[j].negated
\* So it is for every agent that is shown the project, those of the single pass excepted from what
\* is said of patchers (ContextBuilder.build, incremental_build).
ContextFits ==
  /\ Fits(job.shown) /\ (job.kind # "pass" => Relevant(job.shown))
  /\ Fits(run.shown) /\ Relevant(run.shown)

\* Every text a patch wrote over can still be found in a backup: unless it is what somebody else
\* wrote, which may come between the copy and the write, or the file was patched once more
\* in the same second, which copies it to the same place.  A preview writes nothing over
\* (PatchApplier.apply, BackupManager.backup).
PatchesAreRecoverable ==
  /\ \A o \in overwritten \ clobbered :
       o[2] = Edited \/ \E b \in DOMAIN backups : b[2] = o[1] /\ backups[b] = o[2]
  /\ job.kind = "preview" => overwritten = {}

\* A fix that succeeded was tested as the project is, unless somebody else wrote since; one
\* that gave up patched the project as often as it may, and the last patch nobody tested
\* (AutoFixAgent.execute).
FixIsTested ==
  /\ job.at = "fixed" => Tested(job.tested) /\ (texts = job.tested \/ edits > 0)
  /\ job.at = "given up" => job.round = MaxIterations

\* The mission's status, its steps and its history tell one story: a step runs exactly while
\* run() is at work on it, a mission that is completed has all steps completed and validated
\* in the order they ran, in its last run, and one that failed has failed at the step it
\* stands at, after it validated all steps before (MissionExecutor.run).
LastRun(n, ending) ==
  \E p \in DOMAIN history :
    /\ history[p].event = "planning" /\ Len(history) = p + 2 * n + Len(ending)
    /\ \A k \in 1..n : /\ history[p + 2 * k - 1] = [event |-> "step_running", step |-> k]
                       /\ history[p + 2 * k] = [event |-> "step_validated", step |-> k]
    /\ \A k \in DOMAIN ending : history[p + 2 * n + k] = [event |-> ending[k], step |-> mission.current]
AtWork == run.at \in {"choose", "execute", "ask"}
MissionTellsTheTruth ==
  /\ \A k \in DOMAIN steps : steps[k] = "running" <=> AtWork /\ mission.current = k
  /\ run.at = "idle" =>
       CASE mission.status = "created" -> history = <<>>
         [] mission.status = "completed" ->
              /\ \A k \in DOMAIN steps : steps[k] = "completed"
              /\ mission.current = Len(steps)
              /\ LastRun(Len(steps), <<"mission_validated", "history_registered", "mission_finalized">>)
         [] OTHER ->
              /\ mission.status = "failed" /\ steps[mission.current] = "failed"
              /\ \A k \in 1..(mission.current - 1) : steps[k] = "completed"
              /\ LastRun(mission.current - 1, <<"step_running", "step_failed">>)

\* Missions, fixes and passes report what they did.
ReportsAreTrue == MissionTellsTheTruth /\ FixIsTested /\ PassTellsWhatItDid

-----------------------------------------------------------------------------
(***************************************************************************)
(* The inductive invariant behind routing, backups and reports.            *)
(***************************************************************************)
Events == {"planning", "step_running", "step_validated", "step_failed", "mission_validated",
           "history_registered", "mission_finalized"}
MissionTypeInv ==
  /\ mission \in [of : Missions, agents : Registries, current : Nat,
                 status : {"created", "planning", "running", "completed", "failed"}]
  /\ steps \in Seq({"created", "running", "completed", "failed"})
  /\ history \in Seq([event : Events, step : Nat])
  /\ DOMAIN run = {"at", "count", "agent", "host", "shown"}
  /\ run.at \in {"idle", "next"} \/ AtWork

\* In the middle of a run its history so far is that of the steps it has come through, all
\* of them completed, the one at work begun.
StoryInv ==
  /\ MissionTellsTheTruth
  /\ run.at = "next" =>
       /\ steps # <<>>
       /\ \/ mission.status = "planning" /\ LastRun(0, <<>>)
          \/ /\ mission.status = "running" /\ mission.current \in DOMAIN steps
             /\ \A k \in 1..mission.current : steps[k] = "completed"
             /\ LastRun(mission.current, <<>>)
  /\ AtWork =>
       /\ mission.status = "running" /\ mission.current \in DOMAIN steps
       /\ \A k \in 1..(mission.current - 1) : steps[k] = "completed"
       /\ LastRun(mission.current - 1, <<"step_running">>)

\* There is one job, of the kind it began as, at a place of that kind; a fix that goes on
\* has rounds left, and what does not apply patches has written nothing over.
JobInv ==
  /\ DOMAIN job = DOMAIN NoJob /\ job.kind \in Jobs \cup {"none", "pass"}
  /\ job.at \in {"idle", "team", "test", "generate", "ask", "apply", "read", "write", "done", "raised",
                 "fixed", "given up", "refuse", "look", "reply", "act", "answered"}
  /\ job.kind = "none" <=> job.at = "idle"
  /\ job.kind = "pass" <=> job.at \in {"refuse", "look", "reply", "act", "answered"}
  /\ job.kind = "preview" => job.at \in {"team", "generate", "ask", "done", "raised"}
  /\ job.at = "team" => job.kind # "fix"
  /\ job.kind \in {"none", "pass", "preview"} => overwritten = {}
  /\ job.round \in Nat /\ edits \in Nat
  /\ job.kind = "fix" /\ job.at \in {"test", "generate", "ask", "apply", "read", "write"} => job.round < MaxIterations
  /\ FixIsTested /\ PassTellsWhatItDid

\* A file about to be written over has a backup that says what it says, unless somebody else
\* wrote it after the copy.
BackupInv ==
  /\ PatchesAreRecoverable
  /\ \A o \in overwritten : o = <<o[1], o[2]>>
  /\ job.at \in {"read", "write"} =>
       LET path == Head(job.patches).path
       IN /\ path \in DOMAIN texts
          /\ texts[path] = Edited \/ \E b \in DOMAIN backups : b[2] = path /\ backups[b] = texts[path]

\* What is read and written is text, of paths there may be; what was shown once fits for good.
ShownInv ==
  /\ texts \in [DOMAIN texts -> Seq(STRING)] /\ DOMAIN texts \subseteq ToSet(PathOrder)
  /\ job.patches \in Seq(Patch) /\ job.text \in Seq(STRING)
  /\ job.at \in {"read", "write"} => job.patches # <<>>
  /\ ContextFits

IInv == MissionTypeInv /\ StoryInv /\ JobInv /\ BackupInv /\ RoutingIsJustified /\ ShownInv
=============================================================================
