# A TLA+ model of ClawAI

ClawAI is a Python assistant that plans work on a repository, edits files with
the help of a language model, tests and verifies the result, and keeps queues,
backlogs and memories in JSON files. This directory models the parts of it
where the order of steps matters: the objective queue and the engine that feeds
it, the runs that edit and commit, the agent loop with its goals, the repair
pipeline, missions and the agents that patch, the tool loop, and the server with
its workspaces, verifications, chats and debates. TLC checks the modules on
small instances. TLAPS proves, for every instance, the safety of the queue (and that it
implements what it promises), of the evolution engine, the automatic runs, the
agent loop, the goal manager and the dependency graph, the repair pipeline with its
patches, the agent runtime with its file tool, missions and patching, and the server's
workspaces, verifications, chats and debates.

Paths below are relative to `src/clawai/` unless they start with `src/`.

## The system

### Parts, their state and how they interact

| Part | State | Operations | Interacts with |
|---|---|---|---|
| `AutonomyCoordinator` (`autopilot/autonomy_coordinator.py`) | `queue.json`, `plans/`, `engineering_memory.jsonl`, one lock, one worker thread | `enqueue`, the worker loop, `list_queue`, `queue_size` | called by `api/autonomy_api.py` and the evolution engine; calls AutoImplement |
| `AutoImplementService` (`autopilot/auto_implement_runtime.py`) | sessions, one lock, backups, the working tree | `implement`, `start`, `stop` | calls the model, tests, `verify.py`, `GitService`; shares the tree with the user's editor |
| `GitService` (`git/git_service.py`) | the repository | snapshot, branch, add, commit, reset, merge | called by AutoImplement |
| `EvolutionEngine` (`evolution/engine.py`) | `backlog.json`, `state.json`, history, one thread | `start`, `stop`, `run_once`, `rebuild_backlog` | reads and feeds the queue |
| `AgentLoop` (`agent/agent_loop.py`) | session, two flags | `run`, `cancel`, `pause`, `resume` | planner, `GoalManager`, executor, event bus, checkpoint |
| `GoalManager` and the planner (`goals/`) | goal repository in memory, cached backlog, event history | `add_goal`, `complete_goal`, `fail_goal`, `create_backlog`, `next_goal`, `progress`, `reprioritize`, `remove_goal`, `update_progress`; graph, order and plans are pure | merges records of the engineering memory; tells the event bus |
| Cognition (`cognition/`) | none | `review`, `decide` | decides retry or replan for the loop |
| `AutonomousExecutor` with self-repair and the development pipeline (`executor/`, `selfrepair/`, `development/`, `diffing/`, `editor/`) | files, engineering memory, the rounds of a repair | `run` | called by the loop; calls model and tests |
| `MissionExecutor`, dispatcher, `ResourceManager` (`mission/`, `dispatcher/`, `resources/`) | mission, steps, history | `run` | dispatches to agents by what the host is doing |
| Patching agents (`agents/`, `orchestrator/`) and `AgentEngine` (`agent/agent_engine.py`) | files, backups | fix until tests pass, patch with a team, one pass | context builder, model, tools |
| Agent runtime (`autonomy/`, `execution/`, `tools/`) | an execution state and a call budget per prompt, the tree | `run`; the filesystem tool's methods | planner, reflector, synthesizer, tools |
| Workspaces (`workspaces/manager.py`) | list in memory, `workspaces.json`, user files | open, select, close, tree, save | the server's routes; the verifier's own copy |
| Verifier (`src/verify.py`) | `verify_report.json` | build, test, try the API, report | run by a route and by AutoImplement |
| Chat (`chat/`, `memory/`) | notes in `memory/*.json` | `ask` | workspaces, model or agent runtime |
| Bridge (`bridge/`, `api/bridge_api.py`) | debates, `_index.json`, `learning.jsonl` | consult, supervise | participants on a pool, a judge |
| Tool broker, Composio, providers, indexing, front end | little or none | text and data processing, HTTP | everything above |

`PROJECT.json` lists every component with its sources and how far it is modelled.

### What is hard in it

- JSON files of many parts are rewritten in place and read without locks. A
  reader that meets a half-written file takes it for an empty one, and some
  readers then write what they made of it.
- Worker threads are trusted by `is_alive()`, which also holds of a thread that
  has decided to leave.
- A process restart keeps the files and starts no thread.
- The project's files have several writers: AutoImplement runs (one after the
  other), patching agents, the repair pipeline, tools, and the user at any time.
- Cancel and stop are flags, looked at here and there, never acknowledged.
- Event subscribers run inside the bookkeeping they are told about, and their
  exceptions are not caught at the bus.
- Routes run on threads of their own and call a manager several times for one
  request, with the lock free in between; two `async` routes block all others.
- Reports, diagnoses, snapshots and cached backlogs are believed after what they
  describe has changed.

### What makes each part correct

- Queue: one run at a time, in order, never twice; an accepted item stays; what
  the queue says of an item agrees with what happened. Queued work is served.
- AutoImplement: what is committed is what was tested; what failed is undone;
  success means committed; every call ends.
- Agent loop: every goal ends once, session and goal manager agree, retries are
  bounded, cancel stops the work, sessions end.
- Goals: repository, events, cached backlog and answers agree; memory never makes
  an open goal done; the dependency graph reads its relation correctly.
- Evolution: the queue is fed one objective at a time, nothing is enqueued
  twice, the backlog invents nothing, enabled means attended, and a calm engine
  gets through its backlog.
- Repair pipeline: a verified patch says what changes; rounds are told what is so;
  only tested plans are applied; the outcome reported is the one on disk.
- Missions and patching: a step goes to an agent whose choice can be justified;
  a patched text can be recovered; what is reported happened.
- Agent runtime: the budget holds, rounds are recorded, tools lose no file.
- Server: one active workspace at most, on disk too; a save goes where it says;
  a verification shows its own report; notes and debates are kept.

## The modules

| Module | Models | Checked by |
|---|---|---|
| `TaskQueue` | what the queue promises: tasks run one at a time in order and end once; faults lose all or orphan the running one | as a property |
| `AutonomyQueue` | `AutonomyCoordinator` | `MCAutonomyQueue` |
| `AutonomyQueue_proofs` | proofs: order, one worker, one run; then accounts and the refinement of `TaskQueue` | TLAPS |
| `AutoImplement` | `AutoImplementService`, `GitService`, the user's saves | `MCAutoImplement`, two runs |
| `AutoImplement_proofs` | proofs about it | TLAPS |
| `AgentLoop` | `AgentLoop`, with the calls it makes to goals, review, decision and memory | `MCAgentLoop`, two runs |
| `AgentLoop_proofs` | proofs about it | TLAPS |
| `EvolutionEngine` | `EvolutionEngine` over the queue as `TaskQueue` promises it | `MCEvolutionEngine`, two runs |
| `EvolutionEngine_proofs` | proofs about it | TLAPS |
| `Goals`, `GoalManager` | goals and what is read from them; the manager, repository and bus over them | `MCGoalManager` |
| `GoalGraph`, `GoalPlanning` | dependency graph, prioritizer and planner as operators; planner and graph beside the manager | `MCGoalManager` |
| `Ordering` | lists in the order of a key, for goals and files | with these |
| `CodeContext`, `Diffing`, `RepairPipeline` | scanning and retrieval; diffs, rules and test verdicts; one `AutonomousExecutor.run` over them | `MCRepairPipeline` |
| `Engineering_proofs` | proofs about the goal manager and the repair pipeline, the two sides of the engineering memory | TLAPS |
| `FilesystemTool`, `AgentRuntime` | the file tool as functions of the tree; one request through the runtime | `MCAgentRuntime` |
| `AgentRuntime_proofs` | proofs about both | TLAPS |
| `Context`, `Routing`, `Patching`, `AgentEngine`, `Mission` | what a model is shown; who gets a mission; the patching agents; a single pass; the mission, next to each other on one project | `MCMission` |
| `Mission_proofs` | proofs about `Mission` and what it is made of | TLAPS |
| `Requests`, `Workspaces`, `Verification`, `Chat`, `Bridge`, `Server` | threads of the server, and the routes, composed | `MCServer` |
| `Server_proofs` | proofs about `Server`: workspaces, verifications, chats and debates | TLAPS |

A module that composes others names their steps and says what stays unchanged:
`Server` puts four groups of routes on the threads of `Requests`, `Mission` puts a
mission next to the agents of `Patching` and `AgentEngine`. Algorithms are
operators without state, in modules that the state machines extend.

### AutonomyQueue

`disk` is `queue.json` with a flag that is false between truncation and flush
(`_json_dump` opens the file for writing before it writes). `lock` is
`self._lock`, `worker` is `self._worker`, `wpc` and `cpc` are where threads are.
Each critical section that writes is two steps, the truncation and the flush
with the release, so that readers, crashes and failed writes come in between.
`enqueue` is `EnqueueAppend`, `EnqueueFlush`, `EnqueueReturn`. The worker loop is
`Claim` or `Drain`, `Implement`, `RecordPlan`, `RecordMemory`, `Store`. A worker
that drained the queue is `"exiting"`: out of the lock and still alive for
`is_alive()`. `Implement` is one step whose outcome is success, failure or an
exception. `DumpFails` is a write that raises after truncation, `Crash` is a
restart of the process. Item ids stand for `uuid4` values and are numbered as
they are given out.

`_worker_lock` is always taken inside `_lock` and adds nothing. Plan and memory
files have no other writer.

### AutoImplement

A file's content is who wrote it: the first commit, the user, or an iteration
of a run. `ex` holds the local variables of `_execute` in the run that holds the
lock. One iteration is `Ask`, a `WriteChange` for every item of the answer,
`RunTests`, `RunVerify`, then `StageAll` and `Commit`, or `Rollback`. `Stop` and
`UserSave` take no lock and come between any two steps. Git is modelled by what
its commands do to tree, index and HEAD: `reset --hard` restores what the
snapshot tracks, removes what was only staged and leaves untracked files alone.
The report of `verify.py` is a tracked file of the repository (`FAIL` at this
commit), so it is staged, committed and reset like any other.

Left out: candidate selection, prompts and events, on which no state above
depends, the names of branches (a run's branch is created at HEAD and HEAD
stays on it), and removal of files, which a change list cannot express.

### AgentLoop

A goal is its title and the namespace of its id, since a goal rebuilt from
memory has another `uuid5` than the planner's of the same title. `repo` is the
in-memory goal repository, `memory` what the engineering records of a title say.
`_execute_goal` is `AttemptBegins`, `Call`, then `Succeed` or `Fail`. The
variants with `Raises` are those in which a subscriber raises, at every place
where events are emitted. They are one disjunct per state of the bookkeeping
that the exception may leave behind. `Decisions` is what reviewer and decision
engine answer for a failure: a replan can always come (the error text asks for
it), a retry only below three retries. Titles are taken as already normalised. An
exception in the merge of memory goals leaves all of them or none, which is exact
for two titles.

### EvolutionEngine

A cycle is `Merge`, `Sync`, `Save`, `ChooseItem`, `EnqueueItem`, `SaveQueued`, each
a file access of its own, with no lock across them, run by the engine's thread
and by requests. `WriteRaises` and `Crash` cut files short. `queue` follows
`TaskQueue`: `ImplementsTaskQueue` justifies taking it at that level. Which of
the pending items has the best priority is data: any may be chosen.

### The goals

`Goals` has the normalisation of `Goal`; `GoalGraph` the rest that has no state: the
cycle search, order and depth of `GoalDependencyGraph`, the prioritizer, the validators,
the decomposer and the rule-based planner. The searches are recursive functions of where
they stand: the path with the nodes on it (grey), the next dependency to look at, the
nodes done with (black). `GoalPlanning` puts them beside the
manager: callers add what was planned, and the graph is asked about the goals the
repository holds. A title is a sequence of words, an id
says whose namespace it is from, as in `AgentLoop`. `GoalManager` has one action
per call. Handlers of the bus may raise in every call that emits, and `stale`
remembers that one raised between the event and `_invalidate_backlog`, which only
`add_goal` has in this order. `CreateBacklog`, `NextGoal` and `Progress` merge the
records of the memory when the cache is gone, and a record with a blank title
stops the merge where it stands. `next_goal` takes the first goal to do in the
order of priority and does not look at dependencies.

### RepairPipeline

One `AutonomousExecutor.run`. A round of self-repair is `Decide` (the strategy
refines the instruction by the last diagnosis), `Develop` (plan, analysis, patch
plan, patches, validation, rules, each a step), `Test`. Then `ValidateEdit` and
`Write` for every operation, and the memory record. `ForeignEdit` may change or
remove a file between any two steps: the validator and the generator read files
again. `Diffing` generates patches with difflib's longest common blocks and
compares them as the validator does, down to a block that is one empty line,
which `"\n".join` cannot tell from none. What `ast` finds in a text, and how a
path resembles a query, are constants of the instance (`Parsed`, `Matching`).

### AgentRuntime and FilesystemTool

`FilesystemTool` maps a call and a tree to a result and a tree, one operator per
method, with the directories each makes on the way and the exceptions it catches.
`execute` is the call that the operating system lets finish; `Interrupted` are the answers
of one that fails at some step, caught by the method: some of the directories made, the
file opened and thus emptied, or written in part, or written and not closed. An
`append_file` may report success although the text, written when the file object goes
away, was not. `Execute` takes any of `Answers`.
`AgentRuntime` is one request: classification, then rounds of planner, actions,
reflection. A reply of the model is a list of raw actions, with or without an id,
of an unknown tool, of a legacy name, with arguments that clash; the planner's
normalisation is modelled. The state object (`pending`, `completed`, `errors`), the
snapshots (`history`) and the metrics (`llmCalls`) are variables. The runtime's
exits are `Close` (answered), `Abort` (out of budget, with an answer made up from
the last round) and what raises.

### Mission and the agents

`Context` builds what a model is shown of a project, for the patch agent (topics, ranked
paths, blocks until the context is full) and for the single pass (folders by keyword). A
path is scored from the root of the disk on (`ProjectRoot`), as the builder does, so
that a word in the project's own path counts for every file alike. `Routing` is the
resource manager's verdict on a host and the ranking of the agents: the stable sort of
`rank_agents`, of which only the head is used, is the first of the best scored places of
the registry. `Patching` is one job at a time on the project: the fix loop (`RunTests`,
`ShowProject`, `Generate`, then for every patch `Backup`, `Operated`, `Write`), or the
team's patch, applied or previewed. `AgentEngine` adds the single pass as another kind
of job. `Mission` is `Plan`, then `BeginStep`, `Choose`, the agent, and `StepCompletes`
or `StepFails` for each step, and `Finalize`; a line of the history is an event with the
number of its step. `Tick` lets a second pass, which is what backups are named by, and
`Edit` is an editor open on the same project.

### Server

`Requests` has the threads: a record with the step and what the request carries.
`Workspaces` takes the lock where `WorkspaceManager` does, truncates and writes
`workspaces.json` in two steps, and takes none for `current`, `summary` and the three
lookups of `save_file`. `Verification` is `verify.py` in a process of its own: its
imports build a second manager (`Load`, `Rewrite`), the API is tried against it or
against the server, and the report is truncated and written. `Chat` asks for the
workspace, then for what the prompt points to: a token of it is joined to the root, and
an absolute one, or one with `..`, may lead anywhere (`at`). `ShowFile` reads a file
that is there; `AskTree` looks up what is current by then, and `Tree` asks the manager
for the folder under the id of before, which refuses what is not in that workspace, and
else lists the folder itself. Then a note is added to the memory file in three steps.
`Bridge` has two classifications of a question, since the service looks for two words
that the supervisor does not ("implement" and "sequência", `ServiceOnly`). It lets
participants finish in any order, takes the judge's answer or what stands in for it, and
writes a debate's file, the index and the learning line. `Server` is the composition; a
restart ends all requests and leaves the files as they are, and a `verify.py` that was
running, a process of its own, may go on (`Scripted`). `DumpFails` is a `_save` that
raises once the file is truncated. A member of `Traffics` says which routes the clients
of a run use, since routes that share no file cannot disturb each other.

## What is checked

Twelve runs; the longest take about three minutes. `expect` is `pass` unless
said otherwise. Conjunctions that name several properties are listed with them.

| Run | Bounds | Shows |
|---|---|---|
| `AutonomyQueue_faults` | 2 handlers, 2 thread identities, 2 objectives, 2 items, 1 crash, 1 failed write | `IInv`, `OneWorker`, `AtMostOneRun`; `ItemsAreAccountedFor` (`NothingLost`, `VerdictsAgree`, `LeftBehind`, `RunningIsHeld`); implements `TaskQueue`; `SeenIsServed`, also after faults |
| `AutoImplement_git` | 2 runs, 2 iterations, a tracked and a new file, 1 save, a verifier that may die | `CommitsAreEarned` (`CommitsAreTested`, `StaleReportNeedsAPass`, `ForeignEditsInCommits`), `OverwritesAreBackedUp` |
| `AutoImplement_gitfails` | 2 runs, git commands fail, one proposal, no saves | `RunsCleanUp` (`FailedRunIsUndone`, `SuccessIsCommitted`), `HeadMovesForward`, `SessionsFinish` |
| `AgentLoop_sessions` | 2 titles, 2 sessions, 0 or 2 retries with the reviewer's limit scaled to 1, no limit of goals or one, handlers raise | `GoalsAreAccountedFor` (`GoalsEndOnce`, `ManagerAgrees`, `ListedHasEnded`, `TitlesUnique`), `WorkIsBounded` (`AttemptsBounded`, `CancelStopsWork`), `CancelledIsNotCompleted`, `SessionsEnd` |
| `AgentLoop_FinishedIsFinal` | small | violation: see Findings |
| `EvolutionEngine_engine` | 2 objectives, a rebuild request, 1 restart, leaving queue workers | `EnqueuedOnce`, `EnabledIsAttended`, `EverythingIsQueued` |
| `EvolutionEngine_cycles` | 2 objectives always proposed, a run-once request, 1 torn read or raising write, no stop | `ActiveBounded`, `BacklogIsSound` |
| `GoalManager_calls` | 5 calls, 5 goals offered, 2 objectives, 2 records, handlers raise | `RepositoryIsTold`, `BacklogIsCurrent`, `PlanningIsSound`, `MergeIsCautious` |
| `RepairPipeline_edits` | 2 rounds, 3 files, 6 texts, 7 proposals, 5 test outcomes, 1 foreign edit | `PatchesAreRight`, `RoundsAreInformed`, `OutcomesAreTrue`, `ExecutionEnds` |
| `AgentRuntime_chat` | 2 rounds, 3 calls of the model, 20 replies, a tree of two levels | `BudgetIsKept`, `RoundsAreAccountedFor`, `FilesAreKept`, `RequestEnds` |
| `Mission_work` | 2 missions, 2 runs, one job, 2 rounds, 1 second, 1 foreign edit, 5 hosts, 4 registries, 8 files | `RoutingIsJustified`, `ContextFits`, `PatchesAreRecoverable`, `ReportsAreTrue` |
| `Server_requests` | 2 threads, up to 3 requests, 1 restart, 2 folders | `WorkspacesHoldTogether`, `VerifyAnswersItsRun`, `ChatsHoldTogether`, `DebatesHoldTogether` |

### Properties that say more than one might expect

- `LeftBehind`: queued work without a worker happens in two situations only, an
  enqueue that trusted a leaving thread or a restart. `SeenIsServed` says the
  rest is served. Together they delimit the lost wake-up of `_ensure_worker`.
- `AtMostOneRun` rests on the mark on disk: a crash leaves a running item that
  nobody resumes. It is the price of never running twice. The evolution engine
  waits behind such an item for ever: `EverythingIsQueued` excludes it (`Calm`).
- `VerdictsAgree` allows a failed item whose run succeeded (an exception in
  `_record_from_result`) and nothing the other way.
- `ForeignEditsInCommits` names the only ways the edits of one run get into a
  commit of another: the run that wrote them committed or raised, or git did
  not track the file, so that `reset --hard` left it.
- `CommitsAreTested` has one exception, the user's save between tests and `add`.
- `StaleReportNeedsAPass`: a verifier that dies may still be taken for a pass,
  but only after some run did pass.
- `ActiveBounded` is as strong as check-then-act allows: one active entry per
  thread that runs cycles, and with the engine alone exactly one. With a run-once
  request beside the engine an item may be enqueued twice, so `EnqueuedOnce` is
  checked with rebuild requests.
- `ListedHasEnded` is what remains when subscribers raise. `GoalsEndOnce` and
  `ManagerAgrees` hold until the first one does (history variable `raised`): an
  exception after `complete_goal` makes the loop fail the goal it just completed.
- `BacklogIsCurrent` holds but for a handler of "created" that raises: `add_goal`
  emits before it forgets the cache, so the new goal is not served until the next change.
- `AbortsOnlyWhenRoundsExceedBudget`: with the default three rounds and ten calls
  no request is cut short.
- `PendingHasAReason` is exact about what stays in `pending_actions`: what was
  refused, what raised, and every action without an id, which is listed as
  completed too.
- `RefusalsAreJustified`: besides foreign edits and plans that change no line, a
  correct patch is refused when it is about a single empty line.
- `RecordNamesTheEdits` has one exception: a write that fails after `open` has
  truncated the file leaves it empty and unnamed. `CompletedTouchesAFileOnce` is
  what comes of comparing every operation with the content it was planned on.
- `PatchesAreRecoverable`: a second patch of a file within a second replaces the
  backup of the first, and an edit between the copy and the write is in no backup.
- `FixIsTested`: a fix that gives up has applied one more patch than it tested.
- `RoutingIsJustified` allows a less urgent agent on a pressed host only where it is
  cheaper, and says nothing where two agents share a name: the dispatcher looks
  the winner up by name and may run the other one.
- `WorkspacesSound` excludes the restart or verifier that met the file half
  written and put the default list over it (`clobbered`). `SavesGoWhereAsked`
  excludes saves during which the selection moved, unless they name a workspace.
- `DebatesAreKept` excludes what overlapping writers of the index lose, everything in an
  index that some debate met half written (`forgotten`: `_load_index` takes it for an
  empty one and writes that back), and one line of learning per restart that came
  in the middle of the append.
- `VerifyAnswersItsRun` says what an old report under a new verdict means: the
  script ended before it wrote its own, and the verdict is failure. A script that a
  restart left behind is one that disturbs.
- `FilesAreKept` does not say that a failed call changes nothing, which is false: a write,
  an append or a copy that fails after `open` leaves its file empty or cut. It says that no
  other file is touched, at whatever step the call fails, and that files go by deletion
  and move alone.
- `ChatsHoldTogether` does not confine what is shown to a workspace, which the code does
  not do. What it says is that a chat shows what its prompt points to; only for the
  folder that became current between two lookups does it show the one it began with.
- `DebatesAreHeard` says nothing of the tool of a question with one of the two words
  that only the service looks for.
- `ContextFits` speaks of the relevance a reader would count, read from the words and the
  topics, and of files that a rule shuts out: the instance has a hidden, an empty, a
  binary, two ignored ones and one in a directory never looked at.

### Bounds

Threads are bounded by the number that can disturb each other: two handlers race
for one lock, two requests for one file, and a second thread identity is needed
because a thread that leaves and its successor overlap in `is_alive`. Two items
are enough to be in the wrong order, to be served one after the other, and for one
to be lost behind the other's write. The proofs hold for any number. One crash and
one failed write, in either order, reach every mixture of stale file and fresh
process, and history variables tell what the faults excuse. Two iterations and two
runs let every iteration follow a failed one of its own run and of another. Two
titles make a goal meet a memory record of the other's title. Retries are bounded
below and above the reviewer's limit, which the instance scales from three to one;
the loop's configuration (`maxRetries`, `maxGoals`) is chosen in `Init`.

`EvolutionEngine` is checked twice, because requests that cycle and the engine's
liveness multiply: with one cycler, restarts, stops and a queue worker that may
leave; and with two cyclers and a fault, without stops (`NotStopped`). In the second
instance both objectives are always proposed, so they are alike.

Five calls of the goal manager reach: plan, add, settle, forget, ask, with a raise or a
record in between. Every offered goal is there for a branch of validation, merge or
graph: a cycle of two, an unknown dependency, a repeated one, an id taken, a status
nobody knows. The runtime's replies are every action alone and the pairs that bear on
each other. The texts of the repair instance have insertions, deletions and replacements
at the start, the middle and the end, a missing last newline, an empty file and an empty
line. The missions' files are there for a rule of the context each, the hosts for a
verdict each. The server's clients make up to three requests: with two, a debate is
never lost that overlapped nobody, since it takes a first debate to be in the index, a
second to leave it half written at a restart, and a third to read it. Three
verifications leave an old report under a run that is disturbed by one of before a restart.
Where more kinds of routes mix, two requests meet: an opening under a verification,
uploads and closings under chats. The sizes of contexts and prompts (`MaxChars`,
`MaxPrompt`, `MaxExcerpt`) are scaled to the instance.

Deadlock is not checked: all these systems stop when nobody calls.

### Fairness

Every run with a liveness property assumes that the calls which leave the process come
back. Where the code sees to it, this is a fact: the tests of a session and of a repair
run under a timeout (`autopilot/auto_implement_runtime.py:922`,
`selfrepair/self_repair_engine.py:59`). In two places it is an assumption:
`OllamaProvider` (`providers/implementations/ollama_provider.py:22`) and `_run_verify`
(`autopilot/auto_implement_runtime.py:981`) set no timeout, so a model server or a
`verify.py` that hangs keeps its caller for ever. `SessionsFinish`, `ExecutionEnds` and
`RequestEnds`, and behind them `SeenIsServed` and `SessionsEnd`, hold if neither does.

`AutonomyQueue`: threads that can go on do (`WF` on each worker's and each handler's
remaining steps), and crashes and failed writes are never fair. `implement` returns or
raises, which is `SessionsFinish`. Nobody is obliged to enqueue. `AutoImplement`: `WF`
on each run. `AgentLoop`: `WF` on the one thread of `run`. Nobody has to resume, so
`SessionsEnd` assumes that the loop is not paused for good. `RepairPipeline` and
`AgentRuntime`: `WF` on the one thread of the call; whoever else edits the project is
under no fairness. `EvolutionEngine`: `WF` on the engine's thread and on the queue's
worker, and `SF` on the analysis, which would otherwise be allowed to raise for ever.
That is an assumption about repository and services, not about scheduling.

## Findings

`FinishedIsFinal`, against `src/docs/agent.md`: a cancel during the last goal ends the
session RUNNING or REPLANNING. The flag is looked at before goals, and line 186 of
`agent/agent_loop.py` then skips COMPLETED.

Other places where text and code differ, seen while modelling and needing no run:

- After a replan the state is never RUNNING again, and the new backlog is not
  executed, since the `for` statement keeps the old one.
- `src/docs/agent.md` glosses COMPLETED as "all goals done", while line 187 sets it for
  every session that was not cancelled, whatever failed. Its WAITING state is never
  set by any code.
- `src/docs/planner.md:203` speaks of dependencies in the choice of the next goal;
  `next_goal` does not read them.
- `src/verify.py:205` says a permission error of the teardown is ignored because all
  tests passed; the condition asks for one that passed.

## What is proved

TLAPS checks the following for every value of the constants that satisfies the
assumptions below. Each inductive invariant was checked by TLC on the instances of
the runs before it was proved. In each module the proof has one lemma per part of
the invariant, with a step per action, and the theorems at its end.

| Module | Theorem | Says |
|---|---|---|
| `AutonomyQueue_proofs` | `Invariant`, `Types` | `Spec => []CoreInv`, `Spec => []TypeOK` |
| | `SingleWorker`, `Ordered`, `RunsOnce` | `OneWorker`, `FileInOrder`, `AtMostOneRun` |
| | `Accounts`, `AccountedFor` | `IInv`, `ItemsAreAccountedFor` |
| | `Refines` | the coordinator implements `TaskQueue`: initial states and every step; flushes are stutters |
| `EvolutionEngine_proofs` | `Invariant`, `BacklogSound`, `Attended`, `Bounded` | `IInv`, `BacklogIsSound`, `EnabledIsAttended`, `ActiveBounded` |
| | `OnceWhenAlone` | `EnqueuedOnce`, when no request runs cycles and no access of a file fails |
| `AutoImplement_proofs` | `Invariant`, `Earned`, `CleanedUp`, `BackedUp` | `IInv`, `CommitsAreEarned`, `RunsCleanUp`, `OverwritesAreBackedUp` |
| | `HeadOnlyForward` | `HeadMovesForward`, of every step |
| `AgentLoop_proofs` | `Invariant`, `Accounted`, `Bounded`, `Completed` | `IInv`, `GoalsAreAccountedFor`, `WorkIsBounded`, `CancelledIsNotCompleted` |
| `Engineering_proofs` | `GoalsInvariant`, `ListenersAreTold`, `Current` | `GoalsInv`, `RepositoryIsTold`, `BacklogIsCurrent` |
| | `Cautious` | `MergeIsCautious`, of every step |
| | `PlanningSound` | `PlanningIsSound`, for every repository and every list of goals planned |
| | `RepairInvariant`, `RoundsInformed` | `RepairInv`, `RoundsAreInformed` |
| | `OutcomesTrue` | `OutcomesAreTrue`: its invariants, and `ForeignEditsSurvive` of every step |
| | `PatchesRight` | `PatchesAreRight`, for every two texts |
| `AgentRuntime_proofs` | `ExecuteIsCareful` | one call of the file tool, on every well-formed tree: the tree stays well formed, a call that fails at whatever step touches no file but the one it writes, files go only by deletion or move |
| | `Invariant`, `BudgetKept`, `RoundsAccounted` | `IInv`, `BudgetIsKept`, `RoundsAreAccountedFor` |
| | `Files` | `FilesAreKept`, of every step |
| `Mission_proofs` | `Invariant`, `Routed`, `Shown` | `IInv`, `RoutingIsJustified`, `ContextFits` |
| | `Recoverable`, `Reported` | `PatchesAreRecoverable`, `ReportsAreTrue` |
| `Server_proofs` | `Invariant`, `WorkspacesHold` | `IInv`, `WorkspacesHoldTogether` |
| | `VerificationsAnswered`, `ChatsHold`, `DebatesHold` | `VerifyAnswersItsRun`, `ChatsHoldTogether`, `DebatesHoldTogether` |

### Why the invariants are what they are

*Queue.* None of the properties is inductive. `AtMostOneRun` needs to know that a
queued item has not run and that nobody holds it, which needs that a worker writes
back over its own line only, hence that only one worker holds anything, hence
who is in the lock when a thread is started. `FileInOrder` needs that the item
written back has the order of its line. `CoreInv` is the conjunction: `LockInv` (who
is in the lock, and when the file is not whole), `WorkerInv` (only `self._worker` lives,
and what it holds), `FileInv` and `RunInv` (queued items have not run), with the types.
`AccountInv` rests on it: `KeptInv` (what was enqueued is in the file while no write was
cut short), `OutcomeInv` (the outcome a worker carries is that of its run),
`AttendedInv` (queued work nobody attends to is stranded) and `HeldInv` (what is held is
what the file calls running). The refinement maps what the file says, or will once it is
flushed, to the abstract queue: truncations are the abstract steps and flushes stutters.
That a running item is orphaned by a restart and by nothing else needs `HeldInv`.

*Evolution engine.* `CyclersInv` says who can be in a cycle, `BackedInv` that what a
thread has in memory is as well backed by the queue as the file, `SlotsInv` that a
thread about to enqueue has its place in the bound already (a counting argument over
the finite set of threads), `AttendedInv` that a thread told to stop is as good as
dead, `FreshInv` that what a cycle alone has synced and still calls pending is not
queued.

*AutoImplement.* A run that has not begun has no edit anywhere (`UnstartedInv`), none
is in a commit before the run's own (`UncommittedInv`), HEAD stays on the snapshot
until the run commits (`LoopInv`), a run without a commit has staged nothing it did
not reset (`UnstagedInv`), and edits that outlive a run are explained (`LeftoversInv`).
`TestedInv` follows what was tested to the commit, `PassedInv` the verifier's report
through tree, index and commits, `BackupInv` an answer through the loop that writes it,
`OutcomeInv` what a session says to what happened, `TrackedInv` the tracked files.

*Agent loop.* `PassedInv` and `CoveredInv` bound the session's lists by where the loop is
in its plan, `AtHandInv` says the goal at hand is stored, `CountedInv` and `LateInv` count
executor calls, and `RunningInv` ties the session's state to the loop's.

*Goals.* `GoalsInv` is inductive as the properties state it: the last event of every
goal against the repository, the cache against the repository unless a handler cut the
call short. What costs work is below it: that goals rank in a total order, that the list
in that order exists (a member's place is the number of those before it, so the places
are counted out), and that the first to do and the share done, read off the list, are
those of the repository. What the merge brings is of titles the repository does not have
(`MergedIs`), so it replaces nothing, whichever of the records it stops behind.

*Dependency graph.* `PlanningSound` is about algorithms again, and rests on no invariant
but `GoalsInv`. The searches are recursive functions on the places a search can be at,
so it is shown first that they exist: every call is on a place with less left to search,
which is a natural number (`ByMeasure`). What they answer is read against `Below`, the
smallest set of goals that holds what a goal depends on and what those depend on. The
search for a cycle keeps the nodes it is done with closed and free of cycles
(`Acyclic`), so that a search that finds none has shown that no goal is below itself,
and a cycle found is one by the path it is cut from. Kahn's queue has the invariant that
a node's degree is the number of its dependencies not yet in the order; since a graph
without cycles has, among the goals left over, one that depends on none of them, the
queue runs empty only when all are in order. The depth of a goal is at most the number
of goals below it, itself counted in where there are cycles: without it the bound is
false, for a goal that leads into a cycle at its end.

*Repair pipeline.* `PlansAreOfTheTree` says what a plan says of a file was so when it was
read, and since then the file was listed or somebody edited it; `EditsAreAccounted`
that an edit made is there until another is made and that the one about to be made was
compared with the file; `RoundIsTheNext` what the rounds before leave to the next. With
these `CompletedIsOnDisk`, `CompletedTouchesAFileOnce` and `RecordNamesTheEdits` are
inductive. What a query retrieves, what a list of counts is read as and what a diagnosis
may be are lemmas about the operators of `CodeContext` and `Diffing`.

*Patches.* `PatchesRight` is about an algorithm. `Opcodes` splits two ranges at their
longest common block, so it is a function over ranges, which exists because both parts
are smaller (`CodesExist`, by induction on the size of a range). `CodesAreRight`, by the
same induction: the opcodes of a range name pieces with no line in common, and put in
from the last to the first they make the one range of the other. The step is
`BothToPut`: the pieces behind the block are put in first, the block is the same in both
texts (`BlockPasses`), and then those ahead of it are. `PatchIsValid` reads the four
rules of the verifier off what the opcodes are. `PatchesInv` takes this through a round:
the patches verified are the plan's, and the plan's texts are those on disk unless
somebody edited since.

*Agent runtime.* `RoundsInv` counts model calls against finished rounds, `ReflectedInv`
reflections against rounds that failed, `PendingInv` says why an action is pending at
every place of a round, `ListsInv` what the lists hold. The lemmas about
the file tool go method by method through the directories it makes and the errors it
catches.

*Missions.* `StoryInv` says what the history of the run so far must be at every place
of a run; `JobInv` ties a job's place to its kind, its rounds and its report;
`BackupInv` says that a text about to be written over is already in a backup. That the
ranking is justified is a statement about one choice: the first of the best exists
(by well-foundedness of the naturals), and its score differs from that of another
agent by urgency, and on a pressed host by what dear agents are marked down.
`ShownInv` is `ContextFits` with what a job carries from one step to the next: that
the blocks of a context add up to no more than the limit is an induction over the
ranked files, with the block cut last as the last step.

*Server.* `ThreadsInv` says what a thread carries at each step. `WorkspacesInv` says what
each step of a route may rely on: the list in memory has one workspace open unless the
thread in the lock is changing it, the file holds what was saved last unless it is between
truncation and write, and a route that looked a workspace up still means the same one
unless the list moved since. `VerifyInv`: until an
undisturbed verification writes its report, the file's is older than it. `ChatInv`:
whoever is about to write the notes has read all those that overlapped nobody.
`BridgeInv`: the same of the index, which is either forgotten or holds what was
indexed (`IndexInv`), and every line missing from the learning file is paid for by a
restart or is still half written (`LearningInv`, by counting).

### Assumptions

They are named in the modules that declare the constants, and TLC evaluates them in
every run that reaches the module. Threads, handlers, engine and "nobody" are distinct,
and bounds are naturals (`ConstantsAssumption` of each module, `RequestsAssumption` of
`Requests`, `IterationsAssumption`, `BudgetAssumption`, `BoundsAssumption`,
`ForeignAssumption`). What the environment may send has the form that the code's parsers
let through (`RepliesAssumption`, `RequestsAssumption` of `AgentRuntime`,
`BridgeAssumption`, `MissionsAssumption`, `PatchingAssumption`, `ToolsAssumption`,
`ContextAssumption`, `ProposalsAssumption`, `TestRunsAssumption`, `TitlesAssumption`,
`ObjectivesAssumption`). Projects are trees (`PathsAssumption`, `TreesAssumption`,
`ChunksAssumption`) or hold files of a finite set, whose paths differ in the order they
sort in (`FilesAssumption`, `ProjectsAssumption`, `AboutAssumption`,
`MatchingAssumption`, `OrderAssumption`); the home folder exists
(`WorkspacesAssumption`).

Some say more than a type. `TextsAssumption`: a text without lines is not terminated,
and one whose last line is empty is, as `splitlines` has it. `ProjectsAssumption` has
the empty text among the texts, since a write that fails leaves it. `OfferedAssumption`:
a goal that callers add under an id of the manager's own namespace has the title this id
is made of, as `uuid5` has it; `PlannedAssumption` of `GoalPlanning` only says that
callers add what was planned. `ChatAssumption` has the excerpt of a file shorter than
the prompt, as the defaults are (4000 and 8000 characters): otherwise the question need
not be in the prompt at all. `ConstantsAssumption` of `EvolutionEngine` has the
objectives of the fallbacks among the objectives and the requests finite. `Alone` is not
assumed: it is the hypothesis of `OnceWhenAlone`, and `EvolutionEngine_engine` satisfies
it.

### What is only model-checked

- Liveness (`SeenIsServed`, `SessionsFinish`, `SessionsEnd`, `EverythingIsQueued`,
  `ExecutionEnds`, `RequestEnds`): the prover reasons neither about fairness nor `ENABLED`.
- `FinishedIsFinal`, which does not hold.

## What is not modelled

- Contents of plans, memories, prompts, answers and reports, beyond what decides.
- Two processes on the same files, but for the verifier beside the server.
- Some failures of the operating system: a `state.json` that cannot be written when the
  evolution engine is started (`start` then raises with the engine enabled in memory and
  no thread, until the next `start`), and a `_save` of the workspaces that fails with
  part of the text written; the file is truncated in the model, which `_load` reads
  alike: as no list.
- The checks of processor and memory in `ResourceManager.evaluate`
  (`resources/manager.py:234-238`): the only probe there is measures neither.
- Patches outside the project: a path with `..` is backed up outside the folder of its
  second (`agents/backup_manager.py:35-39`), where a later backup replaces it.
  `PatchesAreRecoverable` is about paths inside.
- The queue's settings per item (test command, limits), which are only passed on.
- Checkpoints: `load` has no caller, `save` is a write that may fail.
- The history file of the evolution engine, where a failed cycle is recorded
  twice (`run_once`, `_record_cycle_failure`).
- Tool broker and Composio: keyword matching, and an external SDK.
- Model providers: HTTP. A model's answer is chosen by the environment everywhere.
- Vector stores, embeddings, documents, vision and the project indexer: data
  processing without a protocol.
- Terminal, Python, browser and search tools: they run external programs.
- The front end, the command line and the entry points, which call one component each.
- `agents/agent_loop.py` and the registries of roles, which nothing above reaches.

## Plan

Done: every part of the table above but those just named, and the safety of every state
machine as theorems. What would come next:

1. A composition of `EvolutionEngine` with `AutonomyQueue` itself in place of the
   abstract queue, for the readers without a lock.
2. An abstract executor that both `RepairPipeline` implements and the agent loop's
   `Call`, `Succeed` and `Fail` use.
3. The repair pipeline's and the patching agents' writes as one model of a project with
   several writers, in place of the one foreign edit each has now.
