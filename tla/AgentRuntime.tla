---------------------------- MODULE AgentRuntime ----------------------------
(***************************************************************************)
(* One chat request through the agent runtime: chat_service classifies the *)
(* prompt, and an engineering prompt runs AgentRuntime.run, which asks the *)
(* planner for actions, executes them one by one with ActionExecutor,      *)
(* reflects when a tool failed, and goes round again until nothing asks    *)
(* for more, until maxIter rounds or until the budget of LLM calls is      *)
(* spent.  The model behind the router is the environment: it raises, or   *)
(* answers with something the planner normalises.                          *)
(***************************************************************************)
EXTENDS FilesystemTool, FiniteSets

CONSTANTS MaxIterations,   \* the largest max_iterations a runtime is built with
          MaxCalls,        \* LLMCallMetrics.max_calls
          Replies,         \* the lists of actions a model may reply with
          Requests,        \* what the classifier and the planner see in a prompt
          Trees            \* the trees a run may start from

ASSUME IterationsAssumption == MaxIterations \in Nat \ {0}
ASSUME BudgetAssumption == MaxCalls \in Nat \ {0}
ASSUME TreesAssumption == \A t \in Trees : t \in Tree /\ WellFormed(t)
ASSUME RequestsAssumption ==
  Requests \subseteq [visual : BOOLEAN, engineering : BOOLEAN, file : Paths,
                      intent : {"none", "list", "read", "search"}]

\* A raw action as json.loads gives it; what writes a file names what to write.
RawAction == [dict : BOOLEAN, tool : Names, name : Names, id : Names, type : Names, args : Calls]

ASSUME RepliesAssumption ==
  \A raws \in Replies :
    /\ raws \in Seq(RawAction)
    /\ \A i \in DOMAIN raws : raws[i].name \in Writing => raws[i].args.data \in Chunks

VARIABLES
  pc,          \* where the request is
  request,     \* what the classifier and the planner see in the prompt
  maxIter,     \* AgentRuntime.max_iterations
  iteration,   \* the loop's counter
  decision,    \* the planner's decision: its actions and its continue flag
  done,        \* how many of its actions were executed
  results,     \* tool_results of the round
  reflection,  \* the reflection of the round
  history,     \* one snapshot per finished round
  pending,     \* ExecutionState.pending_actions, as a set: an action may be listed twice
  completed,   \* ExecutionState.completed_actions, with the round of each
  errors,      \* ExecutionState.errors
  llmCalls,    \* LLMCallMetrics.calls, the roles in order
  outcome,     \* what the caller gets
  tree         \* the working directory

vars == <<pc, request, maxIter, iteration, decision, done, results, reflection, history,
          pending, completed, errors, llmCalls, outcome, tree>>

NoReflection == [text |-> FALSE, again |-> FALSE, error |-> FALSE]
NoDecision == [actions |-> <<>>, continue |-> FALSE]

-----------------------------------------------------------------------------
(***************************************************************************)
(* The planner.                                                            *)
(***************************************************************************)
Call(op, p, to, chunk) == [action |-> op, path |-> p, dst |-> to, data |-> chunk, fit |-> "fits"]
NoArgs == [Call("none", Root, Root, "none") EXCEPT !.fit = "lacks"]

\* _map_legacy_name.
LegacyAction(name) == IF name = "list_files" THEN "list_dir" ELSE name
IsLegacy(name) == LegacyAction(name) \in Methods

ToolOf(raw) == IF raw.tool = "none" /\ IsLegacy(raw.name) THEN "filesystem" ELSE raw.tool
ArgsOf(raw) ==
  LET renamed == IF raw.tool = "none" /\ IsLegacy(raw.name)
                 THEN [raw.args EXCEPT !.action = LegacyAction(raw.name)] ELSE raw.args
  IN IF ToolOf(raw) = "filesystem" /\ renamed.action = "none"
     THEN [renamed EXCEPT !.action = "list_dir"] ELSE renamed

\* _normalize_action: nothing for what is not a dict or names no tool; an id of
\* its own for what has none.
Normalizes(raw) == raw.dict /\ ToolOf(raw) # "none"
NormalizeAction(raw, round, index) ==
  [tool |-> ToolOf(raw), type |-> raw.type, args |-> ArgsOf(raw),
   id |-> IF raw.id = "none" THEN <<round, index>> ELSE <<raw.id>>]

NoId == <<>>

\* _infer_actions: what the prompt's own words suggest, without an id.
InferActions(req) ==
  LET call(op, p) == <<[tool |-> "filesystem", type |-> "tool", id |-> NoId,
                        args |-> Call(op, p, Root, "none")]>>
  IN CASE req.intent = "list"   -> call("list_dir", Root)
       [] req.intent = "read"   -> call("read_text", req.file)
       [] req.intent = "search" -> call("search", Root)
       [] req.intent = "none"   -> <<>>

\* Planner.plan, given the actions the reply lists: those that normalise, in
\* their order.
Plan(raws, round, req) ==
  LET kept == {i \in DOMAIN raws : Normalizes(raws[i])}
      Nth(n) == CHOOSE i \in kept : Cardinality({j \in kept : j =< i}) = n
  IN IF kept = {} THEN InferActions(req)
     ELSE [n \in 1..Cardinality(kept) |-> NormalizeAction(raws[Nth(n)], round, Nth(n))]

\* The replies: an object with actions and a continue flag, or a bare list that
\* has no flag; an object with a next_action; something that is no JSON.
NextAction(raw) == [raw EXCEPT !.name = "none", !.id = "none", !.type = "tool"]

-----------------------------------------------------------------------------
\* Mutant: the comparison of LLMCallMetrics.should_abort.
BudgetExceeded == Len(llmCalls) > MaxCalls

BudgetReached == Len(llmCalls) >= MaxCalls
Record(role) == llmCalls' = Append(llmCalls, role)

Init ==
  /\ pc = "classify"
  /\ request \in Requests
  /\ maxIter \in 1..MaxIterations
  /\ iteration = 0
  /\ decision = NoDecision
  /\ done = 0
  /\ results = <<>>
  /\ reflection = NoReflection
  /\ history = <<>>
  /\ pending = {}
  /\ completed = <<>>
  /\ errors = 0
  /\ llmCalls = <<>>
  /\ outcome = "none"
  /\ tree \in Trees

\* CognitionPipeline.execute: a visual file and small talk go straight to the
\* model, and what the model raises goes straight to the caller.
Classify ==
  /\ pc = "classify"
  /\ pc' = IF ~request.visual /\ request.engineering THEN "top" ELSE "direct"
  /\ UNCHANGED <<request, maxIter, iteration, decision, done, results, reflection, history,
                 pending, completed, errors, llmCalls, outcome, tree>>

Finish(how) ==
  /\ pc' = "finished"
  /\ outcome' = how

DirectAnswer ==
  /\ pc = "direct"
  /\ \E how \in {"direct", "provider raised"} : Finish(how)
  /\ UNCHANGED <<request, maxIter, iteration, decision, done, results, reflection, history,
                 pending, completed, errors, llmCalls, tree>>

\* The loop's head: the round begins, or the rounds or the budget are spent.
BeginRound ==
  /\ pc = "top" /\ iteration < maxIter /\ ~BudgetReached
  /\ iteration' = iteration + 1
  /\ Record("planner")
  /\ pc' = "planner"
  /\ UNCHANGED <<request, maxIter, decision, done, results, reflection, history, pending,
                 completed, errors, outcome, tree>>

\* Mutant: the loop is left when the budget is spent, not when the rounds are.
LeaveLoopOnBudget ==
  /\ pc = "top" /\ BudgetReached
  /\ pc' = "after"
  /\ UNCHANGED <<request, maxIter, iteration, decision, done, results, reflection, history,
                 pending, completed, errors, llmCalls, outcome, tree>>

LeaveLoop ==
  /\ pc = "top" /\ (iteration = maxIter \/ BudgetReached)
  /\ pc' = "after"
  /\ UNCHANGED <<request, maxIter, iteration, decision, done, results, reflection, history,
                 pending, completed, errors, llmCalls, outcome, tree>>

\* What the planner raises is not caught.
PlannerRaises ==
  /\ pc = "planner"
  /\ Finish("provider raised")
  /\ UNCHANGED <<request, maxIter, iteration, decision, done, results, reflection, history,
                 pending, completed, errors, llmCalls, tree>>

\* set_plan, set_pending_actions and an ActionExecutor for the round.
Take(actions, continue) ==
  /\ pc = "planner"
  /\ decision' = [actions |-> actions, continue |-> continue]
  /\ pending' = ToSet(actions)
  /\ done' = 0
  /\ results' = <<>>
  /\ reflection' = NoReflection
  /\ pc' = "execute"
  /\ UNCHANGED <<request, maxIter, iteration, history, completed, errors, llmCalls, outcome, tree>>

PlannerDecides ==
  \E raws \in Replies, continue \in BOOLEAN : Take(Plan(raws, iteration, request), continue)
PlannerNextAction ==
  \E raws \in Replies, continue \in BOOLEAN :
    /\ Len(raws) = 1 /\ raws[1].dict
    /\ Take(Plan(<<NextAction(raws[1])>>, iteration, request), continue)
PlannerRambles == Take(InferActions(request), FALSE)

-----------------------------------------------------------------------------
(***************************************************************************)
(* ActionExecutor.execute, one action at a time.                           *)
(***************************************************************************)
Action == decision.actions[done + 1]

\* mark_action_completed: by id when there is one; without an id it compares the
\* pending action with a record of other keys, which never equal it.
Settled(queue, a) ==
  IF a.id = NoId THEN queue ELSE {p \in queue : p.id # a.id}

Executing ==
  /\ pc = "execute" /\ done < Len(decision.actions)
  /\ done' = done + 1
  /\ UNCHANGED <<pc, request, maxIter, iteration, decision, reflection, history, errors,
                 llmCalls, outcome>>

Result(ok, bytes) == results' = Append(results, [ok |-> ok, bytes |-> bytes])

\* An unsupported type is refused before anything is recorded.
RefuseType ==
  /\ Executing
  /\ Action.type # "tool"
  /\ Result(FALSE, FALSE)
  /\ UNCHANGED <<pending, completed, tree>>

\* The action is appended to pending a second time; an exception leaves it there.
ToolRaises ==
  /\ Executing
  /\ Action.type = "tool" /\ Action.args.fit = "clashes"
  /\ pending' = pending \cup {Action}
  /\ Result(FALSE, FALSE)
  /\ UNCHANGED <<completed, tree>>

\* The provider's answer, a failed one too, completes the action.
Answered(answer) ==
  /\ pending' = Settled(pending \cup {Action}, Action)
  /\ completed' = Append(completed, [round |-> iteration, id |-> Action.id])
  /\ Result(answer.ok, answer.bytes)
  /\ tree' = answer.tree

CallTool ==
  /\ Executing
  /\ Action.type = "tool" /\ Action.args.fit # "clashes" /\ Action.tool = "filesystem"
  /\ Representable(tree, Action.args)
  /\ \E answer \in Answers(tree, Action.args) : Answered(answer)

UnknownTool ==
  /\ Executing
  /\ Action.type = "tool" /\ Action.args.fit # "clashes" /\ Action.tool # "filesystem"
  /\ Answered(Fails(tree))

-----------------------------------------------------------------------------
\* Mutant: all instead of any.
FailedAltogether == \A i \in DOMAIN results : ~results[i].ok
Failed == \E i \in DOMAIN results : ~results[i].ok
Snapshot(refl) == [round |-> iteration, planned |-> Len(decision.actions), results |-> results,
                   reflected |-> refl.text]
RoundDone == pc = "execute" /\ done = Len(decision.actions)

\* The budget ran out in this round: its snapshot is kept and the loop left.
OutOfBudget ==
  /\ RoundDone /\ BudgetReached
  /\ history' = Append(history, Snapshot(NoReflection))
  /\ pc' = "after"
  /\ UNCHANGED <<request, maxIter, iteration, decision, done, results, reflection, pending,
                 completed, errors, llmCalls, outcome, tree>>

\* Only a round with a failed tool is reflected upon.  Reflector.reflect turns
\* an exception of the router into a reflection of its own and text that is no
\* JSON into the empty one.
Close(refl) ==
  /\ reflection' = refl
  /\ history' = Append(history, Snapshot(refl))
  /\ errors' = IF refl.error THEN errors + 1 ELSE errors
  /\ pc' = IF decision.continue \/ refl.again THEN "top" ELSE "after"
  /\ UNCHANGED <<request, maxIter, iteration, decision, done, results, pending, completed,
                 outcome, tree>>

NothingToReflect ==
  /\ RoundDone /\ ~BudgetReached /\ ~Failed
  /\ Close(NoReflection)
  /\ UNCHANGED llmCalls

Reflect ==
  /\ RoundDone /\ ~BudgetReached /\ Failed
  /\ Record("reflection")
  /\ \E refl \in [text : BOOLEAN, again : BOOLEAN, error : BOOLEAN] : Close(refl)

ReflectorUnavailable ==
  /\ RoundDone /\ ~BudgetReached /\ Failed
  /\ Record("reflection")
  /\ Close([text |-> TRUE, again |-> FALSE, error |-> TRUE])

-----------------------------------------------------------------------------
(***************************************************************************)
(* After the loop.  _fallback_answer answers with the last reflection, or  *)
(* dumps the last results as JSON, which a bytes result makes raise.       *)
(***************************************************************************)
LastRound == Last(history)

Abort ==
  /\ pc = "after" /\ BudgetReached
  /\ Finish(IF ~LastRound.reflected /\ \E i \in DOMAIN LastRound.results : LastRound.results[i].bytes
            THEN "fallback raised" ELSE "aborted")
  /\ UNCHANGED <<request, maxIter, iteration, decision, done, results, reflection, history,
                 pending, completed, errors, llmCalls, tree>>

\* The synthesis is recorded even when the history has no tool result and no
\* model is asked.
UsedTools == \E i \in DOMAIN history : i > Len(history) - 5 /\ history[i].results # <<>>
Synthesize ==
  /\ pc = "after" /\ ~BudgetReached
  /\ Record("synthesis")
  /\ \/ Finish("answered")
     \/ UsedTools /\ Finish("provider raised")
  /\ UNCHANGED <<request, maxIter, iteration, decision, done, results, reflection, history,
                 pending, completed, errors, tree>>

-----------------------------------------------------------------------------
Think == Classify \/ DirectAnswer \/ BeginRound \/ LeaveLoop \/ PlannerRaises \/ PlannerDecides
           \/ PlannerNextAction \/ PlannerRambles
Act == RefuseType \/ ToolRaises \/ CallTool \/ UnknownTool
Conclude == OutOfBudget \/ NothingToReflect \/ Reflect \/ ReflectorUnavailable \/ Abort \/ Synthesize

Next == Think \/ Act \/ Conclude

Spec == Init /\ [][Next]_vars

\* The request is one thread that never waits for another.
FairSpec == Spec /\ WF_vars(Next)
-----------------------------------------------------------------------------
TypeOK ==
  /\ pc \in {"classify", "direct", "top", "planner", "execute", "after", "finished"}
  /\ request \in Requests
  /\ maxIter \in 1..MaxIterations
  /\ iteration \in 0..maxIter
  /\ done \in 0..Len(decision.actions)
  /\ Len(results) = done
  /\ reflection \in [text : BOOLEAN, again : BOOLEAN, error : BOOLEAN]
  /\ errors \in 0..maxIter
  /\ \A i \in DOMAIN completed : completed[i].round \in 1..iteration
  /\ outcome \in {"none", "direct", "answered", "aborted", "fallback raised", "provider raised"}
  /\ tree \in Tree

\* A run never asks the model more often than its budget allows: the checks
\* before a round, before a reflection and after the loop leave no path to a call
\* too many, so LLMCallMetrics.should_abort stays false, in an aborted run too.
NeverOverBudget == Len(llmCalls) <= MaxCalls

\* Whichever way a round ends, its snapshot is in the history once, in order, with
\* one result for each action that was planned.
RoundsAreRecorded ==
  pc \in {"top", "after"} =>
    /\ Len(history) = iteration
    /\ \A i \in DOMAIN history : history[i].round = i /\ Len(history[i].results) = history[i].planned

Reflections(roles) == {i \in DOMAIN roles : roles[i] = "reflection"}
FailedRounds(rounds) ==
  {i \in DOMAIN rounds : \E j \in DOMAIN rounds[i].results : ~rounds[i].results[j].ok}

\* A run that answers has reflected upon every round in which a tool failed, and
\* upon no other.
FailuresAreReflected ==
  outcome = "answered" =>
    Cardinality(Reflections(llmCalls)) = Cardinality(FailedRounds(history))

\* What is still listed as pending when a round is over was refused, raised, or
\* carries no id (the actions inferred from the prompt, which are listed as
\* pending and as completed): an answered action with an id never is.
PendingHasAReason ==
  pc \in {"top", "after"} =>
    \A a \in pending : a.id = NoId \/ a.type # "tool" \/ a.args.fit = "clashes"

\* A run is cut short, or loses its answer to a result that is no JSON, only when
\* two calls a round can use the budget up; the default of three rounds and ten
\* calls cannot.
AbortsOnlyWhenRoundsExceedBudget ==
  outcome \in {"aborted", "fallback raised"} => 2 * maxIter >= MaxCalls

\* The budget is kept, and is never the reason to stop where it cannot run out.
BudgetIsKept == NeverOverBudget /\ AbortsOnlyWhenRoundsExceedBudget

\* Every round is accounted for when it is over: its snapshot, the reflection upon its
\* failures, and what it leaves pending.
RoundsAreAccountedFor == TypeOK /\ RoundsAreRecorded /\ FailuresAreReflected /\ PendingHasAReason

\* Whatever the calls and their order, everything in the tree hangs from a
\* directory: parents are made before a file, and a move takes all there is below.
TreeStaysWellFormed == WellFormed(tree)

\* The files a call is told to write.
Destinations(c) ==
  CASE c.action \in Writing -> {c.path}
    [] c.action = "copy" -> {c.dst, Append(c.dst, Last(c.path))}
    [] OTHER -> {}

\* What a call that reports a failure may leave: directories, and the file it was told
\* to write, emptied or written in part but still a file, and one appended to begins
\* with what it held.
Spares(t, c, u) ==
  \A p \in Paths : u[p] # t[p] =>
    \/ t[p] = Absent /\ u[p] = Directory
    \/ /\ IsPlain(u, p) /\ p \in Destinations(c)
       /\ c.action = "append_file" => IsPrefix(t[p].data, u[p].data)

\* A call that reports a failure, wherever the operating system failed it, has touched
\* no file it was not told to write.
FailedCallsSpareFiles ==
  [][Len(results') > Len(results) /\ ~Last(results').ok => Spares(tree, Action.args, tree')]_vars

\* A file goes away only by delete_file or by a move of it or of what holds it.
FilesGoByDeleteOrMove ==
  [][\A p \in Paths : IsPlain(tree, p) /\ ~IsPlain(tree', p) =>
       \/ Action.args.action = "delete_file" /\ Action.args.path = p
       \/ Action.args.action = "move" /\ IsPrefix(Action.args.path, p)]_vars

\* The file tools keep what they are not told to take: in a sound tree, calls that fail
\* touch no file but the one they write, and no call but a deletion or a move makes one go.
FilesAreKept == []TreeStaysWellFormed /\ FailedCallsSpareFiles /\ FilesGoByDeleteOrMove

\* Every request ends, with an answer or an exception.
RequestEnds == <>(pc = "finished")

-----------------------------------------------------------------------------
(* The inductive invariant behind the safety properties                    *)

Ids == (Nat \X Nat) \cup Seq(Names)
PlannedAction == [tool : Names, type : Names, args : Calls, id : Ids]
Role == {"planner", "reflection", "synthesis"}
ToolResult == [ok : BOOLEAN, bytes : BOOLEAN]
Round == [round : Nat, planned : Nat, results : Seq(ToolResult), reflected : BOOLEAN]

\* What the lists hold.
ListsInv ==
  /\ decision.actions \in Seq(PlannedAction)
  /\ results \in Seq(ToolResult)
  /\ history \in Seq(Round)
  /\ completed \in Seq([round : Nat, id : Ids])
  /\ llmCalls \in Seq(Role)
  /\ pending \subseteq PlannedAction

InRound == pc \in {"planner", "execute"}
Between == pc \in {"classify", "top", "after"}

\* The rounds that are over are in the history; at most one call for the plan
\* and one for the reflection were made for each.
RoundsInv ==
  /\ \A i \in DOMAIN history : history[i].round = i /\ Len(history[i].results) = history[i].planned
  /\ pc \in {"classify", "direct"} => iteration = 0
  /\ InRound => iteration > 0
  /\ InRound => Len(history) = iteration - 1 /\ Len(llmCalls) =< 2 * iteration - 1
  /\ Between => Len(history) = iteration /\ Len(llmCalls) =< 2 * iteration
  /\ pc = "finished" <=> outcome # "none"
  /\ errors =< Len(history)

\* While there is budget, as many reflections as rounds with a failed tool.
ReflectedInv ==
  InRound \/ (Between /\ (pc = "after" => ~BudgetReached)) \/ outcome = "answered" =>
    Cardinality(Reflections(llmCalls)) = Cardinality(FailedRounds(history))

\* What is pending in a round has a reason to stay or is still to be executed.
PendingInv ==
  /\ pc = "classify" => pending = {}
  /\ pc = "execute" =>
       \A a \in pending :
         \/ a.id = NoId \/ a.type # "tool" \/ a.args.fit = "clashes"
         \/ \E k \in DOMAIN decision.actions : k > done /\ a = decision.actions[k]

IInv ==
  /\ RoundsAreAccountedFor /\ BudgetIsKept /\ TreeStaysWellFormed
  /\ ListsInv /\ RoundsInv /\ ReflectedInv /\ PendingInv

=============================================================================
