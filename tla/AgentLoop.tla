------------------------------ MODULE AgentLoop ------------------------------
(***************************************************************************)
(* AgentLoop (clawai/agent/agent_loop.py) with the parts of the system it  *)
(* drives: GoalManager and its in-memory repository (clawai/goals), the    *)
(* review and decision of a failed attempt (clawai/cognition), and the     *)
(* engineering memory its executor writes.                                 *)
(*                                                                         *)
(* One thread runs sessions one after the other; cancel, pause and resume  *)
(* come from other threads between any two steps and only set flags.  The  *)
(* flags belong to the loop, not to a session, and nothing resets them.    *)
(*                                                                         *)
(* A goal is its title and the namespace of its uuid5: "plan" for the      *)
(* planner's goals, "memory" for those rebuilt from memory records.        *)
(***************************************************************************)
EXTENDS Integers, Sequences, FiniteSets, SequencesExt

CONSTANTS
  Titles,
  Plans,         \* backlogs the planner may answer: sequences over Titles
  RetryLimits,   \* values RetryPolicy.max_retries may have
  ReviewLimit,   \* retries after which Reviewer asks for a new plan (3)
  GoalLimits,    \* values AgentConfiguration.max_goals may have, 0 for no limit
  AutoReplan,    \* AgentConfiguration.auto_replan
  MaxSessions,   \* bound: calls of run
  HandlersRaise  \* may a subscriber of the event bus raise?

ASSUME ConstantsAssumption ==
  /\ \A p \in Plans : p \in Seq(Titles) /\ IsInjective(p)
  /\ RetryLimits \subseteq Nat /\ ReviewLimit \in Nat /\ GoalLimits \subseteq Nat
  /\ MaxSessions \in Nat
  /\ AutoReplan \in BOOLEAN /\ HandlersRaise \in BOOLEAN

GoalId == {"plan", "memory"} \X Titles
GoalStatus == {"todo", "done", "blocked"}

VARIABLES
  maxRetries, maxGoals, \* the loop's configuration, chosen once
  pc,         \* where run() is
  state,      \* session.state
  cancelled, paused,  \* the loop's flags
  plan,       \* the backlog the for loop iterates over
  next,       \* index of the loop's goal in plan
  attempt,    \* retries of the goal so far
  completed, failed,  \* session.completed_goals, session.failed_goals
  replan,     \* the last result asks for a new plan
  repo,       \* the goal repository: goal id -> status, for those in it
  memory,     \* title -> what its records say: "none", "good", "bad"
  sessions,   \* sessions started
  starts,     \* history: executor runs for the current goal
  late,       \* history: executor runs begun after cancel was requested
  raised      \* history: a subscriber has raised inside _execute_goal

flags   == <<cancelled, paused>>
config  == <<maxRetries, maxGoals>>
session == <<state, completed, failed>>
vars == <<config, pc, session, flags, plan, next, attempt, replan, repo, memory,
          sessions, starts, late, raised>>

Init ==
  /\ maxRetries \in RetryLimits /\ maxGoals \in GoalLimits
  /\ pc = "idle" /\ state = "pending"
  /\ cancelled = FALSE /\ paused = FALSE
  /\ plan = <<>> /\ next = 1 /\ attempt = 0
  /\ completed = <<>> /\ failed = <<>> /\ replan = FALSE
  /\ repo = <<>>
  /\ memory \in [Titles -> {"none", "good", "bad"}]
  /\ sessions = 0 /\ starts = 0 /\ late = 0 /\ raised = FALSE

-----------------------------------------------------------------------------
(* The flags                                                               *)

Unflagged == <<config, pc, session, plan, next, attempt, replan, repo, memory,
               sessions, starts, late, raised>>

\* cancel() and stop() do the same.
Cancel == cancelled' = TRUE /\ UNCHANGED <<paused, Unflagged>>
Pause  == paused' = TRUE /\ UNCHANGED <<cancelled, Unflagged>>
Resume == paused' = FALSE /\ UNCHANGED <<cancelled, Unflagged>>

-----------------------------------------------------------------------------
(* GoalManager                                                             *)

Stored == DOMAIN repo
TitlesOf(ids) == {id[2] : id \in ids}
With(r, id, st) == [i \in DOMAIN r \cup {id} |-> IF i = id THEN st ELSE r[i]]

\* validate_goal in add_goal: the title is taken under another id.
Duplicate(id) == \E other \in Stored : other # id /\ other[2] = id[2]

\* Mutant of MergeMemory: the records win over what the repository says.
MergeMemoryOverrides(r) ==
  [id \in DOMAIN r \cup ({"memory"} \X {t \in Titles : memory[t] # "none"
                                                    /\ t \notin TitlesOf(DOMAIN r)}) |->
     IF memory[id[2]] = "good" THEN "done"
     ELSE IF memory[id[2]] = "bad" THEN "todo" ELSE r[id]]

\* create_backlog saves a goal for every remembered title the repository
\* lacks, done if all its records were successes.
MergeMemory(r) ==
  LET new == {t \in Titles : memory[t] # "none" /\ t \notin TitlesOf(DOMAIN r)}
  IN [id \in DOMAIN r \cup ({"memory"} \X new) |->
        IF id \in DOMAIN r THEN r[id]
        ELSE IF memory[id[2]] = "good" THEN "done" ELSE "todo"]

\* complete_goal, from whatever status.
Done(id) == IF id \in Stored THEN With(repo, id, "done") ELSE repo

-----------------------------------------------------------------------------
(* run                                                                     *)

Goal == <<"plan", plan[next]>>

\* A session starts, plans, and ends at once if there is nothing to do.
Start ==
  /\ pc \in {"idle", "finished"} /\ sessions < MaxSessions
  /\ sessions' = sessions + 1
  /\ \E p \in Plans :
       /\ plan' = p
       /\ pc' = IF p = <<>> THEN "finished" ELSE "loop"
       /\ state' = IF p = <<>> THEN "completed" ELSE "running"
  /\ next' = 1 /\ attempt' = 0 /\ completed' = <<>> /\ failed' = <<>>
  /\ replan' = FALSE /\ starts' = 0 /\ late' = 0 /\ raised' = FALSE
  /\ UNCHANGED <<config, flags, repo, memory>>

\* The planner or one of its subscribers raises: the session fails.  If it is
\* the session's own announcement that raises, run ends with it running.
PlannerRaises ==
  /\ pc \in {"idle", "finished"} /\ sessions < MaxSessions
  /\ sessions' = sessions + 1
  /\ plan' = <<>> /\ pc' = "finished"
  /\ state' \in {"failed"} \cup (IF HandlersRaise THEN {"running"} ELSE {})
  /\ next' = 1 /\ attempt' = 0 /\ completed' = <<>> /\ failed' = <<>>
  /\ replan' = FALSE /\ starts' = 0 /\ late' = 0 /\ raised' = FALSE
  /\ UNCHANGED <<config, flags, repo, memory>>

MaxGoalsReached == maxGoals > 0 /\ Len(completed) + Len(failed) >= maxGoals

\* Mutant of LoopCancelled: a paused loop does not look at the flag.
LoopCancelledAwake ==
  /\ pc = "loop" /\ next =< Len(plan) /\ cancelled /\ ~paused
  /\ state' = "cancelled"
  /\ pc' = "ending"
  /\ UNCHANGED <<config, flags, completed, failed, plan, next, attempt, replan, repo, memory,
                 sessions, starts, late, raised>>

\* Before a goal: cancelled.  A subscriber that raises makes it a failure.
LoopCancelled ==
  /\ pc = "loop" /\ next =< Len(plan) /\ cancelled
  /\ \/ state' = "cancelled" /\ pc' = "ending"
     \/ HandlersRaise /\ state' = "failed" /\ pc' = "finished"
  /\ UNCHANGED <<config, flags, completed, failed, plan, next, attempt, replan, repo, memory,
                 sessions, starts, late, raised>>

\* While paused the loop sleeps here; AddGoal and StopAtMaxGoals wait.
Awake == pc = "loop" /\ next =< Len(plan) /\ ~cancelled /\ ~paused

StopAtMaxGoals ==
  /\ Awake /\ MaxGoalsReached
  /\ pc' = "ending"
  /\ UNCHANGED <<config, session, flags, plan, next, attempt, replan, repo, memory,
                 sessions, starts, late, raised>>

\* The goal is added and the backlog rebuilt.
AddGoal ==
  /\ Awake /\ ~MaxGoalsReached /\ ~Duplicate(Goal)
  /\ repo' = MergeMemory(With(repo, Goal, "todo"))
  /\ pc' = "attempting" /\ attempt' = 0 /\ starts' = 0
  /\ UNCHANGED <<config, session, flags, plan, next, replan, memory, sessions, late, raised>>

\* add_goal raises, outside _execute_goal: the session fails.  So it does if a
\* subscriber raises at the goal's creation or start.  The merge is taken as
\* all or nothing, which is exact as long as one other title is remembered.
RejectGoal ==
  /\ Awake /\ ~MaxGoalsReached
  /\ \/ Duplicate(Goal) /\ UNCHANGED repo
     \/ /\ HandlersRaise /\ ~Duplicate(Goal)
        /\ LET added == With(repo, Goal, "todo") IN repo' \in {added, MergeMemory(added)}
  /\ state' = "failed" /\ pc' = "finished"
  /\ UNCHANGED <<config, flags, completed, failed, plan, next, attempt, replan, memory,
                 sessions, starts, late, raised>>

\* Mutant of FinalState: the flag is not looked at.
FinalStateCompleted == "completed"

FinalState == IF cancelled THEN state ELSE "completed"

\* After the last goal (or a break): completed unless cancelled.
End ==
  /\ \/ pc = "ending"
     \/ pc = "loop" /\ next > Len(plan)
  /\ state' = FinalState
  /\ pc' = "finished"
  /\ UNCHANGED <<config, flags, completed, failed, plan, next, attempt, replan, repo, memory,
                 sessions, starts, late, raised>>

-----------------------------------------------------------------------------
(* _execute_goal                                                           *)

\* Cancelled before an attempt: no result, and the loop goes on.
AttemptCancelled ==
  /\ pc = "attempting" /\ cancelled
  /\ pc' = "loop" /\ next' = next + 1
  /\ UNCHANGED <<config, session, flags, plan, attempt, replan, repo, memory, sessions, starts, late, raised>>

\* Mutant of AttemptBegins: the loop over attempts does not look at the flag.
AttemptBeginsAnyway ==
  /\ pc = "attempting"
  /\ pc' = "calling"
  /\ UNCHANGED <<config, session, flags, plan, next, attempt, replan, repo, memory, sessions, starts, late, raised>>

AttemptBegins ==
  /\ pc = "attempting" /\ ~cancelled
  /\ pc' = "calling"
  /\ UNCHANGED <<config, session, flags, plan, next, attempt, replan, repo, memory, sessions, starts, late, raised>>

\* executor.run starts; cancel may have come since the check.
Call ==
  /\ pc = "calling"
  /\ starts' = starts + 1
  /\ late' = late + (IF cancelled THEN 1 ELSE 0)
  /\ pc' = "executing"
  /\ UNCHANGED <<config, session, flags, plan, next, attempt, replan, repo, memory, sessions, raised>>

\* What the executor leaves in memory for the goal's title, if it has a memory
\* and the write succeeds: _save_memory drops exceptions.
Remember(t, outcome) ==
  memory' \in {memory, [memory EXCEPT ![t] =
                           IF outcome = "good" /\ @ # "bad" THEN "good" ELSE "bad"]}

\* The goal is over with a result; a failed one asks for a new plan.
Conclude(failure) ==
  /\ replan' = failure
  /\ pc' = "recording"

\* Reviewer and DecisionEngine on a failed attempt: "retry", or "replan" when
\* the error says so or the limit is reached.
Decisions == {"replan"} \cup (IF attempt < ReviewLimit THEN {"retry"} ELSE {})

\* RetryPolicy.can_retry
MayRetry == attempt < maxRetries

\* fail_goal, from whatever status.
Block(r) == IF Goal \in DOMAIN r THEN With(r, Goal, "blocked") ELSE r

\* A failure: retried if that is the decision and the policy has one left,
\* else the goal is failed.  done and gone are what the session lists so far
\* and r the repository, which an exception may find changed.
HandleFailure(done, gone, r) ==
  /\ completed' = done
  /\ \/ /\ "retry" \in Decisions /\ MayRetry
        /\ attempt' = attempt + 1
        /\ failed' = gone /\ repo' = r
        /\ pc' = "attempting"
        /\ UNCHANGED replan
     \/ /\ "replan" \in Decisions \/ ~MayRetry
        /\ failed' = Append(gone, Goal) /\ repo' = Block(r)
        /\ Conclude(TRUE)
        /\ UNCHANGED attempt
  /\ UNCHANGED state

\* The except branch after a subscriber raised: the same, and a subscriber
\* that raises again, before or after the goal is failed, ends the session.
HandleRaise(done, gone, r) ==
  \/ HandleFailure(done, gone, r)
  \/ /\ completed' = done
     /\ \/ failed' = gone /\ repo' \in {r, Block(r)}
        \/ failed' = Append(gone, Goal) /\ repo' = Block(r)
     /\ state' = "failed" /\ pc' = "finished"
     /\ UNCHANGED <<attempt, replan>>

\* A subscriber raises when the attempt is announced; nothing was executed.
CallRaises ==
  /\ pc = "calling" /\ HandlersRaise /\ raised' = TRUE
  /\ HandleRaise(completed, failed, repo)
  /\ UNCHANGED <<config, flags, plan, next, memory, sessions, starts, late>>

\* The executor succeeds and the goal is completed.
Succeed ==
  /\ pc = "executing"
  /\ Remember(plan[next], "good")
  /\ repo' = Done(Goal)
  /\ completed' = Append(completed, Goal)
  /\ Conclude(FALSE)
  /\ UNCHANGED <<config, state, failed, flags, plan, next, attempt, sessions, starts, late, raised>>

\* A subscriber raises on the way: before the goal is done, before the session
\* has noted it, or after.  The success is handled as a failure.
SucceedRaises ==
  /\ pc = "executing" /\ HandlersRaise /\ raised' = TRUE
  /\ Remember(plan[next], "good")
  /\ \/ HandleRaise(completed, failed, repo)
     \/ HandleRaise(completed, failed, Done(Goal))
     \/ HandleRaise(Append(completed, Goal), failed, Done(Goal))
  /\ UNCHANGED <<config, flags, plan, next, sessions, starts, late>>

\* The executor fails or raises.
Fail ==
  /\ pc = "executing"
  /\ Remember(plan[next], "bad")
  /\ HandleFailure(completed, failed, repo)
  /\ UNCHANGED <<config, flags, plan, next, sessions, starts, late, raised>>

\* It fails and a subscriber raises: the failure is handled a second time.
FailRaises ==
  /\ pc = "executing" /\ HandlersRaise /\ raised' = TRUE
  /\ Remember(plan[next], "bad")
  /\ \/ HandleRaise(completed, failed, repo)
     \/ HandleRaise(completed, failed, Block(repo))
     \/ HandleRaise(completed, Append(failed, Goal), Block(repo))
  /\ UNCHANGED <<config, flags, plan, next, sessions, starts, late>>

-----------------------------------------------------------------------------
(* run, after a goal's result                                              *)

\* Results and checkpoint, and the replan: a new backlog is made and stored
\* in a variable the loop does not look at again.
Record ==
  /\ pc = "recording"
  /\ state' = IF replan /\ AutoReplan THEN "replanning" ELSE state
  /\ pc' = "loop" /\ next' = next + 1
  /\ UNCHANGED <<config, completed, failed, flags, plan, attempt, replan, repo, memory,
                 sessions, starts, late, raised>>

\* The checkpoint cannot be written, or the replanning planner raises.
RecordRaises ==
  /\ pc = "recording"
  /\ state' = "failed" /\ pc' = "finished"
  /\ UNCHANGED <<config, completed, failed, flags, plan, next, attempt, replan, repo, memory,
                 sessions, starts, late, raised>>

-----------------------------------------------------------------------------
Run ==
  \/ LoopCancelled \/ StopAtMaxGoals \/ AddGoal \/ RejectGoal \/ End
  \/ AttemptCancelled \/ AttemptBegins \/ Call \/ CallRaises
  \/ Succeed \/ SucceedRaises \/ Fail \/ FailRaises
  \/ Record \/ RecordRaises

Next == Run \/ Start \/ PlannerRaises \/ Cancel \/ Pause \/ Resume

Spec == Init /\ [][Next]_vars

\* run() is one thread: it goes on whenever it can.  Nobody has to resume.
FairSpec == Spec /\ WF_vars(Run)

-----------------------------------------------------------------------------
(* Properties                                                              *)

\* Type correctness of the session, the loop's flags and the repository.
TypeOK ==
  /\ maxRetries \in RetryLimits /\ maxGoals \in GoalLimits
  /\ pc \in {"idle", "loop", "attempting", "calling", "executing", "recording",
             "ending", "finished"}
  /\ state \in {"pending", "running", "replanning", "completed", "failed", "cancelled"}
  /\ cancelled \in BOOLEAN /\ paused \in BOOLEAN /\ replan \in BOOLEAN
  /\ plan \in Plans \cup {<<>>} /\ next \in 1..(Len(plan) + 1)
  /\ attempt \in 0..maxRetries
  /\ completed \in Seq(GoalId) /\ failed \in Seq(GoalId)
  /\ Stored \subseteq GoalId /\ \A id \in Stored : repo[id] \in GoalStatus
  /\ memory \in [Titles -> {"none", "good", "bad"}]
  /\ sessions \in 0..MaxSessions /\ starts \in Nat /\ late \in Nat /\ raised \in BOOLEAN

\* Every goal of a session ends at most once: no goal is listed twice, nor as
\* both completed and failed, across retries, unless a subscriber raised.
GoalsEndOnce == raised \/ IsInjective(completed \o failed)

\* The goal manager agrees with the session: completed goals are DONE and
\* failed ones BLOCKED, also for a goal that memory merging touched, unless a
\* subscriber raised between the two records.
ManagerAgrees ==
  raised \/ /\ \A id \in ToSet(completed) : id \in Stored /\ repo[id] = "done"
            /\ \A id \in ToSet(failed) : id \in Stored /\ repo[id] = "blocked"

\* A goal the session lists is not left "todo" by a later rebuild of the
\* backlog, even if a raising subscriber got it listed twice or on both sides.
ListedHasEnded == \A id \in ToSet(completed \o failed) : id \in Stored /\ repo[id] # "todo"

\* A goal is attempted at most max_retries + 1 times, and no more often than
\* the reviewer's own limit allows.
AttemptsBounded == starts =< maxRetries + 1 /\ starts =< ReviewLimit + 1

\* After cancel() the executor is called at most once more, whichever of the
\* three checks the request slips past.
CancelStopsWork == late =< 1

\* The repository never holds two goals of one title, so a memory goal and a
\* planned goal of the same title exclude each other.
TitlesUnique == \A i, j \in Stored : i[2] = j[2] => i = j

\* Whatever retries, merged memories and raising subscribers do to it, each goal is
\* accounted for: it ended once, and the goal manager and the session agree how.
GoalsAreAccountedFor == TypeOK /\ GoalsEndOnce /\ ManagerAgrees /\ ListedHasEnded /\ TitlesUnique

\* The executor is called no more often than retries and reviewer allow, and once at most
\* after a cancel.
WorkIsBounded == AttemptsBounded /\ CancelStopsWork

\* A session that ends as completed gave up no goal: each one was completed or
\* failed, or the limit was reached.  A cancelled one never claims completion.
CancelledIsNotCompleted ==
  pc = "finished" /\ state = "completed" =>
    \/ MaxGoalsReached
    \/ \A k \in DOMAIN plan : <<"plan", plan[k]>> \in ToSet(completed \o failed)

\* Every session ends, unless the loop is paused for good and nobody cancels.
SessionsEnd ==
  <>[](~paused \/ cancelled) => ((pc = "loop") ~> (pc = "finished"))

-----------------------------------------------------------------------------
(* The inductive invariant behind the safety properties                    *)

Trying == {"attempting", "calling", "executing"}
WithGoal == Trying \cup {"recording"}
InLoop == {"loop"} \cup WithGoal

Listed == ToSet(completed \o failed)

\* While the loop runs its session runs; a loop that broke off was cancelled or
\* reached the limit.
RunningInv ==
  /\ pc \in InLoop => state \in {"running", "replanning"}
  /\ pc = "ending" => \/ cancelled /\ state # "completed"
                     \/ MaxGoalsReached

\* The goal at hand is one of the plan's and the repository knows it.
AtHandInv == pc \in WithGoal => next =< Len(plan) /\ Goal \in Stored

\* The session lists goals of the plan that the loop has passed; the goal at
\* hand only once it has a result, or if a subscriber raised after it had one.
PassedInv ==
  pc \in InLoop =>
    \A id \in Listed : \E k \in DOMAIN plan :
      /\ id = <<"plan", plan[k]>>
      /\ \/ k < next
         \/ k = next /\ (pc \in Trying => raised) /\ pc # "loop"

\* No goal is passed unlisted before a cancel.
CoveredInv ==
  /\ pc \in InLoop => \/ cancelled
                      \/ \A k \in DOMAIN plan : k < next => <<"plan", plan[k]>> \in Listed
  /\ pc = "recording" => Goal \in Listed

\* Every executor run but the last was followed by a counted retry.
CountedInv ==
  /\ attempt =< ReviewLimit /\ starts =< attempt + 1
  /\ pc \in {"attempting", "calling"} => starts =< attempt

\* A run after a cancel was on its way when the cancel came.
LateInv == late = 0 \/ (late = 1 /\ cancelled /\ pc # "calling")

IInv ==
  /\ GoalsAreAccountedFor /\ CancelledIsNotCompleted
  /\ RunningInv /\ AtHandInv /\ PassedInv /\ CoveredInv /\ CountedInv /\ LateInv

-----------------------------------------------------------------------------
(* What docs/agent.md says of the session's states                         *)

\* docs/agent.md, "State Machine": only COMPLETED, FAILED and CANCELLED end it.
FinishedIsFinal == pc = "finished" => state \in {"completed", "failed", "cancelled"}
=============================================================================
