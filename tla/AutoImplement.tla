---------------------------- MODULE AutoImplement ----------------------------
(***************************************************************************)
(* AutoImplementService (clawai/autopilot/auto_implement_runtime.py): runs *)
(* that let a model edit the repository's own workspace, test and verify   *)
(* the edit, and commit it on a branch or roll it back with GitService     *)
(* (clawai/git/git_service.py).                                            *)
(*                                                                         *)
(* A run is a synchronous call (implement) or a background session         *)
(* (start).  Both execute under one lock; stop and the editor's file saves *)
(* take no lock and interleave with every step.                            *)
(*                                                                         *)
(* A file's content is abstracted to who wrote it: the repository's first  *)
(* commit, the user, or one iteration of a run.                            *)
(***************************************************************************)
EXTENDS Integers, Sequences, FiniteSets

CONSTANTS
  Runs,          \* identities of calls
  Tracked,       \* files of the first commit
  New,           \* paths that do not exist there
  Proposals,     \* change lists the model may answer: sequences over
                 \* Tracked \cup New, with Malformed where an item is invalid
  Malformed,
  BlankTests,    \* runs whose test_command is blank
  NoOne,
  MaxIterations, \* the clamped max_iterations
  MaxSaves,      \* bound: saves by the user
  GitFails,      \* may git commands fail?
  VerifierDies   \* may verify.py end without writing its report?

Files == Tracked \cup New

ASSUME ConstantsAssumption ==
  /\ Tracked \cap New = {} /\ Malformed \notin Files
  /\ Runs \cap {NoOne, "nobody", "base", "user"} = {}
  /\ Proposals \subseteq Seq(Files \cup {Malformed})
  /\ BlankTests \subseteq Runs
  /\ MaxIterations \in 1..5 /\ MaxSaves \in Nat
  /\ GitFails \in BOOLEAN /\ VerifierDies \in BOOLEAN

Absent  == [by |-> "nobody", iteration |-> 0]
Base    == [by |-> "base", iteration |-> 0]
User    == [by |-> "user", iteration |-> 0]
Written(r, i) == [by |-> r, iteration |-> i]
Content == [by : Runs \cup {"nobody", "base", "user"}, iteration : 0..MaxIterations]
Tree == [Files -> Content]

VARIABLES
  pc,       \* run -> control state
  kind,     \* run -> "sync" or "session", "none" before the call
  status,   \* run -> session.status
  cancel,   \* run -> session.cancel_requested
  success,  \* run -> result.success, "raised", or "none"
  branch,   \* run -> result.git_enabled: it worked on a branch of its own
  final,    \* run -> the status _run_background is about to write
  lock,     \* self._lock
  ex,       \* local state of _execute in the lock holder, with the backup
            \* directory of its current iteration (no two iterations share one)
  tree,     \* the working tree
  index,    \* git's index
  head,     \* the commit HEAD is on
  commits,  \* all commits, in order of creation
  report,   \* status in verify_report.json, [tree, index] like a tracked file
  saves,
  passed,   \* history: some verifier run wrote PASS
  stuck     \* history: runs of which a git reset failed

calls == <<pc, kind, status, cancel, success, branch, final>>
repo  == <<tree, index, head, commits, report>>
history == <<passed, stuck>>
vars  == <<calls, lock, ex, repo, saves, history>>

Nothing == [f \in Files |-> Absent]
Idle == [iteration |-> 0, snapshot |-> 1, git |-> FALSE, answer |-> <<>>, todo |-> <<>>,
         test |-> "none", verify |-> "none", committed |-> FALSE,
         before |-> Nothing, backup |-> Nothing,
         tested |-> Nothing]

First == [f \in Files |-> IF f \in Tracked THEN Base ELSE Absent]

Init ==
  /\ pc = [r \in Runs |-> "idle"] /\ kind = [r \in Runs |-> "none"]
  /\ status = [r \in Runs |-> "none"] /\ cancel = [r \in Runs |-> FALSE]
  /\ branch = [r \in Runs |-> FALSE]
  /\ success = [r \in Runs |-> "none"] /\ final = [r \in Runs |-> "none"]
  /\ lock = NoOne /\ ex = Idle
  /\ tree = First /\ index = First /\ head = 1
  /\ commits = <<[tree |-> First, report |-> "FAIL", parent |-> 0, by |-> "base",
                  tested |-> First, verify |-> "passed"]>>
  /\ report = [tree |-> "FAIL", index |-> "FAIL"]
  /\ saves = 0 /\ passed = FALSE /\ stuck = {}

Goto(r, l) == pc' = [pc EXCEPT ![r] = l]

-----------------------------------------------------------------------------
(* Callers                                                                 *)

\* implement(): the caller's own thread runs; start(): a session is
\* registered as running and a thread is started for it.
Call(r, k) ==
  /\ pc[r] = "idle"
  /\ kind' = [kind EXCEPT ![r] = k]
  /\ status' = [status EXCEPT ![r] = IF k = "session" THEN "running" ELSE "none"]
  /\ Goto(r, "waiting")
  /\ UNCHANGED <<cancel, success, branch, final, lock, ex, repo, saves, history>>

\* stop(run_id): no lock, no look at what the session's status is.
Stop(r) ==
  /\ kind[r] = "session"
  /\ cancel' = [cancel EXCEPT ![r] = TRUE]
  /\ status' = [status EXCEPT ![r] = "cancel_requested"]
  /\ UNCHANGED <<pc, kind, success, branch, final, lock, ex, repo, saves, history>>

\* The editor saves a file; the API takes none of the service's locks.
UserSave(f) ==
  /\ saves < MaxSaves
  /\ saves' = saves + 1
  /\ tree' = [tree EXCEPT ![f] = User]
  /\ UNCHANGED <<calls, lock, ex, index, head, commits, report, history>>

-----------------------------------------------------------------------------
(* _execute                                                                *)

Acquire(r) ==
  /\ pc[r] = "waiting" /\ lock = NoOne
  /\ lock' = r /\ ex' = Idle
  /\ Goto(r, "starting")
  /\ UNCHANGED <<kind, status, cancel, success, branch, final, repo, saves, history>>

\* Mutant of Snapshot: it is taken once, when the service is created.
FirstSnapshot == 1

Snapshot == head

\* _initialize_git_workspace: the snapshot is HEAD; a branch is created there,
\* which keeps whatever is uncommitted.
InitializeGit(r) ==
  /\ pc[r] = "starting"
  /\ \E works \in {TRUE} \cup (IF GitFails THEN {FALSE} ELSE {}) :
       /\ ex' = [ex EXCEPT !.snapshot = Snapshot, !.git = works]
       /\ branch' = [branch EXCEPT ![r] = works]
  /\ Goto(r, "checking")
  /\ UNCHANGED <<kind, status, cancel, success, final, lock, repo, saves, history>>

\* The head of the for loop: out of iterations, or cancelled.
LeaveLoop(r) ==
  /\ pc[r] = "checking"
  /\ ex.iteration = MaxIterations \/ cancel[r]
  /\ Goto(r, "concluding")
  /\ UNCHANGED <<kind, status, cancel, success, branch, final, lock, ex, repo, saves, history>>

\* The next iteration asks the model, which answers with a change list.
Ask(r) ==
  /\ pc[r] = "checking"
  /\ ex.iteration < MaxIterations /\ ~cancel[r]
  /\ \E p \in Proposals :
       ex' = [ex EXCEPT !.iteration = @ + 1, !.answer = p, !.todo = p, !.before = tree,
                        !.test = "none", !.verify = "none"]
  /\ Goto(r, "applying")
  /\ UNCHANGED <<kind, status, cancel, success, branch, final, lock, repo, saves, history>>

\* Mutant of Raise: the lock is not released on the way out.
RaiseHoldingLock(r) ==
  /\ success' = [success EXCEPT ![r] = "raised"]
  /\ final' = [final EXCEPT ![r] = "failed"]
  /\ Goto(r, IF kind[r] = "session" THEN "finalizing" ELSE "finished")
  /\ UNCHANGED <<lock, ex>>

\* An exception leaves _execute: the lock is released and nothing is undone.
Raise(r) ==
  /\ lock' = NoOne
  /\ success' = [success EXCEPT ![r] = "raised"]
  /\ final' = [final EXCEPT ![r] = "failed"]
  /\ Goto(r, IF kind[r] = "session" THEN "finalizing" ELSE "finished")
  /\ ex' = Idle

\* The model cannot be reached, or its answer is not the JSON asked for.
AskRaises(r) ==
  /\ pc[r] = "checking"
  /\ ex.iteration < MaxIterations /\ ~cancel[r]
  /\ Raise(r)
  /\ UNCHANGED <<kind, status, cancel, branch, repo, saves, history>>

\* Mutant of Aside: the copy is made after the write.
AsideAfterWrite(r, f) == Written(r, ex.iteration)

\* shutil.copy2 of what exists; a second write of the same path copies again.
Aside(r, f) == IF tree[f] = Absent THEN ex.backup[f] ELSE tree[f]

\* _apply_changes, one item: what exists is copied aside and overwritten.
WriteChange(r) ==
  /\ pc[r] = "applying" /\ ex.todo # <<>> /\ Head(ex.todo) # Malformed
  /\ LET f == Head(ex.todo) IN
       /\ tree' = [tree EXCEPT ![f] = Written(r, ex.iteration)]
       /\ ex' = [ex EXCEPT !.todo = Tail(@), !.backup[f] = Aside(r, f)]
  /\ UNCHANGED <<calls, lock, index, head, commits, report, saves, history>>

\* The proposed content is what the file already says.
SkipUnchanged(r) ==
  /\ pc[r] = "applying" /\ ex.todo # <<>> /\ Head(ex.todo) # Malformed
  /\ tree[Head(ex.todo)] # Absent
  /\ ex' = [ex EXCEPT !.todo = Tail(@)]
  /\ UNCHANGED <<calls, lock, repo, saves, history>>

\* An invalid item raises after the earlier ones were written.
RejectChange(r) ==
  /\ pc[r] = "applying" /\ ex.todo # <<>> /\ Head(ex.todo) = Malformed
  /\ Raise(r)
  /\ UNCHANGED <<kind, status, cancel, branch, repo, saves, history>>

\* _run_tests on the tree as it is now; a timeout is a failure.
RunTests(r) ==
  /\ pc[r] = "applying" /\ ex.todo = <<>>
  /\ \E outcome \in IF r \in BlankTests THEN {"none"} ELSE {"passed", "failed"} :
       ex' = [ex EXCEPT !.test = outcome, !.tested = tree, !.answer = <<>>,
                        !.before = Nothing, !.backup = Nothing]
  /\ Goto(r, "verifying")
  /\ UNCHANGED <<kind, status, cancel, success, branch, final, lock, repo, saves, history>>

\* _run_verify believes the report file over the exit code; a verifier that
\* dies early leaves the report of an earlier run.
Believed == IF report.tree = "PASS" THEN "stale" ELSE "failed"

RunVerify(r) ==
  /\ pc[r] = "verifying"
  /\ \/ /\ report' = [report EXCEPT !.tree = "PASS"]
        /\ passed' = TRUE
        /\ ex' = [ex EXCEPT !.verify = "passed"]
     \/ /\ report' = [report EXCEPT !.tree = "FAIL"]
        /\ ex' = [ex EXCEPT !.verify = "failed"]
        /\ UNCHANGED passed
     \/ /\ VerifierDies
        /\ ex' = [ex EXCEPT !.verify = Believed]
        /\ UNCHANGED <<report, history>>
  /\ Goto(r, "deciding")
  /\ UNCHANGED <<kind, status, cancel, success, branch, final, lock, tree, index, head, commits,
                 saves, stuck>>

Good == ex.test = "passed" /\ ex.verify \in {"passed", "stale"}

\* Without git a good iteration ends the loop; a bad one just goes on.
DecideWithoutGit(r) ==
  /\ pc[r] = "deciding" /\ ~ex.git
  /\ Goto(r, IF Good THEN "concluding" ELSE "checking")
  /\ UNCHANGED <<kind, status, cancel, success, branch, final, lock, ex, repo, saves, history>>

\* Mutant of AddAll: git add -u, which passes over new files.
AddUpdated == [f \in Files |-> IF index[f] # Absent THEN tree[f] ELSE Absent]

\* What git add -A leaves in the index.
AddAll == tree

StageAll(r) ==
  /\ pc[r] = "deciding" /\ ex.git /\ Good
  /\ \/ /\ index' = AddAll /\ report' = [report EXCEPT !.index = report.tree]
        /\ Goto(r, "committing")
     \/ /\ GitFails
        /\ Goto(r, "rolling") /\ UNCHANGED <<index, report>>
  /\ UNCHANGED <<kind, status, cancel, success, branch, final, lock, ex, tree, head, commits,
                 saves, history>>

\* git commit: what is staged, not what the tree says by now.
Commit(r) ==
  /\ pc[r] = "committing"
  /\ \/ /\ commits' = Append(commits, [tree |-> index, report |-> report.index,
                                       parent |-> head, by |-> r,
                                       tested |-> ex.tested, verify |-> ex.verify])
        /\ head' = Len(commits) + 1
        /\ ex' = [ex EXCEPT !.committed = TRUE, !.tested = Nothing]
        /\ Goto(r, "concluding")
     \/ /\ GitFails
        /\ Goto(r, "rolling") /\ UNCHANGED <<commits, head, ex>>
  /\ UNCHANGED <<kind, status, cancel, success, branch, final, lock, tree, index, report,
                 saves, history>>

\* Mutant of ResetTree: a reset that is not --hard.
SoftReset(snap) == tree

\* git reset --hard restores what the snapshot has, removes what is only
\* staged, and leaves untracked files alone.
ResetTree(snap) ==
  [f \in Files |-> IF snap.tree[f] # Absent THEN snap.tree[f]
                   ELSE IF index[f] # Absent THEN Absent ELSE tree[f]]

\* A bad iteration under git, or one that cannot be committed, is rolled back.
Rollback(r) ==
  /\ pc[r] = "rolling" \/ (pc[r] = "deciding" /\ ex.git /\ ~Good)
  /\ ex' = [ex EXCEPT !.tested = Nothing]
  /\ LET snap == commits[ex.snapshot] IN
     \/ /\ tree' = ResetTree(snap)
        /\ index' = snap.tree
        /\ report' = [tree |-> snap.report, index |-> snap.report]
        /\ head' = ex.snapshot
        /\ UNCHANGED stuck
     \/ /\ GitFails
        /\ stuck' = stuck \cup {r}
        /\ UNCHANGED <<tree, index, report, head>>
  /\ Goto(r, "checking")
  /\ UNCHANGED <<kind, status, cancel, success, branch, final, lock, commits, saves, passed>>

Succeeded(r) == Good /\ ~cancel[r] /\ (ex.git => ex.committed)

\* The result: the last iteration was good, not cancelled, and committed if
\* there is git.  The lock is released with it.
Conclude(r) ==
  /\ pc[r] = "concluding"
  /\ success' = [success EXCEPT ![r] = IF Succeeded(r) THEN "yes" ELSE "no"]
  /\ lock' = NoOne /\ ex' = Idle
  /\ Goto(r, IF kind[r] = "session" THEN "returned" ELSE "finished")
  /\ UNCHANGED <<kind, status, cancel, branch, final, repo, saves, history>>

-----------------------------------------------------------------------------
(* _run_background after _execute                                          *)

\* The status is chosen by a second look at cancel_requested ...
ChooseStatus(r) ==
  /\ pc[r] = "returned"
  /\ final' = [final EXCEPT ![r] = IF cancel[r] THEN "cancelled"
                                   ELSE IF success[r] = "yes" THEN "success" ELSE "failed"]
  /\ Goto(r, "finalizing")
  /\ UNCHANGED <<kind, status, cancel, success, branch, lock, ex, repo, saves, history>>

\* ... and written by _finalize_session.
Finalize(r) ==
  /\ pc[r] = "finalizing"
  /\ status' = [status EXCEPT ![r] = final[r]]
  /\ Goto(r, "finished")
  /\ UNCHANGED <<kind, cancel, success, branch, final, lock, ex, repo, saves, history>>

-----------------------------------------------------------------------------
Execute(r) ==
  \/ Acquire(r) \/ InitializeGit(r) \/ LeaveLoop(r) \/ Ask(r) \/ AskRaises(r)
  \/ WriteChange(r) \/ SkipUnchanged(r) \/ RejectChange(r)
  \/ RunTests(r) \/ RunVerify(r) \/ DecideWithoutGit(r) \/ StageAll(r) \/ Commit(r)
  \/ Rollback(r) \/ Conclude(r) \/ ChooseStatus(r) \/ Finalize(r)

Next ==
  \/ \E r \in Runs : Execute(r) \/ Call(r, "sync") \/ Call(r, "session") \/ Stop(r)
  \/ \E f \in Files : UserSave(f)

Spec == Init /\ [][Next]_vars

\* A run's thread is scheduled and every call it makes returns (tests have a
\* timeout); callers, stops and saves come if they come.
FairSpec == Spec /\ \A r \in Runs : WF_vars(Execute(r))

-----------------------------------------------------------------------------
(* Properties                                                              *)

Executing == {"starting", "checking", "applying", "verifying", "deciding",
              "committing", "rolling", "concluding"}

\* Type correctness, with the lock's meaning: the holder is the run executing.
TypeOK ==
  /\ pc \in [Runs -> Executing \cup {"idle", "waiting", "returned", "finalizing", "finished"}]
  /\ kind \in [Runs -> {"none", "sync", "session"}]
  /\ status \in [Runs -> {"none", "running", "cancel_requested", "cancelled", "success", "failed"}]
  /\ cancel \in [Runs -> BOOLEAN]
  /\ success \in [Runs -> {"none", "yes", "no", "raised"}]
  /\ branch \in [Runs -> BOOLEAN]
  /\ final \in [Runs -> {"none", "cancelled", "success", "failed"}]
  /\ lock \in Runs \cup {NoOne}
  /\ \A r \in Runs : pc[r] \in Executing <=> lock = r
  /\ tree \in Tree /\ index \in Tree /\ head \in DOMAIN commits
  /\ report \in [tree : {"PASS", "FAIL"}, index : {"PASS", "FAIL"}]
  /\ saves \in 0..MaxSaves /\ passed \in BOOLEAN /\ stuck \subseteq Runs

CommittedBy(r) == \E k \in DOMAIN commits : commits[k].by = r

\* Every automatic commit holds exactly what its tests passed on, file by
\* file, except where the user saved between the tests and git add.
CommitsAreTested ==
  \A k \in DOMAIN commits : \A f \in Files :
    commits[k].tree[f] # commits[k].tested[f] => commits[k].tree[f] = User

\* A commit on the word of a report its verifier did not write needs an
\* earlier run that did pass: the repository's own FAIL report never lets one in.
StaleReportNeedsAPass ==
  \A k \in DOMAIN commits : commits[k].verify = "stale" => passed

\* A run that ends its loop without a commit leaves none of its edits in a
\* file its snapshot tracks, unless git reset itself failed.
FailedRunIsUndone ==
  \A r \in Runs :
    pc[r] \in {"concluding", "checking"} /\ ex.git /\ ~ex.committed /\ r \notin stuck =>
      \A f \in Files : commits[ex.snapshot].tree[f] # Absent => tree[f].by # r

\* What another run wrote gets into a run's commit only if that run committed
\* it, raised, worked without a branch or had a rollback fail, or if it is a
\* file git did not track.
ForeignEditsInCommits ==
  \A k \in DOMAIN commits : \A f \in Files : \A r \in Runs :
    LET c == commits[k] IN
    c.by # r /\ c.tree[f].by = r =>
      \/ CommittedBy(r) \/ success[r] = "raised" \/ ~branch[r] \/ r \in stuck
      \/ f \notin Tracked

\* What is committed was earned: by tests of just that tree, by a verifier that did pass,
\* and by the run whose commit it is.
CommitsAreEarned == TypeOK /\ CommitsAreTested /\ StaleReportNeedsAPass /\ ForeignEditsInCommits

\* HEAD never leaves a commit behind: it stays, or moves to a child of where
\* it is.  No rollback undoes an automatic commit, its own run's or another's.
HeadMovesForward == [][head' # head => commits'[head'].parent = head]_vars

\* A session reported as a success has its result committed, if it worked on
\* a branch: whatever stop, failed commits and rollbacks came before.
SuccessIsCommitted ==
  \A r \in Runs : status[r] = "success" =>
    success[r] = "yes" /\ (branch[r] => CommittedBy(r))

\* However git fails, what a run leaves in the tree and in other runs' commits is what it
\* owns up to: a failed run is undone, a success is committed.
RunsCleanUp == FailedRunIsUndone /\ SuccessIsCommitted /\ ForeignEditsInCommits

\* Whatever an iteration overwrites is in its backup directory, as it was when
\* the iteration began or as the user saved it since, unless the answer names
\* the file twice and the second write's copy replaces the first's.
OverwritesAreBackedUp ==
  \A r \in Runs : pc[r] = "applying" =>
    \A f \in Files :
      (/\ tree[f] = Written(r, ex.iteration) /\ ex.before[f] # Absent
       /\ Cardinality({k \in DOMAIN ex.answer : ex.answer[k] = f}) = 1)
      => ex.backup[f] \in {ex.before[f], User}

\* Every session that was started ends and says so, stopped or not, however
\* many runs wait for the one lock.
SessionsFinish == \A r \in Runs : pc[r] = "waiting" ~> pc[r] = "finished"

-----------------------------------------------------------------------------
(* The inductive invariant behind the safety properties                    *)

Outcome == {"none", "passed", "failed", "stale"}
Record == [tree : Tree, report : {"PASS", "FAIL"}, parent : Nat, by : Runs \cup {"base"},
           tested : Tree, verify : Outcome]
Local == [iteration : 0..MaxIterations, snapshot : Nat, git : BOOLEAN,
          answer : Seq(Files \cup {Malformed}), todo : Seq(Files \cup {Malformed}),
          test : Outcome, verify : Outcome, committed : BOOLEAN,
          before : Tree, backup : Tree, tested : Tree]

\* The types of what the holder of the lock has, and of the commits.
LocalTypeOK == commits \in Seq(Record) /\ ex \in Local /\ ex.snapshot \in DOMAIN commits

Early == {"idle", "waiting", "starting"}
InLoop == Executing \ {"starting", "concluding"}

\* A run that has not begun has no edit anywhere.
UnstartedInv ==
  \A r \in Runs : pc[r] \in Early => \A f \in Files : tree[f].by # r /\ index[f].by # r

\* Nor is one in a commit before the run's own.
UncommittedInv ==
  \A r \in Runs : pc[r] \in Early \/ (pc[r] \in Executing /\ ~ex.committed) =>
    \A k \in DOMAIN commits : commits[k].by # r /\ \A f \in Files : commits[k].tree[f].by # r

\* Under the lock, HEAD stays on the run's snapshot until the run commits.
LoopInv ==
  \A r \in Runs :
    /\ pc[r] = "starting" => ~ex.committed
    /\ pc[r] \in InLoop => ex.snapshot = head /\ ~ex.committed
    /\ pc[r] \in Executing \ {"starting"} => branch[r] = ex.git
    /\ pc[r] \in {"committing", "rolling"} => ex.git
    /\ pc[r] \in Executing /\ ex.committed => CommittedBy(r)
    /\ pc[r] \in Executing =>
         \A f \in Files : tree[f].by = r => tree[f].iteration =< ex.iteration

\* A run without a commit has staged nothing that it did not go on to reset.
UnstagedInv ==
  \A r \in Runs :
    pc[r] \in Executing \ {"committing", "rolling"} /\ ~ex.committed /\ r \notin stuck =>
      \A f \in Files : index[f].by # r

\* What explains that an edit outlives its run.
Explained(r) == CommittedBy(r) \/ success[r] = "raised" \/ ~branch[r] \/ r \in stuck

LeftoversInv ==
  \A r \in Runs : \A f \in Tracked :
    pc[r] \notin Executing /\ (tree[f].by = r \/ index[f].by = r) => Explained(r)

TrackedInv ==
  \A f \in Tracked :
    tree[f] # Absent /\ index[f] # Absent /\ \A k \in DOMAIN commits : commits[k].tree[f] # Absent

\* A run says it succeeded only after it did.
OutcomeInv ==
  \A r \in Runs :
    /\ pc[r] \in Executing \cup {"idle", "waiting"} => success[r] = "none"
    /\ success[r] = "yes" => (branch[r] => CommittedBy(r))
    /\ pc[r] \notin {"finalizing", "finished"} => final[r] = "none" /\ status[r] # "success"
    /\ final[r] = "success" => success[r] = "yes"
    /\ status[r] = "success" => final[r] = "success"

\* What was tested is what will be staged, or is staged, but for the user's saves.
TestedInv ==
  \A r \in Runs : \A f \in Files :
    /\ pc[r] \in {"verifying", "deciding"} /\ tree[f] # ex.tested[f] => tree[f] = User
    /\ pc[r] = "committing" /\ index[f] # ex.tested[f] => index[f] = User

\* No report says PASS, in the tree, the index or a commit, before a verifier did.
PassedInv ==
  \/ passed
  \/ /\ report.tree = "FAIL" /\ report.index = "FAIL" /\ ex.verify # "stale"
     /\ \A k \in DOMAIN commits : commits[k].report = "FAIL"

\* The items still to write are the last of the answer; a file named once is as it was until
\* its turn, and copied aside after it.
NamedOnce(f) == \A j, k \in DOMAIN ex.answer : ex.answer[j] = f /\ ex.answer[k] = f => j = k
BackupInv ==
  \A r \in Runs : pc[r] = "applying" =>
    /\ Len(ex.todo) =< Len(ex.answer)
    /\ \A k \in DOMAIN ex.todo : ex.todo[k] = ex.answer[Len(ex.answer) - Len(ex.todo) + k]
    /\ \A f \in Files : NamedOnce(f) =>
         /\ ex.before[f] # Written(r, ex.iteration)
         /\ (\E k \in DOMAIN ex.todo : ex.todo[k] = f) => tree[f] \in {ex.before[f], User}
         /\ tree[f] = Written(r, ex.iteration) /\ ex.before[f] # Absent =>
              ex.backup[f] \in {ex.before[f], User}

\* The service's inductive invariant.
IInv ==
  /\ CommitsAreEarned /\ RunsCleanUp /\ LocalTypeOK
  /\ UnstartedInv /\ UncommittedInv /\ LoopInv /\ UnstagedInv /\ LeftoversInv /\ TrackedInv
  /\ OutcomeInv /\ TestedInv /\ PassedInv /\ BackupInv
=============================================================================
