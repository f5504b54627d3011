------------------------ MODULE AutoImplement_proofs ------------------------
(***************************************************************************)
(* Proofs about AutoImplementService: its inductive invariant IInv, and    *)
(* from it that commits are earned, that failed runs clean up after them-  *)
(* selves, that HEAD never leaves a commit behind and that what a run      *)
(* overwrites is backed up, for every set of runs, files and answers.      *)
(***************************************************************************)
EXTENDS AutoImplement, FiniteSetTheorems, TLAPS

-----------------------------------------------------------------------------
(* Types, in parts                                                         *)

PCs == Executing \cup {"idle", "waiting", "returned", "finalizing", "finished"}
Reports == [tree : {"PASS", "FAIL"}, index : {"PASS", "FAIL"}]

CallsOK ==
  /\ pc \in [Runs -> PCs]
  /\ kind \in [Runs -> {"none", "sync", "session"}]
  /\ status \in [Runs -> {"none", "running", "cancel_requested", "cancelled", "success", "failed"}]
  /\ cancel \in [Runs -> BOOLEAN]
  /\ success \in [Runs -> {"none", "yes", "no", "raised"}]
  /\ branch \in [Runs -> BOOLEAN]
  /\ final \in [Runs -> {"none", "cancelled", "success", "failed"}]
LockOK ==
  /\ lock \in Runs \cup {NoOne}
  /\ \A r \in Runs : pc[r] \in Executing <=> lock = r
RepoOK == tree \in Tree /\ index \in Tree /\ report \in Reports
CommitsOK == commits \in Seq(Record) /\ head \in DOMAIN commits /\ ex.snapshot \in DOMAIN commits
CountsOK == saves \in 0..MaxSaves /\ passed \in BOOLEAN /\ stuck \subseteq Runs
ExOK == ex \in Local

TypesOK == TypeOK /\ LocalTypeOK

LEMMA TypesAre ==
  /\ TypesOK <=> CallsOK /\ LockOK /\ RepoOK /\ CommitsOK /\ CountsOK /\ ExOK
  /\ TypesOK' <=> CallsOK' /\ LockOK' /\ RepoOK' /\ CommitsOK' /\ CountsOK' /\ ExOK'
  BY DEF TypesOK, TypeOK, LocalTypeOK, CallsOK, LockOK, RepoOK, CommitsOK, CountsOK, ExOK, PCs, Reports

\* The domains of what runs have.
LEMMA Domains ==
  ASSUME TypesOK
  PROVE  /\ DOMAIN pc = Runs /\ DOMAIN kind = Runs /\ DOMAIN status = Runs /\ DOMAIN cancel = Runs
         /\ DOMAIN success = Runs /\ DOMAIN branch = Runs /\ DOMAIN final = Runs
         /\ DOMAIN tree = Files /\ DOMAIN index = Files
  BY DEF TypesOK, TypeOK, Tree

\* The steps a run takes while it holds the lock, and only then.
Holding(r) ==
  \/ InitializeGit(r) \/ LeaveLoop(r) \/ Ask(r) \/ AskRaises(r) \/ WriteChange(r)
  \/ SkipUnchanged(r) \/ RejectChange(r) \/ RunTests(r) \/ RunVerify(r) \/ DecideWithoutGit(r)
  \/ StageAll(r) \/ Commit(r) \/ Rollback(r) \/ Conclude(r)

LEMMA HolderSteps ==
  ASSUME TypesOK, NEW r \in Runs, Holding(r)
  PROVE  pc[r] \in Executing /\ lock = r /\ \A u \in Runs \ {r} : pc[u] \notin Executing
<1>1. pc[r] \in Executing
  BY DEF Holding, InitializeGit, LeaveLoop, Ask, AskRaises, WriteChange, SkipUnchanged, RejectChange,
         RunTests, RunVerify, DecideWithoutGit, StageAll, Commit, Rollback, Conclude, Executing
<1>2. LockOK
  BY TypesAre
<1> QED BY <1>1, <1>2 DEF LockOK

\* Where the holder goes next; nobody else moves.
LEMMA HolderMoves ==
  ASSUME TypesOK, NEW r \in Runs, Holding(r)
  PROVE  /\ \A u \in Runs \ {r} : pc'[u] = pc[u]
         /\ pc' \in [Runs -> PCs]
         /\ \/ pc'[r] \in Executing /\ lock' = lock
            \/ pc'[r] \in {"finalizing", "returned", "finished"} /\ lock' = NoOne
<1>1. pc \in [Runs -> PCs]
  BY TypesAre DEF CallsOK
<1>2. \E l \in PCs : pc' = [pc EXCEPT ![r] = l]
  BY <1>1, ZenonT(40) DEF Holding, InitializeGit, LeaveLoop, Ask, AskRaises, WriteChange, SkipUnchanged,
         RejectChange, RunTests, RunVerify, DecideWithoutGit, StageAll, Commit, Rollback, Conclude,
         Raise, Goto, PCs, Executing, calls
<1>3. \/ pc'[r] \in Executing /\ lock' = lock
      \/ pc'[r] \in {"finalizing", "returned", "finished"} /\ lock' = NoOne
  BY <1>1 DEF Holding, InitializeGit, LeaveLoop, Ask, AskRaises, WriteChange, SkipUnchanged,
         RejectChange, RunTests, RunVerify, DecideWithoutGit, StageAll, Commit, Rollback, Conclude,
         Raise, Goto, PCs, Executing, calls
<1> QED BY <1>1, <1>2, <1>3

-----------------------------------------------------------------------------
(* Types are kept, part by part                                            *)

LEMMA CallsKept == TypesOK /\ [Next]_vars => CallsOK'
<1> SUFFICES ASSUME TypesOK, [Next]_vars
             PROVE  CallsOK'
  OBVIOUS
<1>a. CallsOK
  BY TypesAre
<1>1. ASSUME NEW r \in Runs, Holding(r)
      PROVE  CallsOK'
  <2>1. pc' \in [Runs -> PCs]
    BY <1>1, HolderMoves
  <2>2. UNCHANGED <<kind, status, cancel>>
    BY <1>1 DEF Holding, InitializeGit, LeaveLoop, Ask, AskRaises, WriteChange, SkipUnchanged,
       RejectChange, RunTests, RunVerify, DecideWithoutGit, StageAll, Commit, Rollback, Conclude, calls
  <2>3. /\ success' = success \/ \E s \in {"yes", "no", "raised"} : success' = [success EXCEPT ![r] = s]
        /\ final' = final \/ final' = [final EXCEPT ![r] = "failed"]
        /\ branch' = branch \/ \E b \in BOOLEAN : branch' = [branch EXCEPT ![r] = b]
    BY <1>1 DEF Holding, InitializeGit, LeaveLoop, Ask, AskRaises, WriteChange, SkipUnchanged,
       RejectChange, RunTests, RunVerify, DecideWithoutGit, StageAll, Commit, Rollback, Conclude,
       Raise, calls
  <2> QED BY <1>a, <2>1, <2>2, <2>3 DEF CallsOK
<1>2. ASSUME NEW r \in Runs, Acquire(r) \/ ChooseStatus(r) \/ Finalize(r)
      PROVE  CallsOK'
  <2>1. CASE Acquire(r)
    BY <2>1, <1>a DEF Acquire, Goto, CallsOK, PCs, Executing
  <2>2. CASE ChooseStatus(r)
    BY <2>2, <1>a DEF ChooseStatus, Goto, CallsOK, PCs, Executing
  <2>3. CASE Finalize(r)
    BY <2>3, <1>a DEF Finalize, Goto, CallsOK, PCs, Executing
  <2> QED BY <1>2, <2>1, <2>2, <2>3
<1>3. ASSUME NEW r \in Runs, Call(r, "sync") \/ Call(r, "session") \/ Stop(r)
      PROVE  CallsOK'
  <2>1. ASSUME NEW k \in {"sync", "session"}, Call(r, k)
        PROVE  CallsOK'
    BY <2>1, <1>a DEF Call, Goto, CallsOK, PCs, Executing
  <2>2. CASE Stop(r)
    BY <2>2, <1>a DEF Stop, CallsOK
  <2> QED BY <1>3, <2>1, <2>2
<1>4. ASSUME UNCHANGED calls
      PROVE  CallsOK'
  BY <1>4, <1>a DEF calls, CallsOK
<1>5. ASSUME NEW f \in Files, UserSave(f)
      PROVE  UNCHANGED calls
  BY <1>5 DEF UserSave
<1> QED BY <1>1, <1>2, <1>3, <1>4, <1>5 DEF Next, Execute, Holding, vars

LEMMA LockKept == TypesOK /\ [Next]_vars => LockOK'
<1> SUFFICES ASSUME TypesOK, [Next]_vars
             PROVE  LockOK'
  OBVIOUS
<1>a. LockOK /\ DOMAIN pc = Runs /\ NoOne \notin Runs
  BY TypesAre, Domains, ConstantsAssumption
<1>1. ASSUME NEW r \in Runs, Holding(r)
      PROVE  LockOK'
  BY <1>1, <1>a, HolderSteps, HolderMoves DEF LockOK, Executing
<1>2. ASSUME NEW r \in Runs, Acquire(r) \/ ChooseStatus(r) \/ Finalize(r)
      PROVE  LockOK'
  BY <1>2, <1>a DEF Acquire, ChooseStatus, Finalize, Goto, LockOK, Executing
<1>3. ASSUME NEW r \in Runs, Call(r, "sync") \/ Call(r, "session") \/ Stop(r)
      PROVE  LockOK'
  BY <1>3, <1>a DEF Call, Stop, Goto, LockOK, Executing
<1>4. ASSUME UNCHANGED <<calls, lock>>
      PROVE  LockOK'
  BY <1>4, <1>a DEF calls, LockOK
<1>5. ASSUME NEW f \in Files, UserSave(f)
      PROVE  UNCHANGED <<calls, lock>>
  BY <1>5 DEF UserSave
<1> QED BY <1>1, <1>2, <1>3, <1>4, <1>5 DEF Next, Execute, Holding, vars

LEMMA Contents ==
  /\ Base \in Content /\ User \in Content /\ Absent \in Content
  /\ First \in Tree /\ Nothing \in Tree
  /\ \A r \in Runs, i \in 0..MaxIterations : Written(r, i) \in Content
<1>1. 0 \in 0..MaxIterations
  BY ConstantsAssumption
<1>2. /\ Base \in Content /\ User \in Content /\ Absent \in Content
      /\ \A r \in Runs, i \in 0..MaxIterations : Written(r, i) \in Content
  BY <1>1 DEF Base, User, Absent, Written, Content
<1> QED BY <1>2 DEF First, Nothing, Tree

\* What the steps that touch the working tree, the index or the reports make of them.
LEMMA RepoKept == TypesOK /\ [Next]_vars => RepoOK'
<1> SUFFICES ASSUME TypesOK, [Next]_vars
             PROVE  RepoOK'
  OBVIOUS
<1>a. RepoOK /\ CommitsOK /\ ex \in Local
  BY TypesAre DEF ExOK
<1>1. ASSUME UNCHANGED <<tree, index, report>>
      PROVE  RepoOK'
  BY <1>1, <1>a DEF RepoOK
<1>2. ASSUME NEW r \in Runs, WriteChange(r)
      PROVE  RepoOK'
  <2>1. ex.iteration \in 0..MaxIterations
    BY <1>a DEF Local
  <2>2. Written(r, ex.iteration) \in Content
    BY <2>1, Contents
  <2>3. \E f : tree' = [tree EXCEPT ![f] = Written(r, ex.iteration)]
    BY <1>2 DEF WriteChange
  <2>4. tree' \in Tree
    BY <1>a, <2>2, <2>3 DEF Tree, RepoOK
  <2> QED BY <1>2, <1>a, <2>4 DEF WriteChange, RepoOK
<1>3. ASSUME NEW r \in Runs, RunVerify(r)
      PROVE  RepoOK'
  BY <1>3, <1>a DEF RunVerify, RepoOK, Reports
<1>4. ASSUME NEW r \in Runs, StageAll(r)
      PROVE  RepoOK'
  BY <1>4, <1>a DEF StageAll, AddAll, RepoOK, Reports
<1>5. ASSUME NEW r \in Runs, Rollback(r)
      PROVE  RepoOK'
  <2>1. commits[ex.snapshot] \in Record
    BY <1>a DEF CommitsOK
  <2>2. commits[ex.snapshot].tree \in Tree /\ commits[ex.snapshot].report \in {"PASS", "FAIL"}
    BY <2>1 DEF Record
  <2>3. ResetTree(commits[ex.snapshot]) \in Tree
    BY <1>a, <2>2, Contents DEF ResetTree, Tree, RepoOK
  <2>4. \/ UNCHANGED <<tree, index, report>>
        \/ /\ tree' = ResetTree(commits[ex.snapshot]) /\ index' = commits[ex.snapshot].tree
           /\ report' = [tree |-> commits[ex.snapshot].report, index |-> commits[ex.snapshot].report]
    BY <1>5 DEF Rollback
  <2> QED BY <1>1, <2>2, <2>3, <2>4 DEF RepoOK, Reports
<1>6. ASSUME NEW f \in Files, UserSave(f)
      PROVE  RepoOK'
  BY <1>6, <1>a, Contents DEF UserSave, RepoOK, Tree
<1>7. ASSUME NEW r \in Runs, InitializeGit(r) \/ LeaveLoop(r) \/ Ask(r) \/ AskRaises(r)
                            \/ SkipUnchanged(r) \/ RejectChange(r) \/ RunTests(r)
                            \/ DecideWithoutGit(r) \/ Commit(r) \/ Conclude(r)
                            \/ Acquire(r) \/ ChooseStatus(r) \/ Finalize(r)
      PROVE  UNCHANGED <<tree, index, report>>
  BY <1>7 DEF InitializeGit, LeaveLoop, Ask, AskRaises, SkipUnchanged, RejectChange, RunTests,
     DecideWithoutGit, Commit, Conclude, Acquire, ChooseStatus, Finalize, repo
<1>8. ASSUME NEW r \in Runs, Call(r, "sync") \/ Call(r, "session") \/ Stop(r)
      PROVE  UNCHANGED <<tree, index, report>>
  BY <1>8 DEF Call, Stop, repo
<1>9. ASSUME UNCHANGED vars
      PROVE  UNCHANGED <<tree, index, report>>
  BY <1>9 DEF vars, repo
<1> QED BY <1>1, <1>2, <1>3, <1>4, <1>5, <1>6, <1>7, <1>8, <1>9 DEF Next, Execute

LEMMA CountsKept == TypesOK /\ [Next]_vars => CountsOK'
<1> SUFFICES ASSUME TypesOK, [Next]_vars
             PROVE  CountsOK'
  OBVIOUS
<1>a. CountsOK
  BY TypesAre
<1>1. ASSUME UNCHANGED <<saves, passed, stuck>>
      PROVE  CountsOK'
  BY <1>1, <1>a DEF CountsOK
<1>2. ASSUME NEW r \in Runs, RunVerify(r) \/ Rollback(r)
      PROVE  CountsOK'
  BY <1>2, <1>a DEF RunVerify, Rollback, history, CountsOK
<1>3. ASSUME NEW f \in Files, UserSave(f)
      PROVE  CountsOK'
  <2>1. saves' = saves + 1 /\ saves < MaxSaves /\ MaxSaves \in Nat /\ UNCHANGED <<passed, stuck>>
    BY <1>3, ConstantsAssumption DEF UserSave, history
  <2> QED BY <1>a, <2>1 DEF CountsOK
<1>4. ASSUME NEW r \in Runs, InitializeGit(r) \/ LeaveLoop(r) \/ Ask(r) \/ AskRaises(r)
                            \/ WriteChange(r) \/ SkipUnchanged(r) \/ RejectChange(r) \/ RunTests(r)
                            \/ DecideWithoutGit(r) \/ StageAll(r) \/ Commit(r) \/ Conclude(r)
                            \/ Acquire(r) \/ ChooseStatus(r) \/ Finalize(r)
      PROVE  UNCHANGED <<saves, passed, stuck>>
  BY <1>4 DEF InitializeGit, LeaveLoop, Ask, AskRaises, WriteChange, SkipUnchanged, RejectChange,
     RunTests, DecideWithoutGit, StageAll, Commit, Conclude, Acquire, ChooseStatus, Finalize, history
<1>5. ASSUME NEW r \in Runs, Call(r, "sync") \/ Call(r, "session") \/ Stop(r)
      PROVE  UNCHANGED <<saves, passed, stuck>>
  BY <1>5 DEF Call, Stop, history
<1>6. ASSUME UNCHANGED vars
      PROVE  UNCHANGED <<saves, passed, stuck>>
  BY <1>6 DEF vars, history
<1> QED BY <1>1, <1>2, <1>3, <1>4, <1>5, <1>6 DEF Next, Execute

LEMMA LocalTypes ==
  /\ Idle \in Local /\ Idle.snapshot = 1
  /\ <<>> \in Seq(Files \cup {Malformed})
  /\ Proposals \subseteq Seq(Files \cup {Malformed})
<1>1. 0 \in 0..MaxIterations /\ Nothing \in Tree /\ <<>> \in Seq(Files \cup {Malformed})
  BY ConstantsAssumption, Contents
<1>2. Idle \in Local /\ Idle.snapshot = 1
  BY <1>1 DEF Idle, Local, Outcome
<1> QED BY <1>1, <1>2, ConstantsAssumption

LEMMA ExKept == TypesOK /\ [Next]_vars => ExOK'
<1> SUFFICES ASSUME TypesOK, [Next]_vars
             PROVE  ExOK'
  OBVIOUS
<1>a. ex \in Local /\ tree \in Tree /\ head \in Nat
  BY TypesAre DEF ExOK, RepoOK, CommitsOK
<1>b. ex.iteration \in 0..MaxIterations /\ MaxIterations \in Nat
  BY <1>a, ConstantsAssumption DEF Local
<1>1. ASSUME UNCHANGED ex
      PROVE  ExOK'
  BY <1>1, <1>a DEF ExOK
<1>2. ASSUME ex' = Idle
      PROVE  ExOK'
  BY <1>2, LocalTypes DEF ExOK
<1>3. ASSUME NEW r \in Runs, InitializeGit(r)
      PROVE  ExOK'
  BY <1>3, <1>a DEF InitializeGit, Snapshot, ExOK, Local
<1>4. ASSUME NEW r \in Runs, Ask(r)
      PROVE  ExOK'
  <2>1. PICK p \in Proposals :
       ex' = [ex EXCEPT !.iteration = @ + 1, !.answer = p, !.todo = p, !.before = tree,
                        !.test = "none", !.verify = "none"]
    BY <1>4 DEF Ask
  <2>2. p \in Seq(Files \cup {Malformed})
    BY LocalTypes
  <2>3. ex.iteration + 1 \in 0..MaxIterations
    BY <1>4, <1>b DEF Ask
  <2>4. "none" \in Outcome
    BY DEF Outcome
  <2> QED BY <1>a, <2>1, <2>2, <2>3, <2>4 DEF ExOK, Local
<1>5. ASSUME NEW r \in Runs, WriteChange(r) \/ SkipUnchanged(r)
      PROVE  ExOK'
  <2>1. ex.todo \in Seq(Files \cup {Malformed}) /\ ex.todo # <<>> /\ ex.backup \in Tree
    BY <1>5, <1>a DEF WriteChange, SkipUnchanged, Local
  <2>2. Tail(ex.todo) \in Seq(Files \cup {Malformed})
    BY <2>1
  <2>3. CASE WriteChange(r)
    <3>1. Head(ex.todo) \in Files
      BY <2>1, <2>3 DEF WriteChange
    <3>2. Aside(r, Head(ex.todo)) \in Content
      BY <1>a, <2>1, <3>1 DEF Aside, Tree
    <3>3. [ex.backup EXCEPT ![Head(ex.todo)] = Aside(r, Head(ex.todo))] \in Tree
      BY <2>1, <3>2 DEF Tree
    <3>4. ex' = [ex EXCEPT !.todo = Tail(ex.todo),
                   !.backup = [ex.backup EXCEPT ![Head(ex.todo)] = Aside(r, Head(ex.todo))]]
      BY <2>3, <1>a DEF WriteChange, Local
    <3> QED BY <1>a, <2>2, <3>3, <3>4 DEF ExOK, Local
  <2>4. CASE SkipUnchanged(r)
    BY <1>a, <2>2, <2>4 DEF SkipUnchanged, ExOK, Local
  <2> QED BY <1>5, <2>3, <2>4
<1>6. ASSUME NEW r \in Runs, RunTests(r)
      PROVE  ExOK'
  <2>1. PICK outcome \in {"none", "passed", "failed"} :
       ex' = [ex EXCEPT !.test = outcome, !.tested = tree, !.answer = <<>>,
                        !.before = Nothing, !.backup = Nothing]
    BY <1>6 DEF RunTests
  <2>2. outcome \in Outcome
    BY DEF Outcome
  <2> QED BY <1>a, <2>1, <2>2, LocalTypes, Contents DEF ExOK, Local
<1>7. ASSUME NEW r \in Runs, RunVerify(r)
      PROVE  ExOK'
  <2>1. PICK outcome \in Outcome : ex' = [ex EXCEPT !.verify = outcome]
    BY <1>7 DEF RunVerify, Believed, Outcome
  <2> QED BY <1>a, <2>1 DEF ExOK, Local
<1>8. ASSUME NEW r \in Runs, Commit(r) \/ Rollback(r)
      PROVE  ExOK'
  <2>1. \/ ex' = [ex EXCEPT !.committed = TRUE, !.tested = Nothing]
        \/ ex' = [ex EXCEPT !.tested = Nothing]
        \/ ex' = ex
    BY <1>8 DEF Commit, Rollback
  <2> QED BY <1>a, <2>1, Contents DEF ExOK, Local
<1>9. ASSUME NEW r \in Runs, AskRaises(r) \/ RejectChange(r) \/ Conclude(r) \/ Acquire(r)
      PROVE  ex' = Idle
  BY <1>9 DEF AskRaises, RejectChange, Conclude, Acquire, Raise
<1>10. ASSUME NEW r \in Runs, LeaveLoop(r) \/ DecideWithoutGit(r) \/ StageAll(r)
                             \/ ChooseStatus(r) \/ Finalize(r)
      PROVE  UNCHANGED ex
  BY <1>10 DEF LeaveLoop, DecideWithoutGit, StageAll, ChooseStatus, Finalize
<1>11. ASSUME NEW r \in Runs, Call(r, "sync") \/ Call(r, "session") \/ Stop(r)
      PROVE  UNCHANGED ex
  BY <1>11 DEF Call, Stop
<1>12. ASSUME UNCHANGED vars \/ \E f \in Files : UserSave(f)
      PROVE  UNCHANGED ex
  BY <1>12 DEF vars, UserSave
<1> QED BY <1>1, <1>2, <1>3, <1>4, <1>5, <1>6, <1>7, <1>8, <1>9, <1>10, <1>11, <1>12
        DEF Next, Execute

\* A commit goes behind the others and becomes HEAD, or nothing is committed.
LEMMA CommitStep ==
  ASSUME TypesOK, NEW r \in Runs, Commit(r)
  PROVE  \/ UNCHANGED <<commits, head, ex>> /\ pc'[r] = "rolling"
         \/ LET n == Len(commits) + 1 IN
            /\ commits' \in Seq(Record)
            /\ DOMAIN commits' = (DOMAIN commits) \cup {n} /\ n \notin DOMAIN commits
            /\ \A k \in DOMAIN commits : commits'[k] = commits[k]
            /\ commits'[n].tree = index /\ commits'[n].report = report.index
            /\ commits'[n].parent = head /\ commits'[n].by = r
            /\ commits'[n].tested = ex.tested /\ commits'[n].verify = ex.verify
            /\ head' = n /\ pc'[r] = "concluding"
            /\ ex'.committed /\ ex'.snapshot = ex.snapshot /\ ex'.iteration = ex.iteration
            /\ ex'.git = ex.git /\ ex'.verify = ex.verify
<1>a. ex \in Local /\ index \in Tree /\ report \in Reports /\ commits \in Seq(Record)
      /\ head \in DOMAIN commits
  BY TypesAre DEF ExOK, RepoOK, CommitsOK
<1>b. DOMAIN pc = Runs
  BY Domains
<1>1. CASE UNCHANGED <<commits, head, ex>> /\ Goto(r, "rolling")
  BY <1>1, <1>b DEF Goto
<1>2. CASE /\ commits' = Append(commits, [tree |-> index, report |-> report.index,
                                          parent |-> head, by |-> r,
                                          tested |-> ex.tested, verify |-> ex.verify])
           /\ head' = Len(commits) + 1
           /\ ex' = [ex EXCEPT !.committed = TRUE, !.tested = Nothing]
           /\ Goto(r, "concluding")
  <2> DEFINE c == [tree |-> index, report |-> report.index, parent |-> head, by |-> r,
                   tested |-> ex.tested, verify |-> ex.verify]
  <2>1. c \in Record
    <3>1. ex.tested \in Tree /\ ex.verify \in Outcome
      BY <1>a DEF Local
    <3>2. report.index \in {"PASS", "FAIL"} /\ head \in Nat
      BY <1>a DEF Reports
    <3> QED BY <1>a, <3>1, <3>2 DEF Record
  <2>2. /\ c.tree = index /\ c.report = report.index /\ c.parent = head /\ c.by = r
        /\ c.tested = ex.tested /\ c.verify = ex.verify
    OBVIOUS
  <2> HIDE DEF c
  <2>3. commits' = Append(commits, c)
    BY <1>2 DEF c
  <2>4. /\ commits' \in Seq(Record)
        /\ DOMAIN commits' = (DOMAIN commits) \cup {Len(commits) + 1}
        /\ Len(commits) + 1 \notin DOMAIN commits
        /\ \A k \in DOMAIN commits : commits'[k] = commits[k]
        /\ commits'[Len(commits) + 1] = c
    BY <1>a, <2>1, <2>3
  <2>5. /\ ex'.committed /\ ex'.snapshot = ex.snapshot /\ ex'.iteration = ex.iteration
        /\ ex'.git = ex.git /\ ex'.verify = ex.verify
    BY <1>2, <1>a DEF Local
  <2>6. pc'[r] = "concluding"
    BY <1>2, <1>b DEF Goto
  <2> QED BY <1>2, <2>2, <2>4, <2>5, <2>6
<1> QED BY <1>1, <1>2 DEF Commit

\* Nobody else commits.
LEMMA CommitsStay ==
  ASSUME [Next]_vars
  PROVE  (\E r \in Runs : Commit(r)) \/ UNCHANGED commits
<1>1. ASSUME NEW r \in Runs, InitializeGit(r) \/ LeaveLoop(r) \/ Ask(r) \/ AskRaises(r)
                            \/ WriteChange(r) \/ SkipUnchanged(r) \/ RejectChange(r) \/ RunTests(r)
                            \/ RunVerify(r) \/ DecideWithoutGit(r) \/ StageAll(r) \/ Rollback(r)
                            \/ Conclude(r) \/ Acquire(r) \/ ChooseStatus(r) \/ Finalize(r)
      PROVE  UNCHANGED commits
  BY <1>1 DEF InitializeGit, LeaveLoop, Ask, AskRaises, WriteChange, SkipUnchanged, RejectChange,
     RunTests, RunVerify, DecideWithoutGit, StageAll, Rollback, Conclude, Acquire, ChooseStatus,
     Finalize, repo
<1>2. ASSUME NEW r \in Runs, Call(r, "sync") \/ Call(r, "session") \/ Stop(r)
      PROVE  UNCHANGED commits
  BY <1>2 DEF Call, Stop, repo
<1>3. ASSUME UNCHANGED vars \/ \E f \in Files : UserSave(f)
      PROVE  UNCHANGED commits
  BY <1>3 DEF vars, repo, UserSave
<1> QED BY <1>1, <1>2, <1>3, SMTT(60) DEF Next, Execute

LEMMA CommitsKept == TypesOK /\ [Next]_vars => CommitsOK'
<1> SUFFICES ASSUME TypesOK, [Next]_vars
             PROVE  CommitsOK'
  OBVIOUS
<1>a. CommitsOK /\ ex \in Local
  BY TypesAre DEF ExOK
<1>b. 1 \in DOMAIN commits
  BY <1>a DEF CommitsOK
<1>1. ASSUME NEW r \in Runs, Commit(r)
      PROVE  CommitsOK'
  <2>1. CASE UNCHANGED <<commits, head, ex>>
    BY <1>a, <2>1 DEF CommitsOK
  <2>2. CASE ~(UNCHANGED <<commits, head, ex>>)
    BY <1>1, <1>a, <2>2, CommitStep DEF CommitsOK
  <2> QED BY <2>1, <2>2
<1>2. ASSUME UNCHANGED commits
      PROVE  /\ head' = head \/ head' = ex.snapshot
             /\ ex'.snapshot \in {ex.snapshot, head, 1}
  <2>1. ASSUME UNCHANGED ex
        PROVE  ex'.snapshot = ex.snapshot
    BY <2>1
  <2>2. ASSUME ex' = Idle
        PROVE  ex'.snapshot = 1
    BY <2>2, LocalTypes
  <2>3. ASSUME NEW r \in Runs, InitializeGit(r)
        PROVE  head' = head /\ ex'.snapshot = head
    BY <2>3, <1>a DEF InitializeGit, Snapshot, Local, repo
  <2>4. ASSUME NEW r \in Runs, Ask(r) \/ WriteChange(r) \/ SkipUnchanged(r) \/ RunTests(r) \/ RunVerify(r)
        PROVE  head' = head /\ ex'.snapshot = ex.snapshot
    BY <2>4, <1>a DEF Ask, WriteChange, SkipUnchanged, RunTests, RunVerify, Local, repo
  <2>5. ASSUME NEW r \in Runs, Commit(r)
        PROVE  head' = head /\ ex' = ex
    BY <2>5, <1>2, CommitStep
  <2>6. ASSUME NEW r \in Runs, Rollback(r)
        PROVE  (head' = head \/ head' = ex.snapshot) /\ ex'.snapshot = ex.snapshot
    BY <2>6, <1>a DEF Rollback, Local
  <2>7. ASSUME NEW r \in Runs, AskRaises(r) \/ RejectChange(r) \/ Conclude(r) \/ Acquire(r)
        PROVE  head' = head /\ ex' = Idle
    BY <2>7 DEF AskRaises, RejectChange, Conclude, Acquire, Raise, repo
  <2>8. ASSUME NEW r \in Runs, LeaveLoop(r) \/ DecideWithoutGit(r) \/ StageAll(r)
                              \/ ChooseStatus(r) \/ Finalize(r)
        PROVE  head' = head /\ UNCHANGED ex
    BY <2>8 DEF LeaveLoop, DecideWithoutGit, StageAll, ChooseStatus, Finalize, repo
  <2>9. ASSUME NEW r \in Runs, Call(r, "sync") \/ Call(r, "session") \/ Stop(r)
        PROVE  head' = head /\ UNCHANGED ex
    BY <2>9 DEF Call, Stop, repo
  <2>10. ASSUME UNCHANGED vars \/ \E f \in Files : UserSave(f)
         PROVE  head' = head /\ UNCHANGED ex
    BY <2>10 DEF vars, repo, UserSave
  <2> QED BY <2>1, <2>2, <2>3, <2>4, <2>5, <2>6, <2>7, <2>8, <2>9, <2>10 DEF Next, Execute
<1>3. ASSUME UNCHANGED commits
      PROVE  CommitsOK'
  BY <1>3, <1>2, <1>a, <1>b DEF CommitsOK
<1> QED BY <1>1, <1>3, CommitsStay

LEMMA TypesKept == TypesOK /\ [Next]_vars => TypesOK'
  BY CallsKept, LockKept, RepoKept, CommitsKept, CountsKept, ExKept, TypesAre

-----------------------------------------------------------------------------
(* Kinds of steps                                                          *)

\* Steps of the callers, of a session after _execute, and of the user.
Quiet ==
  \/ \E r \in Runs : ChooseStatus(r) \/ Finalize(r) \/ Call(r, "sync") \/ Call(r, "session") \/ Stop(r)
  \/ \E f \in Files : UserSave(f)
  \/ UNCHANGED vars

LEMMA StepKinds ==
  ASSUME [Next]_vars
  PROVE  Quiet \/ \E r \in Runs : Holding(r) \/ Acquire(r)
  BY DEF Next, Execute, Holding, Quiet

\* A quiet step leaves the holder of the lock where it was and touches the tree at most.
LEMMA QuietSteps ==
  ASSUME TypesOK, Quiet
  PROVE  /\ UNCHANGED <<lock, ex, index, head, commits, report, passed, stuck, success, branch>>
         /\ \A f \in Files : tree'[f] = tree[f] \/ tree'[f] = User
         /\ \A u \in Runs : /\ pc'[u] \in Executing <=> pc[u] \in Executing
                            /\ pc[u] \in Executing => pc'[u] = pc[u]
                            /\ pc'[u] \in Early => pc[u] \in Early
<1>a. DOMAIN pc = Runs /\ DOMAIN tree = Files
  BY Domains
<1>1. ASSUME NEW r \in Runs,
             ChooseStatus(r) \/ Finalize(r) \/ Call(r, "sync") \/ Call(r, "session") \/ Stop(r)
      PROVE  /\ UNCHANGED <<tree, lock, ex, index, head, commits, report, passed, stuck, success, branch>>
             /\ \A u \in Runs : /\ pc'[u] \in Executing <=> pc[u] \in Executing
                                /\ pc[u] \in Executing => pc'[u] = pc[u]
                                /\ pc'[u] \in Early => pc[u] \in Early
  <2>1. UNCHANGED <<tree, lock, ex, index, head, commits, report, passed, stuck, success, branch>>
    BY <1>1 DEF ChooseStatus, Finalize, Call, Stop, repo, history
  <2>2. \/ pc' = pc
        \/ pc[r] = "idle" /\ pc' = [pc EXCEPT ![r] = "waiting"]
        \/ pc[r] = "returned" /\ pc' = [pc EXCEPT ![r] = "finalizing"]
        \/ pc[r] = "finalizing" /\ pc' = [pc EXCEPT ![r] = "finished"]
    BY <1>1 DEF ChooseStatus, Finalize, Call, Stop, Goto
  <2> QED BY <1>a, <2>1, <2>2 DEF Executing, Early
<1>2. ASSUME NEW f \in Files, UserSave(f)
      PROVE  /\ UNCHANGED <<pc, lock, ex, index, head, commits, report, passed, stuck, success, branch>>
             /\ \A g \in Files : tree'[g] = tree[g] \/ tree'[g] = User
  BY <1>2, <1>a DEF UserSave, calls, history
<1>3. ASSUME UNCHANGED vars
      PROVE  UNCHANGED <<pc, tree, lock, ex, index, head, commits, report, passed, stuck, success, branch>>
  BY <1>3 DEF vars, calls, repo, history
<1> QED BY <1>1, <1>2, <1>3 DEF Quiet

\* A run that waited takes the lock with nothing in its hands.
LEMMA AcquireStep ==
  ASSUME TypesOK, NEW r \in Runs, Acquire(r)
  PROVE  /\ pc[r] = "waiting" /\ pc'[r] = "starting" /\ \A u \in Runs \ {r} : pc'[u] = pc[u]
         /\ \A u \in Runs : pc[u] \notin Executing
         /\ ex' = Idle
         /\ UNCHANGED <<tree, index, head, commits, report, passed, stuck, success, branch, final, status>>
<1>1. LockOK /\ NoOne \notin Runs /\ DOMAIN pc = Runs
  BY TypesAre, ConstantsAssumption, Domains
<1> QED BY <1>1 DEF Acquire, Goto, LockOK, repo, history

\* What the holder of the lock keeps at hand from step to step.
SameLocal == ex'.snapshot = ex.snapshot /\ ex'.git = ex.git /\ ex'.committed = ex.committed
             /\ ex'.verify = ex.verify

LEMMA HolderLocals ==
  ASSUME TypesOK, NEW r \in Runs, Holding(r), pc'[r] \in Executing
  PROVE  \/ /\ InitializeGit(r) /\ pc'[r] = "checking" /\ ex'.snapshot = head /\ branch'[r] = ex'.git
            /\ ex'.committed = ex.committed /\ ex'.iteration = ex.iteration /\ ex'.verify = ex.verify
         \/ /\ Ask(r) /\ pc'[r] = "applying" /\ ex'.iteration = ex.iteration + 1
            /\ ex'.snapshot = ex.snapshot /\ ex'.git = ex.git /\ ex'.committed = ex.committed
            /\ ex'.verify = "none" /\ branch' = branch
         \/ Commit(r) /\ branch' = branch
         \/ /\ RunVerify(r) /\ pc'[r] = "deciding" /\ ex'.iteration = ex.iteration
            /\ ex'.snapshot = ex.snapshot /\ ex'.git = ex.git /\ ex'.committed = ex.committed
            /\ branch' = branch
         \/ /\ LeaveLoop(r) \/ WriteChange(r) \/ SkipUnchanged(r) \/ RunTests(r)
               \/ DecideWithoutGit(r) \/ StageAll(r) \/ Rollback(r)
            /\ SameLocal /\ ex'.iteration = ex.iteration /\ branch' = branch
<1>a. ex \in Local /\ DOMAIN pc = Runs /\ DOMAIN branch = Runs
  BY TypesAre, Domains DEF ExOK
<1>1. CASE InitializeGit(r)
  BY <1>1, <1>a DEF InitializeGit, Snapshot, Goto, Local
<1>2. CASE Ask(r)
  BY <1>2, <1>a DEF Ask, Goto, Local
<1>3. CASE Commit(r)
  BY <1>3 DEF Commit
<1>4. CASE RunVerify(r)
  BY <1>4, <1>a DEF RunVerify, Goto, Local
<1>5. CASE WriteChange(r) \/ SkipUnchanged(r) \/ RunTests(r) \/ Rollback(r)
  BY <1>5, <1>a, ZenonT(60) DEF WriteChange, SkipUnchanged, RunTests, Rollback, Local, SameLocal, calls
<1>6. CASE LeaveLoop(r) \/ DecideWithoutGit(r) \/ StageAll(r)
  BY <1>6 DEF LeaveLoop, DecideWithoutGit, StageAll, SameLocal
<1>7. CASE AskRaises(r) \/ RejectChange(r) \/ Conclude(r)
  BY <1>7, <1>a DEF AskRaises, RejectChange, Conclude, Raise, Goto, Executing
<1> QED BY <1>1, <1>2, <1>3, <1>4, <1>5, <1>6, <1>7 DEF Holding

\* Where the content of a file in the tree and in the index may come from.
LEMMA TreeSteps ==
  ASSUME TypesOK, [Next]_vars, NEW f \in Files
  PROVE  \/ tree'[f] = tree[f] \/ tree'[f] = User
         \/ \E r \in Runs : WriteChange(r) /\ tree'[f] = Written(r, ex.iteration)
         \/ /\ \E r \in Runs : Rollback(r)
            /\ tree'[f] = commits[ex.snapshot].tree[f]
               \/ (commits[ex.snapshot].tree[f] = Absent /\ tree'[f] = Absent)
<1>a. DOMAIN tree = Files
  BY Domains
<1>1. ASSUME NEW r \in Runs, WriteChange(r)
      PROVE  tree'[f] = tree[f] \/ tree'[f] = Written(r, ex.iteration)
  BY <1>1, <1>a DEF WriteChange
<1>2. ASSUME NEW r \in Runs, Rollback(r)
      PROVE  \/ tree'[f] = tree[f]
             \/ tree'[f] = commits[ex.snapshot].tree[f]
             \/ commits[ex.snapshot].tree[f] = Absent /\ tree'[f] = Absent
  BY <1>2 DEF Rollback, ResetTree
<1>3. ASSUME NEW r \in Runs, InitializeGit(r) \/ LeaveLoop(r) \/ Ask(r) \/ AskRaises(r)
                            \/ SkipUnchanged(r) \/ RejectChange(r) \/ RunTests(r) \/ RunVerify(r)
                            \/ DecideWithoutGit(r) \/ StageAll(r) \/ Commit(r) \/ Conclude(r)
                            \/ Acquire(r)
      PROVE  tree' = tree
  BY <1>3 DEF InitializeGit, LeaveLoop, Ask, AskRaises, SkipUnchanged, RejectChange, RunTests,
     RunVerify, DecideWithoutGit, StageAll, Commit, Conclude, Acquire, repo
<1> QED BY <1>1, <1>2, <1>3, QuietSteps, StepKinds DEF Holding

LEMMA IndexSteps ==
  ASSUME TypesOK, [Next]_vars, NEW f \in Files
  PROVE  \/ index'[f] = index[f]
         \/ \E r \in Runs : StageAll(r) /\ pc'[r] = "committing" /\ index' = tree
         \/ (\E r \in Runs : Rollback(r)) /\ index'[f] = commits[ex.snapshot].tree[f]
<1>a. DOMAIN pc = Runs
  BY Domains
<1>1. ASSUME NEW r \in Runs, StageAll(r)
      PROVE  index'[f] = index[f] \/ (pc'[r] = "committing" /\ index' = tree)
  BY <1>1, <1>a DEF StageAll, AddAll, Goto
<1>2. ASSUME NEW r \in Runs, Rollback(r)
      PROVE  index'[f] = index[f] \/ index'[f] = commits[ex.snapshot].tree[f]
  BY <1>2 DEF Rollback
<1>3. ASSUME NEW r \in Runs, InitializeGit(r) \/ LeaveLoop(r) \/ Ask(r) \/ AskRaises(r)
                            \/ WriteChange(r) \/ SkipUnchanged(r) \/ RejectChange(r) \/ RunTests(r)
                            \/ RunVerify(r) \/ DecideWithoutGit(r) \/ Commit(r) \/ Conclude(r)
                            \/ Acquire(r)
      PROVE  index' = index
  BY <1>3 DEF InitializeGit, LeaveLoop, Ask, AskRaises, WriteChange, SkipUnchanged, RejectChange,
     RunTests, RunVerify, DecideWithoutGit, Commit, Conclude, Acquire, repo
<1> QED BY <1>1, <1>2, <1>3, QuietSteps, StepKinds DEF Holding

\* No author of a run's is another's, nor the user's or nobody.
LEMMA Authors ==
  ASSUME NEW r \in Runs
  PROVE  /\ User.by # r /\ Absent.by # r /\ Base.by # r
         /\ \A u, i : Written(u, i).by = u /\ Written(u, i).iteration = i
         /\ \A u \in Runs : \A i : Written(u, i) # Absent /\ Written(u, i) # User
         /\ User # Absent /\ Base # Absent
<1>1. r # "nobody" /\ r # "user" /\ r # "base"
  BY ConstantsAssumption
<1>2. \A u \in Runs : u # "nobody" /\ u # "user"
  BY ConstantsAssumption
<1> QED BY <1>1, <1>2 DEF User, Absent, Base, Written

-----------------------------------------------------------------------------
(* Where a run's edits are                                                 *)

LEMMA EarlyBefore ==
  ASSUME TypesOK, [Next]_vars, NEW u \in Runs, pc'[u] \in Early
  PROVE  pc[u] \in Early
<1>a. DOMAIN pc = Runs
  BY Domains
<1>1. ASSUME NEW r \in Runs, Holding(r), r = u
      PROVE  FALSE
  <2>1. pc[r] \in Executing /\ pc[r] # "starting" => pc'[r] \notin Early
    BY <1>1, <1>a DEF Holding, InitializeGit, LeaveLoop, Ask, AskRaises, WriteChange, SkipUnchanged,
       RejectChange, RunTests, RunVerify, DecideWithoutGit, StageAll, Commit, Rollback, Conclude,
       Raise, Goto, Executing, Early, calls
  <2>2. pc[r] = "starting" => pc'[r] = "checking"
    BY <1>1, <1>a DEF Holding, InitializeGit, LeaveLoop, Ask, AskRaises, WriteChange, SkipUnchanged,
       RejectChange, RunTests, RunVerify, DecideWithoutGit, StageAll, Commit, Rollback, Conclude, Goto
  <2> QED BY <1>1, <2>1, <2>2, HolderSteps, SMTT(60) DEF Early
<1>2. ASSUME NEW r \in Runs, Holding(r), r # u
      PROVE  pc'[u] = pc[u]
  BY <1>2, HolderMoves
<1>3. ASSUME NEW r \in Runs, Acquire(r)
      PROVE  pc[u] \in Early
  BY <1>3, AcquireStep DEF Early
<1> QED BY <1>1, <1>2, <1>3, StepKinds, QuietSteps

LEMMA UnstartedKept ==
  ASSUME TypesOK, UnstartedInv, UncommittedInv, [Next]_vars
  PROVE  UnstartedInv'
<1> SUFFICES ASSUME NEW r \in Runs, pc'[r] \in Early, NEW f \in Files
             PROVE  tree'[f].by # r /\ index'[f].by # r
  BY DEF UnstartedInv
<1>1. pc[r] \in Early /\ tree[f].by # r /\ index[f].by # r
  BY EarlyBefore DEF UnstartedInv
<1>2. ex.snapshot \in DOMAIN commits
  BY TypesAre DEF CommitsOK
<1>3. commits[ex.snapshot].tree[f].by # r
  BY <1>1, <1>2 DEF UncommittedInv
<1>4. tree'[f].by # r
  <2>1. ASSUME NEW u \in Runs, WriteChange(u), tree'[f] = Written(u, ex.iteration)
        PROVE  tree'[f].by # r
    <3>1. pc[u] = "applying"
      BY <2>1 DEF WriteChange
    <3>2. u # r
      BY <1>1, <3>1 DEF Early
    <3> QED BY <2>1, <3>2, Authors
  <2> QED BY <1>1, <1>3, <2>1, TreeSteps, Authors
<1>5. index'[f].by # r
  BY <1>1, <1>3, IndexSteps
<1> QED BY <1>4, <1>5

\* A run that is not in a commit, after a step, was not in one before it.
LEMMA UncommittedBefore ==
  ASSUME TypesOK, LoopInv, [Next]_vars, NEW r \in Runs,
         pc'[r] \in Early \/ (pc'[r] \in Executing /\ ~ex'.committed)
  PROVE  /\ pc[r] \in Early \/ (pc[r] \in Executing /\ ~ex.committed)
         /\ Commit(r) => UNCHANGED commits
<1>1. CASE pc'[r] \in Early
  <2>1. pc[r] \in Early
    BY <1>1, EarlyBefore
  <2>2. ~Commit(r)
    BY <2>1 DEF Commit, Early
  <2> QED BY <2>1, <2>2
<1>2. CASE pc'[r] \in Executing /\ ~ex'.committed
  <2>1. CASE Quiet
    <3>1. pc[r] \in Executing /\ ~ex.committed /\ UNCHANGED commits
      BY <1>2, <2>1, QuietSteps
    <3> QED BY <3>1
  <2>2. ASSUME NEW u \in Runs, Acquire(u)
        PROVE  pc[r] \in Early /\ UNCHANGED commits
    BY <1>2, <2>2, AcquireStep DEF Early
  <2>3. ASSUME NEW u \in Runs, Holding(u)
        PROVE  /\ pc[r] \in Executing /\ ~ex.committed
               /\ Commit(r) => UNCHANGED commits
    <3>1. u = r
      BY <1>2, <2>3, HolderSteps, HolderMoves
    <3>2. CASE Commit(r)
      <4>1. UNCHANGED <<commits, head, ex>>
        BY <1>2, <3>2, CommitStep
      <4>2. pc[r] = "committing"
        BY <3>2 DEF Commit
      <4> QED BY <1>2, <4>1, <4>2 DEF Executing
    <3>3. CASE ~Commit(r)
      BY <1>2, <2>3, <3>1, <3>3, HolderLocals, HolderSteps DEF SameLocal
    <3> QED BY <3>2, <3>3
  <2>4. ~Commit(r) \/ Holding(r)
    BY DEF Holding
  <2> QED BY <2>1, <2>2, <2>3, <2>4, StepKinds
<1> QED BY <1>1, <1>2

LEMMA UncommittedKept ==
  ASSUME TypesOK, UnstartedInv, UncommittedInv, LoopInv, [Next]_vars
  PROVE  UncommittedInv'
<1> SUFFICES ASSUME NEW r \in Runs,
                    pc'[r] \in Early \/ (pc'[r] \in Executing /\ ~ex'.committed),
                    NEW k \in DOMAIN commits'
             PROVE  commits'[k].by # r /\ \A f \in Files : commits'[k].tree[f].by # r
  BY DEF UncommittedInv
<1>1. /\ pc[r] \in Early \/ (pc[r] \in Executing /\ ~ex.committed)
      /\ Commit(r) => UNCHANGED commits
  BY UncommittedBefore
<1>2. \A j \in DOMAIN commits : commits[j].by # r /\ \A f \in Files : commits[j].tree[f].by # r
  BY <1>1 DEF UncommittedInv
<1>3. ASSUME NEW u \in Runs, Commit(u), u # r
      PROVE  commits'[k].by # r /\ \A f \in Files : commits'[k].tree[f].by # r
  <2>1. Holding(u)
    BY <1>3 DEF Holding
  <2>2. pc[r] \in Early
    BY <1>1, <1>3, <2>1, HolderSteps
  <2>3. \A f \in Files : index[f].by # r
    BY <2>2 DEF UnstartedInv
  <2>4. CASE UNCHANGED commits
    BY <1>2, <2>4
  <2>5. CASE ~(UNCHANGED commits)
    <3>1. k \in DOMAIN commits \/ k = Len(commits) + 1
      BY <1>3, <2>5, CommitStep
    <3> QED BY <1>2, <1>3, <2>3, <2>5, <3>1, CommitStep
  <2> QED BY <2>4, <2>5
<1> QED BY <1>1, <1>2, <1>3, CommitsStay

LEMMA TrackedKept ==
  ASSUME TypesOK, TrackedInv, [Next]_vars
  PROVE  TrackedInv'
<1>a. Tracked \subseteq Files /\ ex.snapshot \in DOMAIN commits
  BY TypesAre DEF CommitsOK, Files
<1>1. ASSUME NEW f \in Tracked
      PROVE  tree'[f] # Absent
  <2>1. tree[f] # Absent /\ commits[ex.snapshot].tree[f] # Absent
    BY <1>a DEF TrackedInv
  <2> QED BY <1>a, <2>1, TreeSteps, Authors DEF User, Absent
<1>2. ASSUME NEW f \in Tracked
      PROVE  index'[f] # Absent
  <2>1. tree[f] # Absent /\ index[f] # Absent /\ commits[ex.snapshot].tree[f] # Absent
    BY <1>a DEF TrackedInv
  <2> QED BY <1>a, <2>1, IndexSteps
<1>3. ASSUME NEW f \in Tracked, NEW k \in DOMAIN commits'
      PROVE  commits'[k].tree[f] # Absent
  <2>1. index[f] # Absent /\ \A j \in DOMAIN commits : commits[j].tree[f] # Absent
    BY DEF TrackedInv
  <2>2. ASSUME NEW u \in Runs, Commit(u)
        PROVE  commits'[k].tree[f] # Absent
    <3>1. CASE UNCHANGED commits
      BY <2>1, <3>1
    <3>2. CASE ~(UNCHANGED commits)
      <4>1. k \in DOMAIN commits \/ k = Len(commits) + 1
        BY <2>2, <3>2, CommitStep
      <4> QED BY <2>1, <2>2, <3>2, <4>1, CommitStep
    <3> QED BY <3>1, <3>2
  <2> QED BY <2>1, <2>2, CommitsStay
<1> QED BY <1>1, <1>2, <1>3 DEF TrackedInv

-----------------------------------------------------------------------------
(* The run that holds the lock                                             *)

\* Commits are never taken back.
LEMMA CommittedStays ==
  ASSUME TypesOK, [Next]_vars, NEW r \in Runs, CommittedBy(r)
  PROVE  CommittedBy(r)'
<1>1. PICK k \in DOMAIN commits : commits[k].by = r
  BY DEF CommittedBy
<1>2. k \in DOMAIN commits' /\ commits'[k] = commits[k]
  <2>1. ASSUME NEW u \in Runs, Commit(u)
        PROVE  k \in DOMAIN commits' /\ commits'[k] = commits[k]
    BY <2>1, CommitStep
  <2> QED BY <2>1, CommitsStay
<1> QED BY <1>1, <1>2 DEF CommittedBy

\* The holder's own edits are no younger than its iteration.
LEMMA IterationsKept ==
  ASSUME TypesOK, LoopInv, UncommittedInv, NEW r \in Runs, Holding(r), pc'[r] \in Executing,
         [Next]_vars, NEW f \in Files, tree'[f].by = r
  PROVE  tree'[f].iteration =< ex'.iteration
<1>1. pc[r] \in Executing /\ ex.snapshot \in DOMAIN commits
  BY HolderSteps, TypesAre DEF CommitsOK
<1>2. ex.iteration \in Nat /\ ex'.iteration \in {ex.iteration, ex.iteration + 1}
  <2>1. ex.iteration \in Nat
    BY TypesAre, ConstantsAssumption DEF ExOK, Local
  <2> QED BY <2>1, HolderLocals, CommitStep
<1>3. CASE tree'[f] = tree[f]
  <2>1. tree[f].iteration =< ex.iteration
    BY <1>1, <1>3 DEF LoopInv
  <2>2. tree[f].iteration \in Nat
    BY TypesAre, ConstantsAssumption DEF RepoOK, Tree, Content
  <2> QED BY <1>2, <1>3, <2>1, <2>2
<1>4. CASE tree'[f] = User
  BY <1>4, Authors
<1>5. ASSUME NEW u \in Runs, WriteChange(u), tree'[f] = Written(u, ex.iteration)
      PROVE  tree'[f].iteration =< ex'.iteration
  BY <1>2, <1>5, Authors
<1>6. ASSUME NEW u \in Runs, Rollback(u), \/ tree'[f] = commits[ex.snapshot].tree[f]
                                          \/ tree'[f] = Absent
      PROVE  FALSE
  <2>1. u = r /\ pc[r] \in InLoop
    BY <1>6, HolderSteps DEF Rollback, InLoop, Executing, Holding
  <2>2. commits[ex.snapshot].tree[f].by # r
    BY <1>1, <2>1 DEF LoopInv, UncommittedInv
  <2> QED BY <1>6, <2>2, Authors
<1> QED BY <1>3, <1>4, <1>5, <1>6, TreeSteps

\* HEAD and the commits while the run is in its loop.
LEMMA HolderHead ==
  ASSUME TypesOK, LoopInv, NEW r \in Runs, Holding(r), ~Commit(r)
  PROVE  head' = head /\ UNCHANGED commits
<1>1. CASE Rollback(r)
  <2>1. pc[r] \in InLoop
    BY <1>1, SMTT(60) DEF Rollback, InLoop, Executing
  <2> QED BY <1>1, <2>1 DEF Rollback, LoopInv
<1>2. CASE ~Rollback(r)
  BY <1>2 DEF Holding, InitializeGit, LeaveLoop, Ask, AskRaises, WriteChange, SkipUnchanged,
     RejectChange, RunTests, RunVerify, DecideWithoutGit, StageAll, Conclude, repo
<1> QED BY <1>1, <1>2

LEMMA LoopKept ==
  ASSUME TypesOK, LoopInv, UnstartedInv, UncommittedInv, [Next]_vars
  PROVE  LoopInv'
<1> DEFINE L(r) ==
      /\ pc'[r] = "starting" => ~ex'.committed
      /\ pc'[r] \in InLoop => ex'.snapshot = head' /\ ~ex'.committed
      /\ pc'[r] \in Executing \ {"starting"} => branch'[r] = ex'.git
      /\ pc'[r] \in {"committing", "rolling"} => ex'.git
      /\ pc'[r] \in Executing /\ ex'.committed => CommittedBy(r)'
      /\ pc'[r] \in Executing =>
           \A f \in Files : tree'[f].by = r => tree'[f].iteration =< ex'.iteration
<1>1. ASSUME NEW r \in Runs, pc'[r] \notin Executing
      PROVE  L(r)
  BY <1>1 DEF Executing, InLoop
<1>2. ASSUME NEW r \in Runs, Quiet, pc'[r] \in Executing
      PROVE  L(r)
  <2>1. /\ pc'[r] = pc[r] /\ UNCHANGED <<ex, head, commits, branch>>
        /\ \A f \in Files : tree'[f] = tree[f] \/ tree'[f] = User
    BY <1>2, QuietSteps
  <2>2. CommittedBy(r) => CommittedBy(r)'
    BY CommittedStays
  <2>3. \A f \in Files : tree'[f].by = r => tree'[f] = tree[f]
    BY <2>1, Authors
  <2> QED BY <2>1, <2>2, <2>3 DEF LoopInv
<1>3. ASSUME NEW r \in Runs, Acquire(r)
      PROVE  L(r)
  <2>1. pc'[r] = "starting" /\ ~ex'.committed
    BY <1>3, AcquireStep DEF Idle
  <2>2. \A f \in Files : tree'[f].by # r
    BY <1>3, AcquireStep DEF UnstartedInv, Early
  <2> QED BY <2>1, <2>2 DEF InLoop
<1>4. ASSUME NEW u \in Runs, Acquire(u), NEW r \in Runs \ {u}
      PROVE  L(r)
  BY <1>4, <1>1, AcquireStep
<1>5. ASSUME NEW u \in Runs, Holding(u), NEW r \in Runs \ {u}
      PROVE  L(r)
  BY <1>5, <1>1, HolderSteps, HolderMoves
<1>6. ASSUME NEW r \in Runs, Holding(r), pc'[r] \in Executing
      PROVE  L(r)
  <2>a. DOMAIN pc = Runs /\ pc[r] \in Executing
    BY <1>6, Domains, HolderSteps
  <2>b. \A f \in Files : tree'[f].by = r => tree'[f].iteration =< ex'.iteration
    BY <1>6, IterationsKept
  <2>1. CASE InitializeGit(r)
    <3>1. /\ pc[r] = "starting" /\ pc'[r] = "checking" /\ ex'.snapshot = head
          /\ ex'.committed = ex.committed /\ branch'[r] = ex'.git
      <4>1. pc[r] = "starting" /\ pc'[r] = "checking"
        BY <2>1, <2>a DEF InitializeGit, Goto
      <4>2. ~Ask(r) /\ ~Commit(r) /\ ~RunVerify(r) /\ ~LeaveLoop(r) /\ ~WriteChange(r)
            /\ ~SkipUnchanged(r) /\ ~RunTests(r) /\ ~DecideWithoutGit(r) /\ ~StageAll(r) /\ ~Rollback(r)
        BY <4>1 DEF Ask, Commit, RunVerify, LeaveLoop, WriteChange, SkipUnchanged, RunTests,
           DecideWithoutGit, StageAll, Rollback
      <4> QED BY <1>6, <4>1, <4>2, HolderLocals
    <3>2. head' = head
      BY <1>6, <3>1, HolderHead DEF Commit
    <3> QED BY <2>b, <3>1, <3>2 DEF LoopInv
  <2>2. CASE Commit(r)
    <3>1. pc[r] = "committing"
      BY <2>2 DEF Commit
    <3>2. branch' = branch /\ branch[r] = ex.git /\ ex.git /\ ~ex.committed /\ ex.snapshot = head
      BY <2>2, <3>1 DEF Commit, LoopInv, InLoop, Executing
    <3>3. CASE UNCHANGED <<commits, head, ex>> /\ pc'[r] = "rolling"
      BY <2>b, <3>2, <3>3 DEF InLoop
    <3>4. CASE ~(UNCHANGED <<commits, head, ex>> /\ pc'[r] = "rolling")
      <4>1. /\ pc'[r] = "concluding" /\ ex'.git = ex.git
            /\ Len(commits) + 1 \in DOMAIN commits' /\ commits'[Len(commits) + 1].by = r
        BY <2>2, <3>4, CommitStep
      <4>2. CommittedBy(r)'
        BY <4>1 DEF CommittedBy
      <4> QED BY <2>b, <3>2, <4>1, <4>2 DEF InLoop
    <3> QED BY <3>3, <3>4
  <2>3. CASE ~InitializeGit(r) /\ ~Commit(r)
    <3>1. /\ ex'.snapshot = ex.snapshot /\ ex'.git = ex.git /\ ex'.committed = ex.committed
          /\ branch' = branch
      BY <1>6, <2>3, HolderLocals DEF SameLocal
    <3>2. head' = head
      BY <1>6, <2>3, HolderHead, SMTT(60)
    <3>3. /\ pc[r] \in Executing \ {"starting"} /\ pc'[r] # "starting"
          /\ pc'[r] \in InLoop => pc[r] \in InLoop
          /\ pc'[r] \in {"committing", "rolling"} => ex.git
      BY <1>6, <2>3, <2>a DEF Holding, LeaveLoop, Ask, AskRaises, WriteChange, SkipUnchanged,
         RejectChange, RunTests, RunVerify, DecideWithoutGit, StageAll, Rollback, Conclude,
         Raise, Goto, Executing, InLoop, calls
    <3>4. CommittedBy(r) => CommittedBy(r)'
      BY CommittedStays
    <3> QED BY <2>a, <2>b, <3>1, <3>2, <3>3, <3>4 DEF LoopInv
  <2> QED BY <2>1, <2>2, <2>3
<1>7. \A r \in Runs : L(r)
  BY <1>1, <1>2, <1>3, <1>4, <1>5, <1>6, StepKinds
<1> QED BY <1>7 DEF LoopInv

-----------------------------------------------------------------------------
(* What a failed run leaves behind                                         *)

\* The holder of the lock decides about nobody's outcome but its own.
LEMMA HolderOutcomes ==
  ASSUME TypesOK, NEW r \in Runs, Holding(r)
  PROVE  /\ status' = status
         /\ \A u \in Runs \ {r} : success'[u] = success[u] /\ branch'[u] = branch[u] /\ final'[u] = final[u]
         /\ ~InitializeGit(r) => branch' = branch
         /\ pc'[r] \in Executing => success' = success /\ final' = final
<1>a. DOMAIN success = Runs /\ DOMAIN branch = Runs /\ DOMAIN final = Runs /\ DOMAIN pc = Runs
  BY Domains, SMTT(60)
<1>1. status' = status
  BY DEF Holding, InitializeGit, LeaveLoop, Ask, AskRaises, WriteChange, SkipUnchanged,
     RejectChange, RunTests, RunVerify, DecideWithoutGit, StageAll, Commit, Rollback, Conclude, calls
<1>2. CASE AskRaises(r) \/ RejectChange(r) \/ Conclude(r)
  <2>1. branch' = branch
    BY <1>2 DEF AskRaises, RejectChange, Conclude
  <2>2. pc'[r] \notin Executing
    BY <1>2, <1>a DEF AskRaises, RejectChange, Conclude, Raise, Goto, Executing
  <2>3. /\ \E s : success' = [success EXCEPT ![r] = s]
        /\ final' = final \/ final' = [final EXCEPT ![r] = "failed"]
    BY <1>2 DEF AskRaises, RejectChange, Conclude, Raise
  <2> QED BY <1>a, <1>1, <2>1, <2>2, <2>3
<1>3. CASE InitializeGit(r)
  BY <1>1, <1>3, <1>a DEF InitializeGit
<1>4. CASE LeaveLoop(r) \/ Ask(r) \/ WriteChange(r) \/ SkipUnchanged(r) \/ RunTests(r)
           \/ RunVerify(r) \/ DecideWithoutGit(r) \/ StageAll(r) \/ Commit(r) \/ Rollback(r)
  <2>1. UNCHANGED <<success, branch, final>>
    BY <1>4 DEF LeaveLoop, Ask, WriteChange, SkipUnchanged, RunTests, RunVerify, DecideWithoutGit,
       StageAll, Commit, Rollback, calls
  <2> QED BY <1>1, <2>1
<1> QED BY <1>2, <1>3, <1>4 DEF Holding

LEMMA StuckGrows ==
  ASSUME [Next]_vars, TypesOK
  PROVE  stuck \subseteq stuck'
<1>1. ASSUME NEW r \in Runs, Holding(r)
      PROVE  stuck \subseteq stuck'
  BY <1>1 DEF Holding, InitializeGit, LeaveLoop, Ask, AskRaises, WriteChange, SkipUnchanged,
     RejectChange, RunTests, RunVerify, DecideWithoutGit, StageAll, Commit, Rollback, Conclude, history
<1> QED BY <1>1, QuietSteps, AcquireStep, StepKinds, SMTT(60)

LEMMA UnstagedKept ==
  ASSUME TypesOK, LoopInv, UnstartedInv, UncommittedInv, UnstagedInv, [Next]_vars
  PROVE  UnstagedInv'
<1> SUFFICES ASSUME NEW r \in Runs, pc'[r] \in Executing \ {"committing", "rolling"},
                    ~ex'.committed, r \notin stuck', NEW f \in Files
             PROVE  index'[f].by # r
  BY DEF UnstagedInv
<1>a. r \notin stuck
  BY StuckGrows
<1>1. CASE Quiet
  BY <1>1, <1>a, QuietSteps DEF UnstagedInv
<1>2. ASSUME NEW u \in Runs, Acquire(u)
      PROVE  index'[f].by # r
  BY <1>2, AcquireStep DEF UnstartedInv, Early
<1>3. ASSUME NEW u \in Runs, Holding(u)
      PROVE  index'[f].by # r
  <2>1. u = r /\ pc[r] \in Executing
    BY <1>3, HolderSteps, HolderMoves
  <2>2. ~ex.committed \/ pc[r] \in Early
    BY UncommittedBefore
  <2>3. ~ex.committed
    BY <2>1, <2>2 DEF LoopInv, Early, Executing
  <2>4. CASE Rollback(r)
    <3>1. index' = commits[ex.snapshot].tree
      BY <2>4 DEF Rollback
    <3>2. ex.snapshot \in DOMAIN commits
      BY TypesAre DEF CommitsOK
    <3> QED BY <2>1, <2>3, <3>1, <3>2 DEF UncommittedInv
  <2>5. CASE ~Rollback(r)
    <3>1. pc[r] # "rolling" /\ ~Commit(r)
      <4>1. pc[r] # "rolling"
        BY <1>3, <2>1, <2>5 DEF Holding, InitializeGit, LeaveLoop, Ask, AskRaises, WriteChange,
           SkipUnchanged, RejectChange, RunTests, RunVerify, DecideWithoutGit, StageAll, Commit, Conclude
      <4> QED BY <4>1, CommitStep, SMTT(60)
    <3>2. pc[r] # "committing"
      BY <1>3, <2>1, <2>5, <3>1 DEF Holding, InitializeGit, LeaveLoop, Ask, AskRaises, WriteChange,
         SkipUnchanged, RejectChange, RunTests, RunVerify, DecideWithoutGit, StageAll, Conclude
    <3>3. index[f].by # r
      BY <1>a, <2>1, <2>3, <3>1, <3>2 DEF UnstagedInv
    <3>4. ~(\E v \in Runs : StageAll(v) /\ pc'[v] = "committing")
      <4>1. \A v \in Runs : StageAll(v) => v = r
        BY <2>1, HolderSteps DEF Holding
      <4> QED BY <4>1
    <3>5. ~(\E v \in Runs : Rollback(v))
      <4>1. \A v \in Runs : Rollback(v) => v = r
        BY <2>1, HolderSteps DEF Holding
      <4> QED BY <2>5, <4>1
    <3> QED BY <3>3, <3>4, <3>5, IndexSteps
  <2> QED BY <2>4, <2>5
<1> QED BY <1>1, <1>2, <1>3, StepKinds

LEMMA UndoneKept ==
  ASSUME TypesOK, LoopInv, UnstartedInv, UncommittedInv, FailedRunIsUndone, [Next]_vars
  PROVE  FailedRunIsUndone'
<1> SUFFICES ASSUME NEW r \in Runs, pc'[r] \in {"concluding", "checking"}, ex'.git, ~ex'.committed,
                    r \notin stuck', NEW f \in Files, commits'[ex'.snapshot].tree[f] # Absent
             PROVE  tree'[f].by # r
  BY DEF FailedRunIsUndone
<1>a. r \notin stuck /\ pc'[r] \in Executing
  BY StuckGrows DEF Executing
<1>1. CASE Quiet
  BY <1>1, <1>a, QuietSteps, Authors DEF FailedRunIsUndone
<1>2. ASSUME NEW u \in Runs, Acquire(u)
      PROVE  FALSE
  BY <1>2, AcquireStep DEF Executing
<1>3. ASSUME NEW u \in Runs, Holding(u)
      PROVE  tree'[f].by # r
  <2>1. u = r /\ pc[r] \in Executing /\ DOMAIN pc = Runs
    BY <1>3, <1>a, HolderSteps, HolderMoves, Domains
  <2>2. \/ InitializeGit(r) \/ LeaveLoop(r) \/ Rollback(r)
        \/ DecideWithoutGit(r) \/ Commit(r)
    <3>1. ASSUME Ask(r) \/ AskRaises(r) \/ WriteChange(r) \/ SkipUnchanged(r)
          PROVE  FALSE
      BY <3>1, <1>a, <2>1 DEF Ask, AskRaises, WriteChange, SkipUnchanged, Raise, Goto, Executing, calls
    <3>2. ASSUME RejectChange(r) \/ RunTests(r) \/ RunVerify(r)
          PROVE  FALSE
      BY <3>2, <1>a, <2>1 DEF RejectChange, RunTests, RunVerify, Raise, Goto, Executing, calls
    <3>3. ASSUME StageAll(r) \/ Conclude(r)
          PROVE  FALSE
      BY <3>3, <1>a, <2>1 DEF StageAll, Conclude, Raise, Goto, Executing, calls
    <3> QED BY <1>3, <2>1, <3>1, <3>2, <3>3 DEF Holding
  <2>3. CASE InitializeGit(r)
    BY <2>3 DEF InitializeGit, UnstartedInv, Early, repo
  <2>4. CASE LeaveLoop(r)
    BY <1>a, <2>4 DEF LeaveLoop, FailedRunIsUndone, repo
  <2>5. CASE Rollback(r)
    <3>1. tree' = ResetTree(commits[ex.snapshot]) /\ commits' = commits
      BY <2>5 DEF Rollback
    <3>2. ex'.snapshot = ex.snapshot
      BY <2>5, TypesAre DEF Rollback, ExOK, Local
    <3>3. tree'[f] = commits[ex.snapshot].tree[f]
      BY <3>1, <3>2 DEF ResetTree
    <3>4. ex.snapshot \in DOMAIN commits /\ ~ex.committed
      BY <2>5, TypesAre DEF Rollback, LoopInv, InLoop, Executing, CommitsOK
    <3> QED BY <2>1, <3>3, <3>4 DEF UncommittedInv
  <2>6. CASE DecideWithoutGit(r)
    BY <2>6 DEF DecideWithoutGit
  <2>7. CASE Commit(r)
    BY <2>7, CommitStep
  <2> QED BY <2>2, <2>3, <2>4, <2>5, <2>6, <2>7
<1> QED BY <1>1, <1>2, <1>3, StepKinds

-----------------------------------------------------------------------------
(* What a run says of its outcome                                          *)

LEMMA OutcomeKept ==
  ASSUME TypesOK, LoopInv, OutcomeInv, [Next]_vars
  PROVE  OutcomeInv'
<1> DEFINE O(r) ==
      /\ pc'[r] \in Executing \cup {"idle", "waiting"} => success'[r] = "none"
      /\ success'[r] = "yes" => (branch'[r] => CommittedBy(r)')
      /\ pc'[r] \notin {"finalizing", "finished"} => final'[r] = "none" /\ status'[r] # "success"
      /\ final'[r] = "success" => success'[r] = "yes"
      /\ status'[r] = "success" => final'[r] = "success"
<1>a. /\ DOMAIN pc = Runs /\ DOMAIN success = Runs /\ DOMAIN branch = Runs /\ DOMAIN final = Runs
      /\ DOMAIN status = Runs
  BY Domains
<1>1. ASSUME NEW r \in Runs, UNCHANGED <<success, branch, final, status>>, pc'[r] = pc[r]
      PROVE  O(r)
  <2>1. CommittedBy(r) => CommittedBy(r)'
    BY CommittedStays
  <2> QED BY <1>1, <2>1 DEF OutcomeInv
<1>2. ASSUME NEW u \in Runs, NEW r \in Runs \ {u}, Holding(u)
      PROVE  O(r)
  <2>1. /\ success'[r] = success[r] /\ branch'[r] = branch[r] /\ final'[r] = final[r]
        /\ status'[r] = status[r] /\ pc'[r] = pc[r]
    BY <1>2, HolderOutcomes, HolderMoves
  <2>2. CommittedBy(r) => CommittedBy(r)'
    BY CommittedStays
  <2> QED BY <2>1, <2>2 DEF OutcomeInv
<1>3. ASSUME NEW r \in Runs, Holding(r)
      PROVE  O(r)
  <2>1. pc[r] \in Executing /\ success[r] = "none" /\ final[r] = "none" /\ status[r] # "success"
        /\ status' = status
    BY <1>3, HolderSteps, HolderOutcomes DEF OutcomeInv, Executing
  <2>2. CASE pc'[r] \in Executing
    BY <1>3, <2>1, <2>2, HolderOutcomes
  <2>3. CASE AskRaises(r) \/ RejectChange(r)
    <3>1. success'[r] = "raised" /\ final'[r] = "failed" /\ pc'[r] \in {"finalizing", "finished"}
      BY <2>3, <1>a DEF AskRaises, RejectChange, Raise, Goto
    <3> QED BY <2>1, <3>1 DEF Executing
  <2>4. CASE Conclude(r)
    <3>1. /\ pc[r] = "concluding" /\ pc'[r] \in {"returned", "finished"} /\ final' = final
          /\ branch' = branch /\ success'[r] = IF Succeeded(r) THEN "yes" ELSE "no"
      BY <2>4, <1>a DEF Conclude, Goto
    <3>2. branch[r] = ex.git /\ (ex.committed => CommittedBy(r))
      BY <3>1 DEF LoopInv, Executing
    <3>3. success'[r] = "yes" => (branch'[r] => CommittedBy(r))
      BY <3>1, <3>2 DEF Succeeded
    <3>4. CommittedBy(r) => CommittedBy(r)'
      BY CommittedStays
    <3> QED BY <2>1, <3>1, <3>3, <3>4 DEF Executing
  <2>5. CASE ~AskRaises(r) /\ ~RejectChange(r) /\ ~Conclude(r)
    <3>1. pc'[r] \in Executing
      BY <1>3, <2>5, <1>a, <2>1 DEF Holding, InitializeGit, LeaveLoop, Ask, WriteChange, SkipUnchanged,
         RunTests, RunVerify, DecideWithoutGit, StageAll, Commit, Rollback, Goto, Executing, calls
    <3> QED BY <2>2, <3>1, SMTT(60)
  <2> QED BY <2>3, <2>4, <2>5
<1>4. ASSUME NEW u \in Runs, Acquire(u), NEW r \in Runs
      PROVE  O(r)
  <2>1. UNCHANGED <<success, branch, final, status>> /\ (pc'[r] = pc[r] \/ (r = u /\ pc'[r] = "starting"))
        /\ pc[u] = "waiting"
    BY <1>4, AcquireStep
  <2>2. CASE pc'[r] = pc[r]
    BY <1>1, <2>1, <2>2
  <2>3. CASE r = u /\ pc'[r] = "starting"
    BY <2>1, <2>3 DEF OutcomeInv
  <2> QED BY <2>1, <2>2, <2>3
<1>5. ASSUME NEW u \in Runs, NEW r \in Runs, ChooseStatus(u)
      PROVE  O(r)
  <2>1. /\ UNCHANGED <<success, branch, status>> /\ pc[u] = "returned"
        /\ pc'[r] = IF r = u THEN "finalizing" ELSE pc[r]
        /\ final'[r] = IF r = u THEN IF cancel[r] THEN "cancelled"
                                     ELSE IF success[r] = "yes" THEN "success" ELSE "failed"
                       ELSE final[r]
    BY <1>5, <1>a DEF ChooseStatus, Goto
  <2>2. CommittedBy(r) => CommittedBy(r)'
    BY CommittedStays
  <2> QED BY <2>1, <2>2 DEF OutcomeInv, Executing
<1>6. ASSUME NEW u \in Runs, NEW r \in Runs, Finalize(u)
      PROVE  O(r)
  <2>1. /\ UNCHANGED <<success, branch, final>> /\ pc[u] = "finalizing"
        /\ pc'[r] = IF r = u THEN "finished" ELSE pc[r]
        /\ status'[r] = IF r = u THEN final[r] ELSE status[r]
    BY <1>6, <1>a DEF Finalize, Goto
  <2>2. CommittedBy(r) => CommittedBy(r)'
    BY CommittedStays
  <2> QED BY <2>1, <2>2 DEF OutcomeInv, Executing
<1>7. ASSUME NEW u \in Runs, NEW r \in Runs, Call(u, "sync") \/ Call(u, "session") \/ Stop(u)
      PROVE  O(r)
  <2>1. /\ UNCHANGED <<success, branch, final>>
        /\ pc'[r] = pc[r] \/ (pc[r] = "idle" /\ pc'[r] = "waiting")
        /\ status'[r] \in {status[r], "running", "none", "cancel_requested"}
    BY <1>7, <1>a DEF Call, Stop, Goto
  <2>2. CommittedBy(r) => CommittedBy(r)'
    BY CommittedStays
  <2> QED BY <2>1, <2>2 DEF OutcomeInv, Executing
<1>8. ASSUME NEW r \in Runs, UNCHANGED calls
      PROVE  O(r)
  <2>1. UNCHANGED <<success, branch, final, status>> /\ pc'[r] = pc[r]
    BY <1>8 DEF calls
  <2> QED BY <1>1, <2>1
<1>9. (UNCHANGED vars \/ \E f \in Files : UserSave(f)) => UNCHANGED calls
  BY DEF vars, UserSave
<1>10. \A r \in Runs : O(r)
  BY <1>2, <1>3, <1>4, <1>5, <1>6, <1>7, <1>8, <1>9, StepKinds DEF Quiet
<1> QED BY <1>10 DEF OutcomeInv

-----------------------------------------------------------------------------
(* What explains that an edit outlives its run                             *)

LEMMA ExplainedStays ==
  ASSUME TypesOK, OutcomeInv, [Next]_vars, NEW r \in Runs, Explained(r), ~InitializeGit(r)
  PROVE  Explained(r)'
<1>1. CASE CommittedBy(r)
  BY <1>1, CommittedStays DEF Explained
<1>2. CASE r \in stuck
  BY <1>2, StuckGrows DEF Explained
<1>3. CASE ~branch[r]
  <2>1. branch'[r] = branch[r]
    BY HolderOutcomes, AcquireStep, QuietSteps, StepKinds
  <2> QED BY <1>3, <2>1 DEF Explained
<1>4. CASE success[r] = "raised"
  <2>1. pc[r] \notin Executing
    BY <1>4 DEF OutcomeInv
  <2>2. success'[r] = success[r]
    BY <2>1, HolderSteps, HolderOutcomes, AcquireStep, QuietSteps, StepKinds
  <2> QED BY <1>4, <2>2 DEF Explained
<1> QED BY <1>1, <1>2, <1>3, <1>4 DEF Explained

LEMMA LeftoversKept ==
  ASSUME TypesOK, LoopInv, UncommittedInv, UnstagedInv, FailedRunIsUndone, TrackedInv, OutcomeInv,
         LeftoversInv, ForeignEditsInCommits, [Next]_vars
  PROVE  LeftoversInv'
<1> SUFFICES ASSUME NEW r \in Runs, NEW f \in Tracked, pc'[r] \notin Executing,
                    tree'[f].by = r \/ index'[f].by = r
             PROVE  Explained(r)'
  BY DEF LeftoversInv, Explained, CommittedBy
<1>a. f \in Files /\ ex.snapshot \in DOMAIN commits /\ DOMAIN pc = Runs /\ DOMAIN success = Runs
  BY TypesAre, Domains DEF CommitsOK, Files
<1>1. CASE pc[r] \notin Executing
  <2>1. tree[f].by = r \/ index[f].by = r => Explained(r)
    BY <1>1 DEF LeftoversInv
  <2>2. commits[ex.snapshot].tree[f].by = r => Explained(r)
    BY <1>a DEF ForeignEditsInCommits, Explained, CommittedBy
  <2>3. ~(tree'[f] = Written(r, ex.iteration) /\ WriteChange(r))
    BY <1>1 DEF WriteChange, Executing
  <2>4. tree'[f].by = r => Explained(r)
    BY <1>a, <2>1, <2>2, <2>3, TreeSteps, Authors
  <2>5. index'[f].by = r => Explained(r)
    BY <1>a, <2>1, <2>2, IndexSteps
  <2>6. ~InitializeGit(r)
    BY <1>1 DEF InitializeGit, Executing
  <2> QED BY <2>4, <2>5, <2>6, ExplainedStays
<1>2. CASE pc[r] \in Executing
  <2>1. Holding(r)
    <3>1. ~Quiet
      BY <1>2, QuietSteps
    <3>2. \A u \in Runs : ~Acquire(u)
      BY <1>2, AcquireStep
    <3>3. \A u \in Runs : Holding(u) => u = r
      BY <1>2, HolderSteps, SMTT(60)
    <3> QED BY <3>1, <3>2, <3>3, StepKinds
  <2>2. AskRaises(r) \/ RejectChange(r) \/ Conclude(r)
    BY <1>2, <1>a, <2>1 DEF Holding, InitializeGit, LeaveLoop, Ask, WriteChange, SkipUnchanged,
       RunTests, RunVerify, DecideWithoutGit, StageAll, Commit, Rollback, Goto, Executing, calls
  <2>3. CASE AskRaises(r) \/ RejectChange(r)
    <3>1. success'[r] = "raised"
      BY <1>a, <2>3 DEF AskRaises, RejectChange, Raise
    <3> QED BY <3>1 DEF Explained
  <2>4. CASE Conclude(r)
    <3>1. pc[r] = "concluding" /\ UNCHANGED <<branch, tree, index, commits, stuck>>
      BY <2>4 DEF Conclude, repo, history
    <3>2. branch[r] = ex.git /\ (ex.committed => CommittedBy(r))
      BY <3>1 DEF LoopInv, Executing
    <3>3. ex.git /\ ~ex.committed => r \in stuck
      <4> SUFFICES ASSUME ex.git, ~ex.committed, r \notin stuck
                   PROVE  FALSE
        OBVIOUS
      <4>1. tree[f].by # r
        BY <1>a, <3>1 DEF FailedRunIsUndone, TrackedInv
      <4>2. index[f].by # r
        BY <1>a, <3>1 DEF UnstagedInv, Executing
      <4> QED BY <3>1, <4>1, <4>2
    <3>4. CommittedBy(r) => CommittedBy(r)'
      BY CommittedStays
    <3> QED BY <3>1, <3>2, <3>3, <3>4 DEF Explained
  <2> QED BY <2>2, <2>3, <2>4
<1> QED BY <1>1, <1>2

LEMMA ForeignKept ==
  ASSUME TypesOK, UncommittedInv, OutcomeInv, LeftoversInv, ForeignEditsInCommits, [Next]_vars
  PROVE  ForeignEditsInCommits'
<1> SUFFICES ASSUME NEW k \in DOMAIN commits', NEW f \in Tracked, NEW r \in Runs,
                    commits'[k].by # r, commits'[k].tree[f].by = r
             PROVE  Explained(r)'
  BY DEF ForeignEditsInCommits, Explained, CommittedBy, Files
<1>a. f \in Files
  BY DEF Files
<1>1. ASSUME k \in DOMAIN commits, commits'[k] = commits[k]
      PROVE  Explained(r)'
  <2>1. Explained(r)
    BY <1>1, <1>a DEF ForeignEditsInCommits, Explained, CommittedBy
  <2>2. pc[r] # "starting"
    BY <1>1, <1>a DEF UncommittedInv, Early
  <2> QED BY <2>1, <2>2, ExplainedStays DEF InitializeGit
<1>2. ASSUME NEW u \in Runs, Commit(u), ~(UNCHANGED commits)
      PROVE  Explained(r)'
  <2>1. k \in DOMAIN commits \/ k = Len(commits) + 1
    BY <1>2, CommitStep
  <2>2. CASE k \in DOMAIN commits
    BY <1>1, <1>2, <2>2, CommitStep
  <2>3. CASE k = Len(commits) + 1
    <3>1. u # r /\ index[f].by = r
      BY <1>2, <2>3, CommitStep
    <3>2. pc[r] \notin Executing
      BY <1>2, <3>1, HolderSteps DEF Holding
    <3>3. Explained(r)
      BY <3>1, <3>2 DEF LeftoversInv
    <3>4. ~InitializeGit(r)
      BY <3>2 DEF InitializeGit, Executing
    <3> QED BY <3>3, <3>4, ExplainedStays
  <2> QED BY <2>1, <2>2, <2>3
<1> QED BY <1>1, <1>2, CommitsStay

-----------------------------------------------------------------------------
(* What is tested, verified and committed                                  *)

LEMMA TestedKept ==
  ASSUME TypesOK, TestedInv, [Next]_vars
  PROVE  TestedInv'
<1> SUFFICES ASSUME NEW r \in Runs, NEW f \in Files
             PROVE  /\ pc'[r] \in {"verifying", "deciding"} /\ tree'[f] # ex'.tested[f] => tree'[f] = User
                    /\ pc'[r] = "committing" /\ index'[f] # ex'.tested[f] => index'[f] = User
  BY DEF TestedInv
<1>a. DOMAIN pc = Runs /\ ex \in Local
  BY Domains, TypesAre DEF ExOK
<1>1. CASE pc'[r] \notin {"verifying", "deciding", "committing"}
  BY <1>1
<1>2. CASE Quiet /\ pc'[r] \in {"verifying", "deciding", "committing"}
  BY <1>2, QuietSteps DEF TestedInv, Executing
<1>3. ASSUME NEW u \in Runs, Acquire(u), pc'[r] \in {"verifying", "deciding", "committing"}
      PROVE  FALSE
  BY <1>3, AcquireStep DEF Executing
<1>4. ASSUME NEW u \in Runs, Holding(u), pc'[r] \in {"verifying", "deciding", "committing"}
      PROVE  /\ pc'[r] \in {"verifying", "deciding"} /\ tree'[f] # ex'.tested[f] => tree'[f] = User
             /\ pc'[r] = "committing" /\ index'[f] # ex'.tested[f] => index'[f] = User
  <2>1. u = r
    BY <1>4, HolderSteps, HolderMoves, SMTT(60) DEF Executing
  <2>2. RunTests(r) \/ RunVerify(r) \/ StageAll(r)
    BY <1>4, <1>a, <2>1 DEF Holding, InitializeGit, LeaveLoop, Ask, AskRaises, WriteChange,
       SkipUnchanged, RejectChange, DecideWithoutGit, Commit, Rollback, Conclude, Raise, Goto, calls
  <2>3. CASE RunTests(r)
    <3>1. ex'.tested = tree /\ tree' = tree /\ pc'[r] = "verifying"
      BY <1>a, <2>3 DEF RunTests, Goto, Local, repo
    <3> QED BY <3>1
  <2>4. CASE RunVerify(r)
    <3>1. ex'.tested = ex.tested /\ tree' = tree /\ pc'[r] = "deciding" /\ pc[r] = "verifying"
      BY <1>a, <2>4 DEF RunVerify, Goto, Local
    <3> QED BY <3>1 DEF TestedInv
  <2>5. CASE StageAll(r)
    <3>1. ex' = ex /\ pc[r] = "deciding" /\ (pc'[r] = "committing" => index' = tree) /\ pc'[r] # "verifying"
          /\ pc'[r] # "deciding"
      BY <1>a, <2>5 DEF StageAll, AddAll, Goto
    <3> QED BY <3>1 DEF TestedInv
  <2> QED BY <2>2, <2>3, <2>4, <2>5
<1> QED BY <1>1, <1>2, <1>3, <1>4, StepKinds

LEMMA CommitsTestedKept ==
  ASSUME TypesOK, TestedInv, CommitsAreTested, [Next]_vars
  PROVE  CommitsAreTested'
<1> SUFFICES ASSUME NEW k \in DOMAIN commits', NEW f \in Files,
                    commits'[k].tree[f] # commits'[k].tested[f]
             PROVE  commits'[k].tree[f] = User
  BY DEF CommitsAreTested
<1>1. ASSUME NEW u \in Runs, Commit(u), ~(UNCHANGED commits)
      PROVE  commits'[k].tree[f] = User
  <2>1. k \in DOMAIN commits \/ k = Len(commits) + 1
    BY <1>1, CommitStep
  <2>2. CASE k \in DOMAIN commits
    BY <1>1, <2>2, CommitStep DEF CommitsAreTested
  <2>3. CASE k = Len(commits) + 1
    <3>1. commits'[k].tree = index /\ commits'[k].tested = ex.tested /\ pc[u] = "committing"
      BY <1>1, <2>3, CommitStep DEF Commit
    <3> QED BY <3>1 DEF TestedInv
  <2> QED BY <2>1, <2>2, <2>3
<1> QED BY <1>1, CommitsStay DEF CommitsAreTested

LEMMA PassedKept ==
  ASSUME TypesOK, PassedInv, [Next]_vars
  PROVE  PassedInv'
<1>a. ex \in Local /\ report \in Reports /\ ex.snapshot \in DOMAIN commits
  BY TypesAre DEF ExOK, RepoOK, CommitsOK
<1>1. CASE Quiet
  BY <1>1, QuietSteps DEF PassedInv
<1>2. ASSUME NEW u \in Runs, Acquire(u)
      PROVE  PassedInv'
  BY <1>2, AcquireStep DEF PassedInv, Idle
<1>3. ASSUME NEW u \in Runs, RunVerify(u)
      PROVE  PassedInv'
  <2>1. CASE passed'
    BY <2>1 DEF PassedInv
  <2>2. CASE report' = [report EXCEPT !.tree = "FAIL"] /\ ex' = [ex EXCEPT !.verify = "failed"]
             /\ UNCHANGED <<passed, commits>>
    BY <1>a, <2>2 DEF PassedInv, Reports, Local
  <2>3. CASE ex' = [ex EXCEPT !.verify = Believed] /\ UNCHANGED <<report, passed, commits>>
    BY <1>a, <2>3 DEF PassedInv, Believed, Reports, Local
  <2> QED BY <1>3, <2>1, <2>2, <2>3 DEF RunVerify, history
<1>4. ASSUME NEW u \in Runs, Commit(u)
      PROVE  PassedInv'
  <2>1. UNCHANGED <<report, passed>>
    BY <1>4 DEF Commit, history
  <2>2. CASE UNCHANGED <<commits, ex>>
    BY <2>1, <2>2 DEF PassedInv
  <2>3. CASE ~(UNCHANGED <<commits, ex>>)
    <3>1. /\ \A k \in DOMAIN commits' : commits'[k] = commits[k] \/ commits'[k].report = report.index
          /\ \A k \in DOMAIN commits' : k \in DOMAIN commits \/ commits'[k].report = report.index
          /\ ex'.verify = ex.verify
      BY <1>4, <2>3, CommitStep
    <3> QED BY <2>1, <3>1 DEF PassedInv
  <2> QED BY <2>2, <2>3
<1>5. ASSUME NEW u \in Runs, StageAll(u)
      PROVE  PassedInv'
  <2>1. UNCHANGED <<ex, passed, commits>> /\ report'.tree = report.tree
        /\ report'.index \in {report.index, report.tree}
    BY <1>5, <1>a DEF StageAll, history, Reports
  <2> QED BY <2>1 DEF PassedInv
<1>6. ASSUME NEW u \in Runs, Rollback(u)
      PROVE  PassedInv'
  <2>1. UNCHANGED <<passed, commits>> /\ ex'.verify = ex.verify
    BY <1>6, <1>a DEF Rollback, Local
  <2>2. \/ report' = report
        \/ report'.tree = commits[ex.snapshot].report /\ report'.index = commits[ex.snapshot].report
    BY <1>6 DEF Rollback
  <2> QED BY <1>a, <2>1, <2>2 DEF PassedInv
<1>7. ASSUME NEW u \in Runs, InitializeGit(u) \/ LeaveLoop(u) \/ Ask(u) \/ WriteChange(u)
                            \/ SkipUnchanged(u) \/ RunTests(u) \/ DecideWithoutGit(u)
      PROVE  PassedInv'
  <2>1. UNCHANGED <<passed, commits, report>>
    BY <1>7 DEF InitializeGit, LeaveLoop, Ask, WriteChange, SkipUnchanged, RunTests, DecideWithoutGit,
       repo, history
  <2>2. ex'.verify \in {ex.verify, "none"}
    BY <1>7, <1>a, ZenonT(60) DEF InitializeGit, LeaveLoop, Ask, WriteChange, SkipUnchanged, RunTests,
       DecideWithoutGit, Local
  <2> QED BY <2>1, <2>2, SMTT(60) DEF PassedInv
<1>8. ASSUME NEW u \in Runs, AskRaises(u) \/ RejectChange(u) \/ Conclude(u)
      PROVE  PassedInv'
  <2>1. UNCHANGED <<passed, commits, report>> /\ ex' = Idle
    BY <1>8 DEF AskRaises, RejectChange, Conclude, Raise, repo, history
  <2> QED BY <2>1 DEF PassedInv, Idle
<1> QED BY <1>1, <1>2, <1>3, <1>4, <1>5, <1>6, <1>7, <1>8, StepKinds DEF Holding

LEMMA StaleKept ==
  ASSUME TypesOK, PassedInv, StaleReportNeedsAPass, [Next]_vars
  PROVE  StaleReportNeedsAPass'
<1>1. passed => passed'
  <2>1. ASSUME NEW u \in Runs, Holding(u)
        PROVE  passed => passed'
    BY <2>1 DEF Holding, InitializeGit, LeaveLoop, Ask, AskRaises, WriteChange, SkipUnchanged,
       RejectChange, RunTests, RunVerify, DecideWithoutGit, StageAll, Commit, Rollback, Conclude, history
  <2> QED BY <2>1, QuietSteps, AcquireStep, StepKinds
<1>2. ASSUME NEW k \in DOMAIN commits', commits'[k].verify = "stale"
      PROVE  passed'
  <2>1. ASSUME NEW u \in Runs, Commit(u), ~(UNCHANGED commits)
        PROVE  passed
    <3>1. k \in DOMAIN commits \/ k = Len(commits) + 1
      BY <2>1, CommitStep
    <3>2. CASE k \in DOMAIN commits
      BY <1>2, <2>1, <3>2, CommitStep DEF StaleReportNeedsAPass
    <3>3. CASE k = Len(commits) + 1
      BY <1>2, <2>1, <3>3, CommitStep DEF PassedInv
    <3> QED BY <3>1, <3>2, <3>3
  <2> QED BY <1>1, <1>2, <2>1, CommitsStay DEF StaleReportNeedsAPass
<1> QED BY <1>2 DEF StaleReportNeedsAPass

-----------------------------------------------------------------------------
(* What is overwritten is backed up                                        *)

LEMMA TailOf ==
  ASSUME NEW S, NEW s \in Seq(S), s # <<>>
  PROVE  /\ Len(Tail(s)) = Len(s) - 1 /\ Len(s) \in Nat \ {0}
         /\ DOMAIN s = 1..Len(s) /\ DOMAIN Tail(s) = 1..(Len(s) - 1)
         /\ \A k \in DOMAIN Tail(s) : Tail(s)[k] = s[k + 1]
         /\ Head(s) = s[1] /\ Head(s) \in S
  OBVIOUS

\* The item at hand is not named again further on, if it is named once.
LEMMA HeadIsOnce ==
  ASSUME TypesOK, NEW r \in Runs, pc[r] = "applying", BackupInv, ex.todo # <<>>,
         NEW f \in Files, NamedOnce(f), Head(ex.todo) = f
  PROVE  \A k \in DOMAIN Tail(ex.todo) : Tail(ex.todo)[k] # f
<1>a. ex.todo \in Seq(Files \cup {Malformed}) /\ ex.answer \in Seq(Files \cup {Malformed})
  BY TypesAre DEF ExOK, Local
<1> DEFINE n == Len(ex.answer)
           m == Len(ex.todo)
<1>b. /\ DOMAIN Tail(ex.todo) = 1..(m - 1) /\ m \in Nat \ {0} /\ n \in Nat /\ DOMAIN ex.answer = 1..n
      /\ \A k \in 1..(m - 1) : Tail(ex.todo)[k] = ex.todo[k + 1]
      /\ DOMAIN ex.todo = 1..m /\ ex.todo[1] = f
  BY <1>a, TailOf
<1>c. m =< n /\ \A k \in 1..m : ex.todo[k] = ex.answer[n - m + k]
  BY <1>b DEF BackupInv
<1> SUFFICES ASSUME NEW k \in 1..(m - 1), ex.todo[k + 1] = f
             PROVE  FALSE
  BY <1>b
<1> HIDE DEF n, m
<1>1. n - m + 1 \in 1..n /\ n - m + (k + 1) \in 1..n /\ n - m + 1 # n - m + (k + 1)
      /\ 1 \in 1..m /\ k + 1 \in 1..m
  BY <1>b, <1>c
<1>2. ex.answer[n - m + 1] = f /\ ex.answer[n - m + (k + 1)] = f
  BY <1>b, <1>c, <1>1
<1> QED BY <1>b, <1>1, <1>2 DEF NamedOnce

\* One item is written or skipped: what is left is still the rest of the answer.
LEMMA RestOfAnswer ==
  ASSUME TypesOK, NEW r \in Runs, pc[r] = "applying", BackupInv, ex.todo # <<>>,
         ex'.todo = Tail(ex.todo), ex'.answer = ex.answer
  PROVE  /\ Len(ex'.todo) =< Len(ex'.answer)
         /\ \A k \in DOMAIN ex'.todo : ex'.todo[k] = ex'.answer[Len(ex'.answer) - Len(ex'.todo) + k]
         /\ \A f : (\E k \in DOMAIN ex'.todo : ex'.todo[k] = f) => \E k \in DOMAIN ex.todo : ex.todo[k] = f
<1>a. ex.todo \in Seq(Files \cup {Malformed}) /\ ex.answer \in Seq(Files \cup {Malformed})
  BY TypesAre DEF ExOK, Local
<1> DEFINE n == Len(ex.answer)
           m == Len(ex.todo)
<1>b. /\ DOMAIN ex'.todo = 1..(m - 1) /\ Len(ex'.todo) = m - 1 /\ m \in Nat \ {0} /\ n \in Nat
      /\ \A k \in 1..(m - 1) : ex'.todo[k] = ex.todo[k + 1]
      /\ DOMAIN ex.todo = 1..m
  BY <1>a, TailOf
<1>c. m =< n /\ \A k \in 1..m : ex.todo[k] = ex.answer[n - m + k]
  BY <1>b DEF BackupInv
<1>d. Len(ex'.answer) = n
  OBVIOUS
<1> HIDE DEF n, m
<1>1. \A k \in 1..(m - 1) : k + 1 \in 1..m /\ n - (m - 1) + k = n - m + (k + 1)
  BY <1>b
<1>2. \A k \in 1..(m - 1) : ex'.todo[k] = ex.answer[n - (m - 1) + k]
  BY <1>b, <1>c, <1>1
<1>3. m - 1 =< n
  BY <1>b, <1>c
<1>4. \A k \in DOMAIN ex'.todo :
        /\ ex'.todo[k] = ex'.answer[Len(ex'.answer) - Len(ex'.todo) + k]
        /\ k + 1 \in DOMAIN ex.todo /\ ex.todo[k + 1] = ex'.todo[k]
  BY <1>b, <1>d, <1>1, <1>2
<1> QED BY <1>b, <1>d, <1>3, <1>4

LEMMA BackupKept ==
  ASSUME TypesOK, LoopInv, BackupInv, [Next]_vars
  PROVE  BackupInv'
<1> DEFINE Item(f, once, todo, before, backup, now, w) ==
      once =>
        /\ before[f] # w
        /\ (\E k \in DOMAIN todo : todo[k] = f) => now[f] \in {before[f], User}
        /\ now[f] = w /\ before[f] # Absent => backup[f] \in {before[f], User}
<1> SUFFICES ASSUME NEW r \in Runs, pc'[r] = "applying"
             PROVE  /\ Len(ex'.todo) =< Len(ex'.answer)
                    /\ \A k \in DOMAIN ex'.todo :
                         ex'.todo[k] = ex'.answer[Len(ex'.answer) - Len(ex'.todo) + k]
                    /\ \A f \in Files : Item(f, NamedOnce(f)', ex'.todo, ex'.before, ex'.backup, tree',
                                             Written(r, ex'.iteration))
  BY DEF BackupInv, NamedOnce, Written
<1>a. DOMAIN pc = Runs /\ DOMAIN tree = Files /\ ex \in Local
  BY Domains, TypesAre DEF ExOK
<1>b. ex'.answer = ex.answer => \A f \in Files : NamedOnce(f)' <=> NamedOnce(f)
  BY DEF NamedOnce
<1>c. pc[r] = "applying" => \A f \in Files :
        Item(f, NamedOnce(f), ex.todo, ex.before, ex.backup, tree, Written(r, ex.iteration))
  BY DEF BackupInv
<1>1. CASE Quiet
  <2>1. /\ pc[r] = "applying" /\ ex' = ex
        /\ \A f \in Files : tree'[f] = tree[f] \/ tree'[f] = User
    BY <1>1, QuietSteps DEF Executing
  <2>2. User # Written(r, ex.iteration)
    BY Authors
  <2>3. ASSUME NEW f \in Files
        PROVE  Item(f, NamedOnce(f)', ex'.todo, ex'.before, ex'.backup, tree', Written(r, ex'.iteration))
    BY <1>b, <1>c, <2>1, <2>2
  <2> QED BY <2>1, <2>3 DEF BackupInv
<1>2. ASSUME NEW u \in Runs, Acquire(u)
      PROVE  FALSE
  BY <1>2, AcquireStep, SMTT(60) DEF Executing
<1>3. ASSUME NEW u \in Runs, Holding(u)
      PROVE  Ask(r) \/ WriteChange(r) \/ SkipUnchanged(r)
  <2>1. u = r
    BY <1>3, HolderSteps, HolderMoves DEF Executing
  <2> QED BY <1>3, <1>a, <2>1 DEF Holding, InitializeGit, LeaveLoop, AskRaises, RejectChange,
          RunTests, RunVerify, DecideWithoutGit, StageAll, Commit, Rollback, Conclude, Raise, Goto
<1>4. CASE Ask(r)
  <2>1. PICK p \in Proposals :
       ex' = [ex EXCEPT !.iteration = @ + 1, !.answer = p, !.todo = p, !.before = tree,
                        !.test = "none", !.verify = "none"]
    BY <1>4 DEF Ask
  <2>2. ex'.iteration = ex.iteration + 1 /\ ex'.answer = p /\ ex'.todo = p /\ ex'.before = tree
    BY <1>a, <2>1 DEF Local
  <2>3. tree' = tree /\ pc[r] = "checking" /\ ex.iteration \in Nat /\ p \in Seq(Files \cup {Malformed})
    BY <1>4, <1>a, LocalTypes, ConstantsAssumption DEF Ask, repo, Local
  <2>4. \A f \in Files : tree[f] # Written(r, ex.iteration + 1)
    <3>1. \A f \in Files : tree[f].by = r => tree[f].iteration =< ex.iteration
      BY <2>3 DEF LoopInv, Executing
    <3> QED BY <2>3, <3>1, Authors
  <2> QED BY <2>2, <2>3, <2>4
<1>5. CASE WriteChange(r)
  <2> DEFINE g == Head(ex.todo)
  <2>1. /\ pc[r] = "applying" /\ ex.todo # <<>> /\ g \in Files
    BY <1>5, <1>a, TailOf DEF WriteChange, Local
  <2>2. /\ ex'.todo = Tail(ex.todo) /\ ex'.answer = ex.answer /\ ex'.before = ex.before
        /\ ex'.iteration = ex.iteration
        /\ \A f \in Files : ex'.backup[f] = IF f = g THEN Aside(r, g) ELSE ex.backup[f]
    BY <1>5, <1>a DEF WriteChange, Local, Tree
  <2>3. \A f \in Files : tree'[f] = IF f = g THEN Written(r, ex.iteration) ELSE tree[f]
    BY <1>5, <1>a DEF WriteChange
  <2>4. g = ex.todo[1] /\ 1 \in DOMAIN ex.todo
    BY <1>a, <2>1, TailOf DEF Local
  <2> HIDE DEF g
  <2>5. ASSUME NEW f \in Files
        PROVE  Item(f, NamedOnce(f)', ex'.todo, ex'.before, ex'.backup, tree', Written(r, ex'.iteration))
    <3>1. CASE f # g
      BY <1>b, <1>c, <2>1, <2>2, <2>3, <3>1, RestOfAnswer
    <3>2. CASE f = g /\ NamedOnce(f)
      <4>1. ~(\E k \in DOMAIN ex'.todo : ex'.todo[k] = f)
        BY <2>1, <2>2, <3>2, HeadIsOnce DEF g
      <4>2. ex.before[f] # Written(r, ex.iteration) /\ tree[f] \in {ex.before[f], User}
        BY <1>c, <2>1, <2>4, <3>2
      <4>3. ex.before[f] # Absent => ex'.backup[f] \in {ex.before[f], User}
        BY <2>2, <3>2, <4>2, Authors DEF Aside
      <4> QED BY <2>2, <4>1, <4>2, <4>3
    <3>3. CASE ~NamedOnce(f)
      BY <1>b, <2>2, <3>3
    <3> QED BY <3>1, <3>2, <3>3
  <2> QED BY <2>1, <2>2, <2>5, RestOfAnswer
<1>6. CASE SkipUnchanged(r)
  <2> DEFINE g == Head(ex.todo)
  <2>1. /\ pc[r] = "applying" /\ ex.todo # <<>> /\ tree' = tree
    BY <1>6 DEF SkipUnchanged, repo
  <2>2. /\ ex'.todo = Tail(ex.todo) /\ ex'.answer = ex.answer /\ ex'.before = ex.before
        /\ ex'.iteration = ex.iteration /\ ex'.backup = ex.backup
    BY <1>6, <1>a DEF SkipUnchanged, Local
  <2>3. ASSUME NEW f \in Files
        PROVE  Item(f, NamedOnce(f)', ex'.todo, ex'.before, ex'.backup, tree', Written(r, ex'.iteration))
    BY <1>b, <1>c, <2>1, <2>2, RestOfAnswer
  <2> QED BY <2>1, <2>2, <2>3, RestOfAnswer
<1> QED BY <1>1, <1>2, <1>3, <1>4, <1>5, <1>6, StepKinds

-----------------------------------------------------------------------------
(* The theorems                                                            *)

\* A run's status says success only if the run did.
LEMMA OutcomesAreTrue == OutcomeInv => SuccessIsCommitted
  BY DEF OutcomeInv, SuccessIsCommitted

LEMMA InitHolds == Init => IInv
<1> SUFFICES ASSUME Init
             PROVE  IInv
  OBVIOUS
<1>1. commits \in Seq(Record) /\ DOMAIN commits = {1}
      /\ commits[1].tree = First /\ commits[1].tested = First /\ commits[1].by = "base"
      /\ commits[1].report = "FAIL" /\ commits[1].verify = "passed"
  <2> DEFINE c == [tree |-> First, report |-> "FAIL", parent |-> 0, by |-> "base",
                   tested |-> First, verify |-> "passed"]
  <2>1. c \in Record
    BY Contents DEF Record, Outcome
  <2>2. /\ c.tree = First /\ c.tested = First /\ c.by = "base" /\ c.report = "FAIL"
        /\ c.verify = "passed"
    OBVIOUS
  <2>3. commits = <<c>>
    BY DEF Init
  <2> HIDE DEF c
  <2>4. <<c>> \in Seq(Record) /\ DOMAIN <<c>> = {1} /\ <<c>>[1] = c
    BY <2>1
  <2> QED BY <2>2, <2>3, <2>4
<1>2. ex = Idle /\ Idle.snapshot = 1 /\ Idle \in Local
  BY LocalTypes DEF Init
<1>3. First \in Tree /\ Nothing \in Tree
  BY Contents
<1>4. TypesOK
  <2>1. CallsOK
    BY DEF Init, CallsOK, PCs
  <2>2. LockOK
    BY ConstantsAssumption DEF Init, LockOK, Executing
  <2>3. RepoOK
    BY <1>3 DEF Init, RepoOK, Reports
  <2>4. CommitsOK
    BY <1>1, <1>2 DEF Init, CommitsOK
  <2>5. CountsOK
    <3>1. saves = 0 /\ passed = FALSE /\ stuck = {}
      BY DEF Init
    <3>2. MaxSaves \in Nat
      BY ConstantsAssumption
    <3>3. saves \in 0..MaxSaves
      BY <3>1, <3>2
    <3>4. passed \in BOOLEAN /\ stuck \subseteq Runs
      BY <3>1, Zenon
    <3> QED BY <3>3, <3>4, Zenon DEF CountsOK
  <2>6. ExOK
    BY <1>2 DEF ExOK
  <2> QED BY <2>1, <2>2, <2>3, <2>4, <2>5, <2>6, TypesAre
<1>5. \A r \in Runs, f \in Files : First[f].by # r
  BY Authors DEF First
<1>6. \A f \in Tracked : First[f] # Absent
  BY DEF First, Base, Absent, Files
<1>7. \A r \in Runs : pc[r] = "idle" /\ "base" # r
  BY ConstantsAssumption DEF Init
<1>8. UnstartedInv /\ UncommittedInv
  BY <1>1, <1>5, <1>7 DEF Init, UnstartedInv, UncommittedInv
<1>9. LoopInv /\ UnstagedInv /\ FailedRunIsUndone
  BY <1>7 DEF LoopInv, UnstagedInv, FailedRunIsUndone, InLoop, Executing
<1>10. LeftoversInv /\ ForeignEditsInCommits /\ TrackedInv
  BY <1>1, <1>5, <1>6 DEF Init, LeftoversInv, ForeignEditsInCommits, TrackedInv, Files
<1>11. OutcomeInv
  BY DEF Init, OutcomeInv
<1>12. TestedInv /\ BackupInv
  BY <1>7 DEF TestedInv, BackupInv
<1>13. PassedInv
  BY <1>1, <1>2 DEF Init, PassedInv, Idle
<1>14. CommitsAreTested /\ StaleReportNeedsAPass
  BY <1>1 DEF CommitsAreTested, StaleReportNeedsAPass
<1> QED BY <1>4, <1>8, <1>9, <1>10, <1>11, <1>12, <1>13, <1>14, OutcomesAreTrue
        DEF IInv, TypesOK, CommitsAreEarned, RunsCleanUp

LEMMA Inductive == IInv /\ [Next]_vars => IInv'
<1> SUFFICES ASSUME IInv, [Next]_vars
             PROVE  IInv'
  OBVIOUS
<1>1. /\ TypesOK /\ UnstartedInv /\ UncommittedInv /\ LoopInv /\ UnstagedInv /\ LeftoversInv
      /\ TrackedInv /\ OutcomeInv /\ TestedInv /\ PassedInv /\ BackupInv /\ CommitsAreTested
      /\ StaleReportNeedsAPass /\ ForeignEditsInCommits /\ FailedRunIsUndone
  BY DEF IInv, TypesOK, CommitsAreEarned, RunsCleanUp
<1>2. TypesOK'
  BY <1>1, TypesKept
<1>3. UnstartedInv' /\ UncommittedInv' /\ LoopInv' /\ UnstagedInv' /\ TrackedInv' /\ FailedRunIsUndone'
  BY <1>1, UnstartedKept, UncommittedKept, LoopKept, UnstagedKept, TrackedKept, UndoneKept
<1>4. LeftoversInv' /\ ForeignEditsInCommits' /\ OutcomeInv'
  BY <1>1, LeftoversKept, ForeignKept, OutcomeKept
<1>5. TestedInv' /\ CommitsAreTested' /\ PassedInv' /\ StaleReportNeedsAPass' /\ BackupInv'
  BY <1>1, TestedKept, CommitsTestedKept, PassedKept, StaleKept, BackupKept
<1>6. SuccessIsCommitted'
  BY <1>4 DEF OutcomeInv, SuccessIsCommitted, CommittedBy
<1> QED BY <1>2, <1>3, <1>4, <1>5, <1>6 DEF IInv, TypesOK, CommitsAreEarned, RunsCleanUp

\* Whatever runs, stops, saves, git failures and dead verifiers come in whatever order, the
\* service's inductive invariant holds.
THEOREM Invariant == Spec => []IInv
  BY InitHolds, Inductive, PTL DEF Spec

\* What _execute commits was tested as it is committed, verified by a verifier that passed
\* at some time, and is the run's own but for what the run says of itself.
THEOREM Earned == Spec => []CommitsAreEarned
<1>1. IInv => CommitsAreEarned
  BY DEF IInv
<1> QED BY Invariant, <1>1, PTL

\* A failed run's edits are undone where git can, what is left of them is explained, and a
\* session that says success has its result committed (_execute, _finalize_session).
THEOREM CleanedUp == Spec => []RunsCleanUp
<1>1. IInv => RunsCleanUp
  BY DEF IInv
<1> QED BY Invariant, <1>1, PTL

\* _apply_changes keeps a copy of whatever an iteration overwrites, for every answer that
\* names a file once.
THEOREM BackedUp == Spec => []OverwritesAreBackedUp
<1>1. IInv => OverwritesAreBackedUp
  <2> SUFFICES ASSUME IInv, NEW r \in Runs, pc[r] = "applying", NEW f \in Files,
                      tree[f] = Written(r, ex.iteration), ex.before[f] # Absent,
                      Cardinality({k \in DOMAIN ex.answer : ex.answer[k] = f}) = 1
               PROVE  ex.backup[f] \in {ex.before[f], User}
    BY DEF OverwritesAreBackedUp
  <2> DEFINE named == {k \in DOMAIN ex.answer : ex.answer[k] = f}
  <2>1. ex.answer \in Seq(Files \cup {Malformed})
    BY DEF IInv, LocalTypeOK, Local
  <2>2. IsFiniteSet(named)
    <3>1. named \subseteq 1..Len(ex.answer) /\ Len(ex.answer) \in Nat
      BY <2>1
    <3> QED BY <3>1, FS_Interval, FS_Subset
  <2>3. \E k : named = {k}
    <3> HIDE DEF named
    <3> QED BY <2>2, FS_Singleton DEF named
  <2>4. NamedOnce(f)
    BY <2>3 DEF NamedOnce
  <2> QED BY <2>4 DEF IInv, BackupInv
<1> QED BY Invariant, <1>1, PTL

\* No rollback, its own run's or another's, leaves an automatic commit behind: HEAD stays or
\* moves to a commit made on top of it (git commit, git reset --hard).
THEOREM HeadOnlyForward == Spec => HeadMovesForward
<1>1. IInv /\ [Next]_vars => [head' # head => commits'[head'].parent = head]_vars
  <2> SUFFICES ASSUME IInv, [Next]_vars, head' # head
               PROVE  commits'[head'].parent = head
    OBVIOUS
  <2>1. TypesOK /\ LoopInv
    BY DEF IInv, TypesOK, CommitsAreEarned
  <2>2. ASSUME NEW r \in Runs, Holding(r)
        PROVE  Commit(r)
    BY <2>1, <2>2, HolderHead
  <2>3. ASSUME NEW r \in Runs, Commit(r)
        PROVE  commits'[head'].parent = head
    BY <2>1, <2>3, CommitStep
  <2> QED BY <2>1, <2>2, <2>3, StepKinds, QuietSteps, AcquireStep
<1> QED BY Invariant, <1>1, PTL DEF Spec, HeadMovesForward

=============================================================================
