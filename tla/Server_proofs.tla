--------------------------- MODULE Server_proofs ---------------------------
(***************************************************************************)
(* What the server promises of workspaces, verifications, chats and        *)
(* debates, for every number of threads, requests and restarts.            *)
(***************************************************************************)
EXTENDS Server, NaturalsInduction, FiniteSetTheorems, SequenceTheorems, TLAPS
-----------------------------------------------------------------------------
(* Sequences, and the first and the last of a set of numbers               *)

LEMMA ToSetIs ==
  ASSUME NEW S, NEW s \in Seq(S)
  PROVE  /\ DOMAIN s = 1..Len(s) /\ Len(s) \in Nat
         /\ \A x : x \in ToSet(s) <=> \E i \in 1..Len(s) : s[i] = x
BY DEF ToSet

LEMMA ToSetOfAppend ==
  ASSUME NEW S, NEW s \in Seq(S), NEW x \in S
  PROVE  /\ Append(s, x) \in Seq(S)
         /\ ToSet(Append(s, x)) = ToSet(s) \cup {x}
<1> DEFINE a == Append(s, x)
<1>1. /\ a \in Seq(S) /\ Len(a) = Len(s) + 1 /\ Len(s) \in Nat
      /\ \A i \in 1..Len(s) : a[i] = s[i]
      /\ a[Len(s) + 1] = x
  OBVIOUS
<1> HIDE DEF a
<1>2. \A y : y \in ToSet(a) <=> \E i \in 1..Len(a) : a[i] = y
  BY <1>1, ToSetIs
<1>3. \A y : y \in ToSet(s) <=> \E i \in 1..Len(s) : s[i] = y
  BY ToSetIs
<1>4. ASSUME NEW y
      PROVE  y \in ToSet(a) <=> y \in ToSet(s) \/ y = x
  <2>1. ASSUME NEW i \in 1..Len(a)
        PROVE  i \in 1..Len(s) \/ i = Len(s) + 1
    BY <1>1
  <2>2. \A i \in 1..Len(s) : i \in 1..Len(a)
    BY <1>1
  <2>3. Len(s) + 1 \in 1..Len(a)
    BY <1>1
  <2> QED BY <1>1, <1>2, <1>3, <2>1, <2>2, <2>3
<1>5. ToSet(a) = ToSet(s) \cup {x}
  BY <1>4
<1> QED BY <1>1, <1>5 DEF a

LEMMA First ==
  ASSUME NEW S \in SUBSET Nat, S # {}
  PROVE  Min(S) \in S /\ \A x \in S : Min(S) <= x
<1>1. \E x \in S : \A y \in S : x <= y
  <2>1. PICK x \in S : \A y \in Nat : <<y, x>> \in OpToRel(<, Nat) => y \notin S
    BY NatLessThanWellFounded, WFMin
  <2>2. \A y \in S : ~(y < x)
    BY <2>1 DEF OpToRel
  <2> QED BY <2>2
<1> QED BY <1>1 DEF Min

LEMMA Latest ==
  ASSUME NEW n \in Nat, NEW S \in SUBSET (1..n), S # {}
  PROVE  Max(S) \in S /\ \A x \in S : x <= Max(S)
<1> DEFINE T == {n - x : x \in S}
<1>1. T \in SUBSET Nat /\ T # {}
  <2>1. \A x \in S : x \in 1..n /\ n - x \in Nat
    OBVIOUS
  <2> QED BY <2>1
<1>2. PICK m \in T : \A y \in T : m <= y
  <2> HIDE DEF T
  <2> QED BY <1>1, First
<1>3. PICK x \in S : m = n - x
  BY <1>2
<1>4. ASSUME NEW y \in S
      PROVE  y <= x
  <2>0. y \in 1..n /\ x \in 1..n /\ n - y \in T
    OBVIOUS
  <2>1. y \in Nat /\ x \in Nat /\ n - y \in T
    BY <2>0
  <2>2. n - x <= n - y
    BY <1>2, <1>3, <2>1
  <2> QED BY <2>1, <2>2
<1> QED BY <1>4 DEF Max
-----------------------------------------------------------------------------
(* Threads                                                                 *)

\* Only t moves, and the server goes on.
Only(t) ==
  /\ DOMAIN thread' = Threads /\ \A u \in Threads \ {t} : thread'[u] = thread[u]
  /\ UNCHANGED <<crashes, traffic>>

LEMMA Counted ==
  ASSUME ThreadsInv
  PROVE  /\ began \in Nat /\ traffic.requests \in 0..MaxRequests /\ MaxRequests \in Nat /\ began <= MaxRequests
         /\ \A n \in 1..began : n \in 1..MaxRequests
<1>1. traffic.requests \in 0..MaxRequests /\ MaxRequests \in Nat
  BY RequestsAssumption DEF ThreadsInv
<1>2. began \in 0..traffic.requests
  BY DEF ThreadsInv
<1> QED BY <1>1, <1>2

LEMMA GotoIs ==
  ASSUME ThreadsInv, NEW t \in Threads, NEW p, Goto(t, p)
  PROVE  /\ Only(t) /\ began' = began
         /\ DOMAIN thread'[t] = DOMAIN thread[t] /\ thread'[t].pc = p
         /\ \A x \in DOMAIN thread[t] : x # "pc" => thread'[t][x] = thread[t][x]
<1>1. DOMAIN thread = Threads /\ "pc" \in DOMAIN thread[t]
  BY DEF ThreadsInv
<1> QED BY <1>1 DEF Goto, Only

LEMMA BecomeIs ==
  ASSUME ThreadsInv, NEW t \in Threads, NEW r, Become(t, r)
  PROVE  Only(t) /\ began' = began /\ thread'[t] = r
<1>1. DOMAIN thread = Threads
  BY DEF ThreadsInv
<1> QED BY <1>1 DEF Become, Only

LEMMA BeginIs ==
  ASSUME ThreadsInv, NEW t \in Threads, NEW r, Begin(t, r)
  PROVE  /\ Only(t) /\ thread'[t] = r /\ thread[t].pc \in {"idle", "replied"}
         /\ began' = began + 1 /\ began' \in 0..traffic.requests /\ began' \in 1..MaxRequests
<1>1. DOMAIN thread = Threads /\ began \in 0..traffic.requests /\ traffic \in Traffics
  BY DEF ThreadsInv
<1>2. traffic.requests \in 0..MaxRequests /\ MaxRequests \in Nat
  BY <1>1, RequestsAssumption
<1>3. began' = began + 1 /\ began < traffic.requests
  BY DEF Begin
<1>4. began' \in 0..traffic.requests /\ began' \in 1..MaxRequests
  BY <1>1, <1>2, <1>3
<1> QED BY <1>1, <1>3, <1>4 DEF Begin, Only, Busy

LEMMA StepKinds ==
  ASSUME [Next]_serverVars
  PROVE  \/ UNCHANGED serverVars \/ FolderRemoved \/ ServerRestart
         \/ \E t \in Threads : ServeWorkspaces(t) \/ ServeVerify(t) \/ ServeChat(t) \/ ServeBridge(t)
BY DEF Next

\* The routes of workspaces.
LEMMA WorkspacesMove ==
  ASSUME ThreadsInv, NEW t \in Threads, ServeWorkspaces(t)
  PROVE  /\ Only(t) /\ began' \in {began, began + 1} /\ began' \in 0..traffic.requests
         /\ {"pc", "op"} \subseteq DOMAIN thread'[t]
         /\ thread'[t].pc \in WorkspacePC \cup {"replied"} /\ thread'[t].op \in WorkspaceOps
         /\ thread[t].pc \in WorkspacePC \cup {"idle", "replied"}
         /\ UNCHANGED <<verifyVars, chatVars, bridgeVars>>
<1> DEFINE Goal ==
      /\ Only(t) /\ began' \in {began, began + 1} /\ began' \in 0..traffic.requests
      /\ {"pc", "op"} \subseteq DOMAIN thread'[t]
      /\ thread'[t].pc \in WorkspacePC \cup {"replied"} /\ thread'[t].op \in WorkspaceOps
      /\ thread[t].pc \in WorkspacePC \cup {"idle", "replied"}
<1>a. began \in 0..traffic.requests
  BY DEF ThreadsInv
<1>1. ASSUME NEW r, Begin(t, r), {"pc", "op"} \subseteq DOMAIN r,
             r.pc \in WorkspacePC \cup {"replied"}, r.op \in WorkspaceOps
      PROVE  Goal
  BY <1>1, BeginIs
<1>2. ASSUME NEW p \in WorkspacePC, Goto(t, p), thread[t].pc \in WorkspacePC
      PROVE  Goal
  <2>1. "op" \in DOMAIN thread[t] /\ "pc" \in DOMAIN thread[t] /\ thread[t].op \in WorkspaceOps
    BY <1>2 DEF ThreadsInv
  <2> QED BY <1>a, <1>2, <2>1, GotoIs
<1>3. ASSUME NEW r, Become(t, r), {"pc", "op"} \subseteq DOMAIN r, thread[t].pc \in WorkspacePC,
             r.pc \in WorkspacePC \cup {"replied"}, r.op = thread[t].op
      PROVE  Goal
  <2>1. thread[t].op \in WorkspaceOps
    BY <1>3 DEF ThreadsInv
  <2> QED BY <1>a, <1>3, <2>1, BecomeIs
<1>4. ASSUME NEW s, Reply(t, s), thread[t].pc \in WorkspacePC
      PROVE  Goal
  <2> DEFINE r == [pc |-> "replied", op |-> thread[t].op, status |-> s]
  <2>1. Become(t, r) /\ {"pc", "op"} \subseteq DOMAIN r /\ r.pc = "replied" /\ r.op = thread[t].op
    BY <1>4 DEF Reply
  <2> HIDE DEF r
  <2> QED BY <1>3, <1>4, <2>1
<1>5. ASSUME NEW s, NEW id, Answer(t, s, id), thread[t].pc \in WorkspacePC
      PROVE  Goal
  <2> DEFINE r == [pc |-> "replied", op |-> thread[t].op, status |-> s, root |-> thread[t].root,
                   asked |-> thread[t].arg, named |-> id]
  <2>1. Become(t, r) /\ {"pc", "op"} \subseteq DOMAIN r /\ r.pc = "replied" /\ r.op = thread[t].op
    BY <1>5 DEF Answer
  <2> HIDE DEF r
  <2> QED BY <1>3, <1>5, <2>1
<1> HIDE DEF Goal
<1>6. ASSUME Request(t)
      PROVE  Goal
  <2>1. PICK p, o, a : /\ p \in {"change", "missing", "current"} /\ o \in WorkspaceOps
                           /\ Begin(t, [pc |-> p, op |-> o, arg |-> a])
    BY <1>6 DEF Request, RequestOpen, RequestSelect, RequestClose, RequestList, WorkspaceOps
  <2> DEFINE r == [pc |-> p, op |-> o, arg |-> a]
  <2>2. Begin(t, r) /\ {"pc", "op"} \subseteq DOMAIN r /\ r.pc \in WorkspacePC \cup {"replied"} /\ r.op \in WorkspaceOps
    BY <2>1 DEF WorkspacePC
  <2> HIDE DEF r
  <2> QED BY <1>1, <2>2
<1>7. ASSUME RequestFile(t)
      PROVE  Goal
  <2>1. PICK o \in {"save", "tree"} : \E a : Begin(t, [pc |-> "resolve", op |-> o, arg |-> a, root |-> "none"])
    BY <1>7 DEF RequestFile
  <2>0. PICK a : Begin(t, [pc |-> "resolve", op |-> o, arg |-> a, root |-> "none"])
    BY <2>1
  <2> DEFINE r == [pc |-> "resolve", op |-> o, arg |-> a, root |-> "none"]
  <2>2. Begin(t, r) /\ {"pc", "op"} \subseteq DOMAIN r /\ r.pc \in WorkspacePC \cup {"replied"} /\ r.op \in WorkspaceOps
    BY <2>0 DEF WorkspacePC, WorkspaceOps
  <2> HIDE DEF r
  <2> QED BY <1>1, <2>2
<1>8. ASSUME OpenMissing(t) \/ DumpFails(t) \/ SelectUnknown(t) \/ SummaryMap(t)
      PROVE  Goal
  <2>1. thread[t].pc \in WorkspacePC /\ \E s : Reply(t, s)
    BY <1>8 DEF OpenMissing, DumpFails, SelectUnknown, SummaryMap, At, WorkspacePC
  <2> QED BY <1>4, <2>1
<1>9. ASSUME Change(t) \/ Dump(t) \/ CloseRefused(t) \/ SummaryList(t) \/ WriteFile(t)
      PROVE  Goal
  <2>1. thread[t].pc \in WorkspacePC /\ \E p \in WorkspacePC : Goto(t, p)
    BY <1>9 DEF Change, Dump, CloseRefused, SummaryList, WriteFile, At, WorkspacePC
  <2> QED BY <1>2, <2>1
<1>10. ASSUME SummaryCurrent(t)
      PROVE  Goal
  <2> DEFINE r == [pc |-> "listing", op |-> thread[t].op, arg |-> Current(workspaces).id]
  <2>1. Become(t, r) /\ thread[t].pc \in WorkspacePC
    BY <1>10 DEF SummaryCurrent, At, WorkspacePC
  <2>2. {"pc", "op"} \subseteq DOMAIN r /\ r.pc \in WorkspacePC /\ r.op = thread[t].op
    BY DEF WorkspacePC
  <2> HIDE DEF r
  <2> QED BY <1>3, <2>1, <2>2
<1>11. ASSUME Resolve(t)
      PROVE  Goal
  <2>1. thread[t].pc \in WorkspacePC
    BY <1>11 DEF Resolve, At, WorkspacePC
  <2>2. CASE Reply(t, 500)
    BY <1>4, <2>1, <2>2
  <2>3. CASE \E p \in {"relative", "write"} : \E q : Become(t, [thread[t] EXCEPT !.pc = p, !.root = q])
    <3>0. PICK p \in {"relative", "write"} : \E q : Become(t, [thread[t] EXCEPT !.pc = p, !.root = q])
      BY <2>3
    <3>1. PICK q : Become(t, [thread[t] EXCEPT !.pc = p, !.root = q])
      BY <3>0
    <3> DEFINE r == [thread[t] EXCEPT !.pc = p, !.root = q]
    <3>2. {"pc", "op"} \subseteq DOMAIN thread[t]
      BY <2>1 DEF ThreadsInv
    <3>3. {"pc", "op"} \subseteq DOMAIN r /\ r.pc \in WorkspacePC /\ r.op = thread[t].op
      BY <3>2 DEF WorkspacePC
    <3>4. Become(t, r)
      BY <3>1
    <3> HIDE DEF r
    <3> QED BY <1>3, <2>1, <3>3, <3>4
  <2> QED BY <1>11, <2>2, <2>3 DEF Resolve
<1>12. ASSUME Relative(t)
      PROVE  Goal
  <2>1. thread[t].pc \in WorkspacePC /\ "named" \in WorkspacePC
    BY <1>12 DEF Relative, At, WorkspacePC
  <2>2. (\E s, id : Answer(t, s, id)) \/ Goto(t, "named")
    BY <1>12 DEF Relative
  <2> QED BY <1>2, <1>5, <2>1, <2>2
<1>13. ASSUME Named(t)
      PROVE  Goal
  <2>1. thread[t].pc \in WorkspacePC /\ \E id : Answer(t, 200, id)
    BY <1>13 DEF Named, At, WorkspacePC
  <2> QED BY <1>5, <2>1
<1>14. Goal
  BY <1>6, <1>7, <1>8, <1>9, <1>10, <1>11, <1>12, <1>13
     DEF ServeWorkspaces, WorkspacesRequest, WorkspacesStep
<1> QED BY <1>14 DEF Goal, ServeWorkspaces
-----------------------------------------------------------------------------
(* The verification                                                        *)

\* t goes on with its run.
RunGoesOn(t) ==
  /\ Only(t) /\ began' = began
  /\ {"pc", "op", "run"} \subseteq DOMAIN thread'[t]
  /\ thread'[t].op = "verify" /\ thread'[t].run = thread[t].run

Checks(t) ==
  /\ thread[t].pc \in {"build", "load", "rewrite", "check"}
  /\ thread'[t].pc \in {"load", "rewrite", "check", "report"} /\ "ok" \in DOMAIN thread'[t]
  /\ RunGoesOn(t) /\ UNCHANGED <<report, disturbed>>

LEMMA RunStarts ==
  ASSUME ThreadsInv, NEW t \in Threads, RequestVerify(t)
  PROVE  /\ Only(t) /\ began' = began + 1 /\ began' \in 0..traffic.requests
         /\ thread[t].pc \in {"idle", "replied"}
         /\ {"pc", "op", "run"} \subseteq DOMAIN thread'[t]
         /\ thread'[t].pc = "build" /\ thread'[t].op = "verify" /\ thread'[t].run = began + 1
         /\ UNCHANGED report
<1> DEFINE r == [pc |-> "build", op |-> "verify", run |-> began + 1]
<1>1. Begin(t, r) /\ UNCHANGED report
  BY DEF RequestVerify
<1>2. {"pc", "op", "run"} \subseteq DOMAIN r /\ r.pc = "build" /\ r.op = "verify" /\ r.run = began + 1
  OBVIOUS
<1> HIDE DEF r
<1> QED BY <1>1, <1>2, BeginIs

LEMMA RunChecks ==
  ASSUME ThreadsInv, VerifyInv, NEW t \in Threads,
         Build(t) \/ Load(t) \/ Rewrite(t) \/ Check(t) \/ CheckWithUv(t)
  PROVE  Checks(t)
<1>1. CASE Build(t)
  <2>1. PICK f, ok : Become(t, [pc |-> "load", op |-> "verify", run |-> thread[t].run, failed |-> f, ok |-> ok])
    BY <1>1 DEF Build
  <2> DEFINE r == [pc |-> "load", op |-> "verify", run |-> thread[t].run, failed |-> f, ok |-> ok]
  <2>2. {"pc", "op", "run", "ok"} \subseteq DOMAIN r /\ r.pc = "load" /\ r.op = "verify" /\ r.run = thread[t].run
    OBVIOUS
  <2>3. Become(t, r)
    BY <2>1
  <2>4. At(t, "build") /\ UNCHANGED <<report, disturbed>>
    BY <1>1 DEF Build, verifyVars
  <2> HIDE DEF r
  <2> QED BY <2>2, <2>3, <2>4, BecomeIs DEF Checks, RunGoesOn, At
<1>2. CASE Load(t)
  <2>1. PICK p \in {"rewrite", "check"} : \E f, ok, l :
          Become(t, [pc |-> p, op |-> "verify", run |-> thread[t].run, failed |-> f, ok |-> ok, list |-> l])
    BY <1>2 DEF Load
  <2>0. PICK f, ok, l :
          Become(t, [pc |-> p, op |-> "verify", run |-> thread[t].run, failed |-> f, ok |-> ok, list |-> l])
    BY <2>1
  <2> DEFINE r == [pc |-> p, op |-> "verify", run |-> thread[t].run, failed |-> f, ok |-> ok, list |-> l]
  <2>2. {"pc", "op", "run", "ok"} \subseteq DOMAIN r /\ r.pc = p /\ r.op = "verify" /\ r.run = thread[t].run
    OBVIOUS
  <2>3. Become(t, r)
    BY <2>0
  <2>4. At(t, "load") /\ UNCHANGED <<report, disturbed>>
    BY <1>2 DEF Load, verifyVars
  <2> HIDE DEF r
  <2> QED BY <2>1, <2>2, <2>3, <2>4, BecomeIs DEF Checks, RunGoesOn, At
<1>3. CASE Rewrite(t)
  <2>1. At(t, "rewrite") /\ Goto(t, "check") /\ UNCHANGED <<report, disturbed>>
    BY <1>3 DEF Rewrite, verifyVars
  <2>2. {"op", "run", "ok"} \subseteq DOMAIN thread[t] /\ "pc" \in DOMAIN thread[t] /\ thread[t].op = "verify"
    BY <2>1 DEF At, VerifyInv, VerifyPC, RunOf, ThreadsInv
  <2> QED BY <2>1, <2>2, GotoIs DEF Checks, RunGoesOn, At
<1>4. CASE Check(t) \/ CheckWithUv(t)
  <2>1. PICK f, ok : Become(t, [pc |-> "report", op |-> "verify", run |-> thread[t].run, failed |-> f, ok |-> ok])
    BY <1>4 DEF Check, CheckWithUv
  <2> DEFINE r == [pc |-> "report", op |-> "verify", run |-> thread[t].run, failed |-> f, ok |-> ok]
  <2>2. {"pc", "op", "run", "ok"} \subseteq DOMAIN r /\ r.pc = "report" /\ r.op = "verify" /\ r.run = thread[t].run
    OBVIOUS
  <2>3. Become(t, r)
    BY <2>1
  <2>4. thread[t].pc \in {"check", "load"} /\ UNCHANGED <<report, disturbed>>
    BY <1>4 DEF Check, CheckWithUv, verifyVars, At
  <2> HIDE DEF r
  <2> QED BY <2>2, <2>3, <2>4, BecomeIs DEF Checks, RunGoesOn
<1> QED BY <1>1, <1>2, <1>3, <1>4

LEMMA RunCollapses ==
  ASSUME ThreadsInv, NEW t \in Threads, Collapse(t)
  PROVE  /\ thread[t].pc \in {"build", "load"} /\ RunGoesOn(t)
         /\ thread'[t].pc = "read" /\ "rc" \in DOMAIN thread'[t] /\ thread'[t].rc = 1
         /\ UNCHANGED <<report, disturbed>>
<1> DEFINE r == [pc |-> "read", op |-> "verify", run |-> thread[t].run, rc |-> 1]
<1>1. Become(t, r) /\ thread[t].pc \in {"build", "load"} /\ UNCHANGED <<report, disturbed>>
  BY DEF Collapse, verifyVars
<1>2. {"pc", "op", "run", "rc"} \subseteq DOMAIN r /\ r.pc = "read" /\ r.op = "verify"
      /\ r.run = thread[t].run /\ r.rc = 1
  OBVIOUS
<1> HIDE DEF r
<1> QED BY <1>1, <1>2, BecomeIs DEF RunGoesOn

LEMMA ReportTruncated ==
  ASSUME ThreadsInv, VerifyInv, NEW t \in Threads, TruncateReport(t)
  PROVE  /\ thread[t].pc = "report" /\ RunGoesOn(t)
         /\ thread'[t].pc = "write report" /\ "ok" \in DOMAIN thread'[t]
         /\ report'.by = 0 /\ disturbed' = disturbed
<1>1. At(t, "report") /\ Goto(t, "write report") /\ report'.by = 0 /\ disturbed' = disturbed
  BY DEF TruncateReport, TornReport, NoReport
<1>2. {"op", "run", "ok"} \subseteq DOMAIN thread[t] /\ "pc" \in DOMAIN thread[t] /\ thread[t].op = "verify"
  BY <1>1 DEF At, VerifyInv, VerifyPC, RunOf, ThreadsInv
<1> QED BY <1>1, <1>2, GotoIs DEF RunGoesOn, At

LEMMA ReportWritten ==
  ASSUME ThreadsInv, NEW t \in Threads, WriteReport(t)
  PROVE  /\ thread[t].pc = "write report" /\ RunGoesOn(t)
         /\ thread'[t].pc = "read" /\ "rc" \in DOMAIN thread'[t]
         /\ thread'[t].rc = 0 <=> report'.status = "PASS"
         /\ report'.by = thread[t].run /\ report'.status # "torn" /\ disturbed' = disturbed
<1> DEFINE ok == thread[t].ok
           rc == IF ok THEN 0 ELSE 1
           r == [pc |-> "read", op |-> "verify", run |-> thread[t].run, rc |-> rc]
<1>1. Become(t, r) /\ thread[t].pc = "write report" /\ disturbed' = disturbed
      /\ report' = [status |-> IF ok THEN "PASS" ELSE "FAIL", by |-> thread[t].run, failed |-> thread[t].failed]
  BY DEF WriteReport, At
<1>2. {"pc", "op", "run", "rc"} \subseteq DOMAIN r /\ r.pc = "read" /\ r.op = "verify"
      /\ r.run = thread[t].run /\ r.rc = rc
  OBVIOUS
<1>3. /\ report'.status = IF ok THEN "PASS" ELSE "FAIL"
      /\ report'.by = thread[t].run
  BY <1>1
<1> HIDE DEF r
<1>4. rc = 0 <=> report'.status = "PASS"
  BY <1>3
<1>5. report'.status # "torn"
  BY <1>3
<1> HIDE DEF rc, ok
<1> QED BY <1>1, <1>2, <1>3, <1>4, <1>5, BecomeIs DEF RunGoesOn

LEMMA ReportRead ==
  ASSUME ThreadsInv, NEW t \in Threads, ReadReport(t)
  PROVE  /\ thread[t].pc = "read" /\ RunGoesOn(t) /\ thread'[t].pc = "replied"
         /\ thread'[t].data = report /\ (thread'[t].success <=> thread[t].rc = 0)
         /\ UNCHANGED <<report, disturbed>>
<1> DEFINE r == [pc |-> "replied", op |-> "verify", run |-> thread[t].run, status |-> 200,
                 success |-> thread[t].rc = 0, data |-> report]
<1>1. Become(t, r) /\ thread[t].pc = "read" /\ UNCHANGED <<report, disturbed>>
  BY DEF ReadReport, verifyVars, At
<1>2. {"pc", "op", "run"} \subseteq DOMAIN r /\ r.pc = "replied" /\ r.op = "verify"
      /\ r.run = thread[t].run /\ r.data = report /\ (r.success <=> thread[t].rc = 0)
  OBVIOUS
<1> HIDE DEF r
<1> QED BY <1>1, <1>2, BecomeIs DEF RunGoesOn
LEMMA VerifyMoves ==
  ASSUME ThreadsInv, VerifyInv, NEW t \in Threads, ServeVerify(t)
  PROVE  /\ Only(t) /\ began' \in {began, began + 1} /\ began' \in 0..traffic.requests
         /\ {"pc", "op"} \subseteq DOMAIN thread'[t]
         /\ thread'[t].pc \in VerifyPC \cup {"replied"} /\ thread'[t].op = "verify"
         /\ thread[t].pc \in VerifyPC \cup {"idle", "replied"}
         /\ UNCHANGED <<chatVars, bridgeVars>>
<1>1. began \in 0..traffic.requests
  BY DEF ThreadsInv
<1>2. CASE RequestVerify(t)
  BY <1>2, RunStarts DEF VerifyPC, ServeVerify
<1>3. CASE Build(t) \/ Load(t) \/ Rewrite(t) \/ Check(t) \/ CheckWithUv(t)
  BY <1>1, <1>3, RunChecks DEF Checks, RunGoesOn, VerifyPC, ServeVerify
<1>4. CASE Collapse(t)
  BY <1>1, <1>4, RunCollapses DEF RunGoesOn, VerifyPC, ServeVerify
<1>5. CASE TruncateReport(t)
  BY <1>1, <1>5, ReportTruncated DEF RunGoesOn, VerifyPC, ServeVerify
<1>6. CASE WriteReport(t)
  BY <1>1, <1>6, ReportWritten DEF RunGoesOn, VerifyPC, ServeVerify
<1>7. CASE ReadReport(t)
  BY <1>1, <1>7, ReportRead DEF RunGoesOn, VerifyPC, ServeVerify
<1> QED BY <1>2, <1>3, <1>4, <1>5, <1>6, <1>7 DEF ServeVerify, VerifyStep

\* A step that is no business of those at some of the steps, nor of some operations.
Aside(PCs, Ops) ==
  /\ DOMAIN thread' = Threads /\ crashes' = crashes /\ began \in Nat /\ began' \in Nat /\ began <= began'
  /\ \A u \in Threads :
       thread'[u] # thread[u] =>
         /\ thread[u].pc \notin PCs /\ thread'[u].pc \notin PCs
         /\ thread'[u].pc = "replied" => thread'[u].op \notin Ops

LEMMA VerifyAside ==
  ASSUME ThreadsInv, VerifyInv, UNCHANGED verifyVars, Aside(VerifyPC, {"verify"})
  PROVE  VerifyInv'
<1>1. /\ DOMAIN thread' = Threads /\ crashes' = crashes /\ began \in Nat /\ began' \in Nat /\ began <= began'
      /\ report' = report /\ disturbed' = disturbed
  BY DEF Aside, verifyVars
<1>2. \A u \in Threads : thread'[u].pc \in VerifyPC => thread'[u] = thread[u]
  BY DEF Aside
<1>3. \A u \in Threads : thread[u].pc \in VerifyPC => thread'[u] = thread[u]
  BY DEF Aside
<1>4. report'.by \in 0..began'
  <2>1. report.by \in 0..began
    BY DEF VerifyInv
  <2> QED BY <1>1, <2>1
<1>5. report'.status = "torn" => crashes' > 0 \/ \E u \in Threads : thread'[u].pc = "write report"
  BY <1>1, <1>3 DEF VerifyInv, At, VerifyPC
<1>6. ASSUME NEW u \in Threads, thread'[u].pc \in VerifyPC
      PROVE  RunOf(u)'
  <2>1. thread'[u] = thread[u] /\ RunOf(u)
    BY <1>2, <1>6 DEF VerifyInv
  <2>2. thread[u].run \in 1..began => thread[u].run \in 1..began'
    BY <1>1
  <2> QED BY <1>1, <2>1, <2>2 DEF RunOf
<1>7. ASSUME NEW u \in Threads, NEW o \in Threads, u # o, thread'[u].pc \in VerifyPC, thread'[o].pc \in VerifyPC
      PROVE  thread'[u].run \in disturbed'
  BY <1>1, <1>2, <1>7 DEF VerifyInv
<1>8. VerifyAnswersItsRun'
  <2>1. ASSUME NEW u \in Threads, thread'[u].pc = "replied", thread'[u].op = "verify"
        PROVE  thread'[u] = thread[u]
    BY <2>1 DEF Aside
  <2>2. ASSUME NEW u \in Threads, thread'[u].pc = "replied", thread'[u].op = "verify"
        PROVE  thread'[u].run \in disturbed' \/ AnswersItsRun(u)'
    <3>1. thread'[u] = thread[u] /\ (thread[u].run \in disturbed \/ AnswersItsRun(u))
      BY <2>1, <2>2 DEF VerifyInv, VerifyAnswersItsRun, Replied, At
    <3>2. thread'[u] = thread[u] /\ AnswersItsRun(u) => AnswersItsRun(u)'
      BY <1>1 DEF AnswersItsRun
    <3> QED BY <1>1, <3>1, <3>2
  <2> QED BY <2>2 DEF VerifyAnswersItsRun, Replied, At
<1> QED BY <1>4, <1>5, <1>6, <1>7, <1>8 DEF VerifyInv, At

\* t takes a step of its run: what is to be shown of t, and of the report.
RunStep(t) ==
  /\ Only(t) /\ thread'[t].pc \in VerifyPC \cup {"replied"} /\ began' \in {began, began + 1}
  /\ report'.by \in 0..began' /\ disturbed \subseteq disturbed'
  /\ report'.status = "torn" => crashes > 0 \/ \E u \in Threads : thread'[u].pc = "write report"
  /\ report' = report \/ thread[t].pc \in VerifyPC
  /\ thread'[t].pc \in VerifyPC => RunOf(t)'
  /\ thread'[t].pc = "replied" => thread'[t].run \in disturbed' \/ AnswersItsRun(t)'
  /\ \A o \in Threads \ {t} :
       thread'[t].pc \in VerifyPC /\ thread[o].pc \in VerifyPC =>
         thread'[t].run \in disturbed' /\ thread[o].run \in disturbed'

LEMMA VerifyStepKept ==
  ASSUME ThreadsInv, VerifyInv, NEW t \in Threads, RunStep(t)
  PROVE  VerifyInv'
<1>1. /\ began \in Nat /\ began' \in {began, began + 1}
      /\ crashes' = crashes /\ \A u \in Threads \ {t} : thread'[u] = thread[u]
  BY Counted DEF Only, RunStep
<1>2. ASSUME NEW u \in Threads, thread'[u].pc \in VerifyPC
      PROVE  RunOf(u)'
  <2>1. CASE u # t
    <3>1. thread'[u] = thread[u] /\ RunOf(u)
      BY <1>1, <1>2, <2>1 DEF VerifyInv
    <3>2. thread[u].run \in 1..began => thread[u].run \in 1..began'
      BY <1>1
    <3>3. thread[u].run \notin disturbed' => report' = report /\ thread[u].run \notin disturbed
      BY <1>1, <1>2, <2>1, <3>1 DEF VerifyInv, RunStep
    <3> QED BY <1>1, <3>1, <3>2, <3>3 DEF RunOf, RunStep
  <2> QED BY <1>2, <2>1 DEF RunStep
<1>3. ASSUME NEW u \in Threads, NEW o \in Threads, u # o, thread'[u].pc \in VerifyPC, thread'[o].pc \in VerifyPC
      PROVE  thread'[u].run \in disturbed'
  <2>1. \A v, w \in Threads :
          v # w /\ thread[v].pc \in VerifyPC /\ thread[w].pc \in VerifyPC => thread[v].run \in disturbed
    BY DEF VerifyInv
  <2>2. /\ disturbed \subseteq disturbed'
        /\ \A w \in Threads \ {t} :
             thread'[t].pc \in VerifyPC /\ thread[w].pc \in VerifyPC =>
               thread'[t].run \in disturbed' /\ thread[w].run \in disturbed'
    BY DEF RunStep
  <2> QED BY <1>1, <1>3, <2>1, <2>2
<1>4. VerifyAnswersItsRun'
  <2>1. ASSUME NEW u \in Threads, u # t, thread'[u].pc = "replied", thread'[u].op = "verify"
        PROVE  thread'[u].run \in disturbed' \/ AnswersItsRun(u)'
    <3>1. thread'[u] = thread[u] /\ (thread[u].run \in disturbed \/ AnswersItsRun(u))
      BY <1>1, <2>1 DEF VerifyInv, VerifyAnswersItsRun, Replied, At
    <3>2. thread'[u] = thread[u] /\ AnswersItsRun(u) => AnswersItsRun(u)'
      BY <1>1 DEF AnswersItsRun
    <3> QED BY <3>1, <3>2 DEF RunStep
  <2> QED BY <2>1 DEF RunStep, VerifyAnswersItsRun, Replied, At
<1> QED BY <1>1, <1>2, <1>3, <1>4 DEF VerifyInv, RunStep, At
LEMMA VerifyServed ==
  ASSUME ThreadsInv, VerifyInv, NEW t \in Threads, ServeVerify(t)
  PROVE  VerifyInv'
<1>a. began \in Nat /\ report.by \in 0..began /\ report.by \in Nat
  <2>1. began \in Nat /\ report.by \in 0..began
    BY Counted DEF VerifyInv
  <2> QED BY <2>1
<1>b. ASSUME thread[t].pc \in VerifyPC
      PROVE  /\ RunOf(t) /\ thread[t].run \in 1..began
             /\ \A o \in Threads \ {t} : thread[o].pc \in VerifyPC => thread[t].run \in disturbed /\ thread[o].run \in disturbed
  BY <1>b DEF VerifyInv, RunOf
<1>c. report.status = "torn" => crashes > 0 \/ \E u \in Threads : thread[u].pc = "write report"
  BY DEF VerifyInv, At
<1>1. CASE RequestVerify(t)
  <2>1. /\ Only(t) /\ began' = began + 1 /\ thread[t].pc \in {"idle", "replied"}
        /\ {"pc", "op", "run"} \subseteq DOMAIN thread'[t]
        /\ thread'[t].pc = "build" /\ thread'[t].op = "verify" /\ thread'[t].run = began + 1
        /\ report' = report
    BY <1>1, RunStarts
  <2> DEFINE others == {thread[o].run : o \in {p \in Threads : Busy(p) /\ thread[p].op = "verify"}}
  <2>2. disturbed' = IF others = {} THEN disturbed ELSE disturbed \cup others \cup {began + 1}
    BY <1>1 DEF RequestVerify
  <2>3. ASSUME NEW o \in Threads, thread[o].pc \in VerifyPC
        PROVE  thread[o].run \in others
    BY <2>3 DEF VerifyInv, RunOf, Busy, VerifyPC
  <2> HIDE DEF others
  <2>4. RunOf(t)'
    <3>1. report'.by < thread'[t].run /\ thread'[t].run \in 1..began'
      BY <1>a, <2>1
    <3> QED BY <2>1, <3>1 DEF RunOf
  <2>5. report'.status = "torn" => crashes > 0 \/ \E u \in Threads : thread'[u].pc = "write report"
    BY <1>c, <2>1 DEF Only
  <2>6. report'.by \in 0..began'
    BY <1>a, <2>1
  <2>7. RunStep(t)
    BY <2>1, <2>2, <2>3, <2>4, <2>5, <2>6 DEF RunStep, VerifyPC
  <2> QED BY <2>7, VerifyStepKept
<1>2. CASE Build(t) \/ Load(t) \/ Rewrite(t) \/ Check(t) \/ CheckWithUv(t)
  <2>1. Checks(t)
    BY <1>2, RunChecks
  <2>2. thread[t].pc \in VerifyPC /\ thread[t].pc # "write report"
    BY <2>1 DEF Checks, VerifyPC
  <2>3. RunOf(t)'
    BY <1>a, <1>b, <2>1, <2>2 DEF Checks, RunGoesOn, RunOf
  <2>4. report'.status = "torn" => crashes > 0 \/ \E u \in Threads : thread'[u].pc = "write report"
    BY <1>c, <2>1, <2>2 DEF Checks, RunGoesOn, Only
  <2>5. RunStep(t)
    BY <1>a, <1>b, <2>1, <2>2, <2>3, <2>4 DEF Checks, RunGoesOn, RunStep, VerifyPC
  <2> QED BY <2>5, VerifyStepKept
<1>3. CASE Collapse(t)
  <2>1. /\ thread[t].pc \in {"build", "load"} /\ RunGoesOn(t)
        /\ thread'[t].pc = "read" /\ "rc" \in DOMAIN thread'[t] /\ thread'[t].rc = 1
        /\ UNCHANGED <<report, disturbed>>
    BY <1>3, RunCollapses
  <2>2. thread[t].pc \in VerifyPC /\ thread[t].pc # "write report"
    BY <2>1 DEF VerifyPC
  <2>3. RunOf(t)'
    <3>1. thread[t].run \notin disturbed => report.by < thread[t].run
      BY <1>b, <2>1, <2>2 DEF RunOf
    <3>2. thread[t].run \in 1..began
      BY <1>b, <2>2
    <3> QED BY <2>1, <3>1, <3>2 DEF RunGoesOn, RunOf
  <2>4. report'.status = "torn" => crashes > 0 \/ \E u \in Threads : thread'[u].pc = "write report"
    BY <1>c, <2>1, <2>2 DEF RunGoesOn, Only
  <2>5. RunStep(t)
    BY <1>a, <1>b, <2>1, <2>2, <2>3, <2>4 DEF RunGoesOn, RunStep, VerifyPC
  <2> QED BY <2>5, VerifyStepKept
<1>4. CASE TruncateReport(t)
  <2>1. /\ thread[t].pc = "report" /\ RunGoesOn(t)
        /\ thread'[t].pc = "write report" /\ "ok" \in DOMAIN thread'[t]
        /\ report'.by = 0 /\ disturbed' = disturbed
    BY <1>4, ReportTruncated
  <2>2. thread[t].pc \in VerifyPC
    BY <2>1 DEF VerifyPC
  <2>3. RunOf(t)'
    BY <1>a, <1>b, <2>1, <2>2 DEF RunGoesOn, RunOf
  <2>4. report'.by \in 0..began'
    <3>1. report'.by = 0 /\ began' = began
      BY <2>1 DEF RunGoesOn
    <3> QED BY <1>a, <3>1
  <2>5. RunStep(t)
    BY <1>b, <2>1, <2>2, <2>3, <2>4 DEF RunGoesOn, RunStep, VerifyPC
  <2> QED BY <2>5, VerifyStepKept
<1>5. CASE WriteReport(t)
  <2>1. /\ thread[t].pc = "write report" /\ RunGoesOn(t)
        /\ thread'[t].pc = "read" /\ "rc" \in DOMAIN thread'[t]
        /\ thread'[t].rc = 0 <=> report'.status = "PASS"
        /\ report'.by = thread[t].run /\ report'.status # "torn" /\ disturbed' = disturbed
    BY <1>5, ReportWritten
  <2>2. thread[t].pc \in VerifyPC
    BY <2>1 DEF VerifyPC
  <2>3. RunOf(t)'
    BY <1>a, <1>b, <2>1, <2>2 DEF RunGoesOn, RunOf
  <2>4. report'.by \in 0..began'
    <3>1. report'.by = thread[t].run /\ began' = began
      BY <2>1 DEF RunGoesOn
    <3>2. thread[t].run \in 1..began
      BY <1>b, <2>2
    <3> QED BY <1>a, <3>1, <3>2
  <2>5. RunStep(t)
    BY <1>b, <2>1, <2>2, <2>3, <2>4 DEF RunGoesOn, RunStep, VerifyPC
  <2> QED BY <2>5, VerifyStepKept
<1>6. CASE ReadReport(t)
  <2>1. /\ thread[t].pc = "read" /\ RunGoesOn(t) /\ thread'[t].pc = "replied"
        /\ thread'[t].data = report /\ (thread'[t].success <=> thread[t].rc = 0)
        /\ UNCHANGED <<report, disturbed>>
    BY <1>6, ReportRead
  <2>2. thread[t].pc \in VerifyPC
    BY <2>1 DEF VerifyPC
  <2>3. crashes \in Nat /\ crashes' = crashes /\ \A u \in Threads \ {t} : thread'[u] = thread[u]
    BY <2>1 DEF ThreadsInv, RunGoesOn, Only
  <2>4. report.status = "torn" => crashes > 0 \/ \E u \in Threads : thread'[u].pc = "write report" /\ u # t
    BY <1>c, <2>1, <2>3
  <2>5. thread'[t].run \in disturbed' \/ AnswersItsRun(t)'
    <3>1. CASE thread[t].run \in disturbed
      BY <2>1, <3>1 DEF RunGoesOn
    <3>2. CASE thread[t].run \notin disturbed
      <4>1. IF report.by = thread[t].run THEN (thread[t].rc = 0 <=> report.status = "PASS")
            ELSE thread[t].rc # 0 /\ report.by < thread[t].run
        BY <1>b, <2>1, <2>2, <3>2 DEF RunOf
      <4>2. report.status = "torn" => crashes > 0
        BY <1>b, <2>2, <2>3, <2>4, <3>2 DEF VerifyPC
      <4> QED BY <2>1, <2>3, <4>1, <4>2 DEF RunGoesOn, AnswersItsRun
    <3> QED BY <3>1, <3>2
  <2>6. RunStep(t)
    BY <1>a, <1>b, <2>1, <2>2, <2>4, <2>5 DEF RunGoesOn, RunStep, VerifyPC
  <2> QED BY <2>6, VerifyStepKept
<1> QED BY <1>1, <1>2, <1>3, <1>4, <1>5, <1>6 DEF ServeVerify, VerifyStep
-----------------------------------------------------------------------------
(* What the list has                                                       *)

LEMMA ListIs ==
  ASSUME NEW list, Sound(list)
  PROVE  /\ list \in Seq(Workspace) /\ DOMAIN list = 1..Len(list) /\ Len(list) \in Nat /\ Len(list) >= 1
         /\ 1 \in DOMAIN list
         /\ \A i \in DOMAIN list : list[i] \in Workspace /\ i \in Nat
BY DEF Sound

LEMMA CurrentIs ==
  ASSUME NEW list, Sound(list)
  PROVE  /\ \E k \in DOMAIN list : Current(list) = list[k]
         /\ Current(list).root = FolderOf(Current(list).id)
<1>1. \E k \in DOMAIN list : Current(list) = list[k]
  <2>1. CASE Active(list) = {}
    BY <2>1, ListIs DEF Current
  <2>2. CASE Active(list) # {}
    <3>1. Active(list) \in SUBSET Nat /\ Active(list) \subseteq DOMAIN list
      BY ListIs DEF Active, Positions
    <3>2. Min(Active(list)) \in DOMAIN list
      BY <2>2, <3>1, First
    <3> QED BY <2>2, <3>2 DEF Current
  <2> QED BY <2>1, <2>2
<1> QED BY <1>1 DEF Sound

LEMMA FoundAt ==
  ASSUME NEW list, Sound(list), NEW id, WithId(list, id) # {}
  PROVE  LET k == Min(WithId(list, id)) IN
         /\ k \in DOMAIN list /\ list[k].id = id /\ list[k].root = FolderOf(id)
         /\ \A i \in DOMAIN list : list[i].id = id => i = k
<1>1. WithId(list, id) \in SUBSET Nat
  BY ListIs DEF WithId, Positions
<1>2. Min(WithId(list, id)) \in WithId(list, id)
  BY <1>1, First
<1> QED BY <1>2 DEF WithId, Positions, Sound

\* The folder of what is asked for, or of what is current.
LEMMA RootIs ==
  ASSUME Sound(workspaces), NEW id, Known(id)
  PROVE  IF id # "none" THEN RootOf(id) = FolderOf(id) ELSE RootOf(id) = Current(workspaces).root
BY FoundAt DEF Known, RootOf
-----------------------------------------------------------------------------
(* The chat                                                                *)

LEMMA QuestionIsHeard ==
  ASSUME NEW p \in Prompts, NEW u \in Uploads, NEW seen, p.size > 0
  PROVE  Question(p, u, "none", seen) > 0
<1> DEFINE part == FilePart(u)
           room == MaxPrompt - part
<1>1. p.size \in Nat /\ u.size \in Nat /\ MaxPrompt \in Nat /\ MaxExcerpt \in Nat /\ MaxExcerpt < MaxPrompt
  BY ChatAssumption
<1>2. part \in Nat /\ part <= MaxExcerpt
  <2>1. Min({u.size, MaxExcerpt}) \in {u.size, MaxExcerpt} /\ Min({u.size, MaxExcerpt}) <= MaxExcerpt
    BY <1>1, First
  <2> QED BY <1>1, <2>1 DEF FilePart, Clip
<1>3. ContextPart("none", seen) = 0
  BY DEF ContextPart
<1> HIDE DEF part
<1>4. room \in Nat /\ room > 0 /\ room - 0 = room
  BY <1>1, <1>2
<1> HIDE DEF room
<1>5. Max({0, room}) = room
  BY <1>4 DEF Max
<1>6. Min({p.size, room}) \in {p.size, room}
  BY <1>1, <1>4, First
<1>7. Question(p, u, "none", seen) = Min({p.size, room})
  BY <1>3, <1>4, <1>5 DEF Question, Clip, room, part
<1> QED BY <1>1, <1>4, <1>6, <1>7

\* t goes on with its chat.
ChatFields == {"pc", "op", "prompt", "upload", "note", "id", "root", "pointed", "seen", "shown"}
ChatGoesOn(t) ==
  /\ Only(t) /\ began' = began /\ ChatFields \subseteq DOMAIN thread'[t]
  /\ thread'[t].op = thread[t].op /\ thread'[t].prompt = thread[t].prompt
  /\ thread'[t].upload = thread[t].upload /\ thread'[t].note = thread[t].note
\* What it shows is what the prompt points to, or the workspace in its stead.
ShownIs(r) == r.shown \in {r.pointed, "none"} \/ (r.shown = r.root /\ r.pointed = r.seen)

LEMMA FieldsAre ==
  ASSUME ThreadsInv, ChatInv, NEW t \in Threads, thread[t].pc \in ChatPC
  PROVE  /\ NoteOf(t) /\ ChatFields \subseteq DOMAIN thread[t]
         /\ "op" \in DOMAIN thread[t] /\ thread[t].op \in {"chat", "upload"}
BY DEF ThreadsInv, ChatInv, NoteOf, ChatFields

LEMMA ChatStarts ==
  ASSUME ThreadsInv, NEW t \in Threads, RequestChat(t)
  PROVE  /\ Only(t) /\ began' = began + 1 /\ began' \in 0..traffic.requests
         /\ thread[t].pc \in {"idle", "replied"}
         /\ ChatFields \subseteq DOMAIN thread'[t]
         /\ thread'[t].pc = "prepare" /\ thread'[t].op \in {"chat", "upload"}
         /\ thread'[t].prompt \in Prompts /\ thread'[t].upload \in Uploads /\ thread'[t].note = began + 1
         /\ thread'[t].shown = "none" /\ UNCHANGED chatVars
<1>1. PICK p \in Prompts, u \in Uploads :
        Begin(t, [pc |-> "prepare", op |-> IF u.kind = "none" THEN "chat" ELSE "upload", prompt |-> p,
                  upload |-> u, note |-> began + 1, id |-> "none", root |-> "none", pointed |-> "none",
                  seen |-> "none", shown |-> "none"])
  BY DEF RequestChat
<1> DEFINE r == [pc |-> "prepare", op |-> IF u.kind = "none" THEN "chat" ELSE "upload", prompt |-> p,
                 upload |-> u, note |-> began + 1, id |-> "none", root |-> "none", pointed |-> "none",
                 seen |-> "none", shown |-> "none"]
<1>2. Begin(t, r)
  BY <1>1
<1>3. ChatFields \subseteq DOMAIN r /\ r.pc = "prepare" /\ r.op \in {"chat", "upload"}
      /\ r.prompt = p /\ r.upload = u /\ r.note = began + 1 /\ r.shown = "none"
  BY DEF ChatFields
<1>4. UNCHANGED chatVars
  BY DEF RequestChat
<1> HIDE DEF r
<1> QED BY <1>2, <1>3, <1>4, BeginIs

\* The record with which a chat goes on.
LEMMA ChatBecomes ==
  ASSUME ThreadsInv, ChatInv, NEW t \in Threads, thread[t].pc \in ChatPC, NEW r, Become(t, r),
         ChatFields \subseteq DOMAIN r, r.op = thread[t].op, r.prompt = thread[t].prompt,
         r.upload = thread[t].upload, r.note = thread[t].note
  PROVE  ChatGoesOn(t) /\ thread'[t] = r
BY BecomeIs DEF ChatGoesOn

LEMMA ChatPrepares ==
  ASSUME ThreadsInv, WorkspacesInv, ChatInv, NEW t \in Threads, Prepare(t)
  PROVE  /\ thread[t].pc = "prepare" /\ thread'[t].pc \in {"context", "model"}
         /\ ChatGoesOn(t) /\ thread'[t].shown = "none" /\ UNCHANGED chatVars
         /\ thread'[t].pc = "context" => thread'[t].id # "none" /\ FolderOf(thread'[t].id) = thread'[t].root
<1>1. thread[t].pc = "prepare" /\ thread[t].pc \in ChatPC /\ UNCHANGED chatVars
  BY DEF Prepare, At, ChatPC
<1>2. ChatFields \subseteq DOMAIN thread[t]
  BY <1>1, FieldsAre
<1>3. thread[t].shown = "none"
  BY <1>1, FieldsAre DEF NoteOf
<1> DEFINE w == Current(workspaces)
<1>4. w.id # "none" /\ FolderOf(w.id) = w.root
  <2>1. Sound(workspaces)
    BY DEF WorkspacesInv, ManagerInv
  <2>2. PICK k \in DOMAIN workspaces : w = workspaces[k]
    BY <2>1, CurrentIs
  <2>3. workspaces[k] \in Workspace /\ workspaces[k].root = FolderOf(workspaces[k].id)
    BY <2>1, <2>2 DEF Sound
  <2>4. workspaces[k].id \in Roots \cup {"default"}
    BY <2>3 DEF Workspace
  <2> QED BY <2>2, <2>3, <2>4, WorkspacesAssumption
<1> HIDE DEF w
<1>5. CASE thread[t].prompt.hint /\ w.root \in dirs
  <2> DEFINE r == [thread[t] EXCEPT !.pc = "context", !.id = w.id, !.root = w.root]
  <2>1. Become(t, r)
    BY <1>5 DEF Prepare, w
  <2>2. /\ ChatFields \subseteq DOMAIN r /\ r.pc = "context" /\ r.op = thread[t].op
        /\ r.prompt = thread[t].prompt /\ r.upload = thread[t].upload /\ r.note = thread[t].note
        /\ r.shown = thread[t].shown /\ r.id = w.id /\ r.root = w.root
    BY <1>2 DEF ChatFields
  <2> HIDE DEF r
  <2>3. ChatGoesOn(t) /\ thread'[t] = r
    BY <1>1, <2>1, <2>2, ChatBecomes
  <2> QED BY <1>1, <1>3, <1>4, <2>2, <2>3
<1>6. CASE ~(thread[t].prompt.hint /\ w.root \in dirs)
  <2> DEFINE r == [thread[t] EXCEPT !.pc = "model"]
  <2>1. Become(t, r)
    BY <1>6 DEF Prepare, w
  <2>2. /\ ChatFields \subseteq DOMAIN r /\ r.pc = "model" /\ r.op = thread[t].op
        /\ r.prompt = thread[t].prompt /\ r.upload = thread[t].upload /\ r.note = thread[t].note
        /\ r.shown = thread[t].shown
    BY <1>2 DEF ChatFields
  <2> HIDE DEF r
  <2>3. ChatGoesOn(t) /\ thread'[t] = r
    BY <1>1, <2>1, <2>2, ChatBecomes
  <2> QED BY <1>1, <1>3, <2>2, <2>3
<1> QED BY <1>5, <1>6

LEMMA ChatShowsFile ==
  ASSUME ThreadsInv, ChatInv, NEW t \in Threads, ShowFile(t)
  PROVE  /\ thread[t].pc = "context" /\ thread'[t].pc = "model"
         /\ ChatGoesOn(t) /\ ShownIs(thread'[t]) /\ UNCHANGED chatVars
<1>1. thread[t].pc = "context" /\ thread[t].pc \in ChatPC /\ UNCHANGED chatVars
  BY DEF ShowFile, At, ChatPC
<1>2. ChatFields \subseteq DOMAIN thread[t]
  BY <1>1, FieldsAre
<1> DEFINE s == Target(t)
<1> HIDE DEF s
<1> DEFINE r == [thread[t] EXCEPT !.pc = "model", !.pointed = s, !.shown = s]
<1>3. Become(t, r)
  BY DEF ShowFile, s
<1>4. /\ ChatFields \subseteq DOMAIN r /\ r.pc = "model" /\ r.op = thread[t].op
      /\ r.prompt = thread[t].prompt /\ r.upload = thread[t].upload /\ r.note = thread[t].note
      /\ r.pointed = s /\ r.shown = s
  BY <1>2 DEF ChatFields
<1> HIDE DEF r
<1>5. ChatGoesOn(t) /\ thread'[t] = r
  BY <1>1, <1>3, <1>4, ChatBecomes
<1> QED BY <1>1, <1>4, <1>5 DEF ShownIs

LEMMA ChatAsksTree ==
  ASSUME ThreadsInv, ChatInv, NEW t \in Threads, AskTree(t)
  PROVE  /\ thread[t].pc = "context" /\ thread'[t].pc = "tree"
         /\ ChatGoesOn(t) /\ thread'[t].shown = "none" /\ UNCHANGED chatVars
         /\ thread'[t].id = thread[t].id /\ thread'[t].root = thread[t].root
<1>1. thread[t].pc = "context" /\ thread[t].pc \in ChatPC /\ UNCHANGED chatVars
  BY DEF AskTree, At, ChatPC
<1>2. ChatFields \subseteq DOMAIN thread[t] /\ thread[t].shown = "none"
  BY <1>1, FieldsAre DEF NoteOf
<1> DEFINE p == IF Points(t, "folder") THEN Target(t) ELSE thread[t].root
           s == Current(workspaces).root
<1> HIDE DEF p, s
<1> DEFINE r == [thread[t] EXCEPT !.pc = "tree", !.pointed = p, !.seen = s]
<1>3. Become(t, r)
  BY DEF AskTree, p, s
<1>4. /\ ChatFields \subseteq DOMAIN r /\ r.pc = "tree" /\ r.op = thread[t].op
      /\ r.prompt = thread[t].prompt /\ r.upload = thread[t].upload /\ r.note = thread[t].note
      /\ r.id = thread[t].id /\ r.root = thread[t].root /\ r.shown = thread[t].shown
  BY <1>2 DEF ChatFields
<1> HIDE DEF r
<1>5. ChatGoesOn(t) /\ thread'[t] = r
  BY <1>1, <1>3, <1>4, ChatBecomes
<1> QED BY <1>1, <1>2, <1>4, <1>5

\* The manager answers for the folder the chat began with, if for any.
LEMMA AskedIs ==
  ASSUME WorkspacesInv, NEW id, id # "none", NEW pointed, NEW seen, Asked(id, pointed, seen) # "none"
  PROVE  Asked(id, pointed, seen) = FolderOf(id) /\ pointed \in {seen, FolderOf(id)}
<1>1. Sound(workspaces)
  BY DEF WorkspacesInv, ManagerInv
<1>2. Known(id) /\ pointed \in {seen, RootOf(id)} /\ Asked(id, pointed, seen) = RootOf(id)
  BY DEF Asked
<1>3. RootOf(id) = FolderOf(id)
  BY <1>1, <1>2, RootIs
<1> QED BY <1>2, <1>3

LEMMA ChatShowsTree ==
  ASSUME ThreadsInv, WorkspacesInv, ChatInv, NEW t \in Threads, Tree(t)
  PROVE  /\ thread[t].pc = "tree" /\ thread'[t].pc = "model"
         /\ ChatGoesOn(t) /\ ShownIs(thread'[t]) /\ UNCHANGED chatVars
<1>1. thread[t].pc = "tree" /\ thread[t].pc \in ChatPC /\ UNCHANGED chatVars
  BY DEF Tree, At, ChatPC
<1>2. ChatFields \subseteq DOMAIN thread[t] /\ thread[t].id # "none" /\ FolderOf(thread[t].id) = thread[t].root
  BY <1>1, FieldsAre DEF NoteOf
<1> DEFINE asked == Asked(thread[t].id, thread[t].pointed, thread[t].seen)
           itself == IF There(thread[t].pointed) THEN thread[t].pointed ELSE "none"
<1>3. itself \in {thread[t].pointed, "none"}
  OBVIOUS
<1>4. asked # "none" => asked = thread[t].root /\ thread[t].pointed \in {thread[t].seen, thread[t].root}
  BY <1>2, AskedIs
<1> HIDE DEF asked, itself
<1>5. PICK answer \in {asked, "none"} :
        Become(t, [thread[t] EXCEPT !.pc = "model", !.shown = IF answer # "none" THEN answer ELSE itself])
  BY DEF Tree, asked, itself
<1> DEFINE s == IF answer # "none" THEN answer ELSE itself
<1>6. s \in {thread[t].pointed, "none"} \/ (s = thread[t].root /\ thread[t].pointed = thread[t].seen)
  <2>1. CASE answer # "none"
    <3>1. s = asked /\ asked # "none"
      BY <1>5, <2>1
    <3> QED BY <1>4, <3>1
  <2>2. CASE answer = "none"
    BY <1>3, <2>2
  <2> QED BY <2>1, <2>2
<1> HIDE DEF s
<1> DEFINE r == [thread[t] EXCEPT !.pc = "model", !.shown = s]
<1>7. Become(t, r)
  BY <1>5 DEF s
<1>8. /\ ChatFields \subseteq DOMAIN r /\ r.pc = "model" /\ r.op = thread[t].op
      /\ r.prompt = thread[t].prompt /\ r.upload = thread[t].upload /\ r.note = thread[t].note
      /\ r.pointed = thread[t].pointed /\ r.seen = thread[t].seen /\ r.root = thread[t].root /\ r.shown = s
  BY <1>2 DEF ChatFields
<1> HIDE DEF r
<1>9. ChatGoesOn(t) /\ thread'[t] = r
  BY <1>1, <1>7, <1>8, ChatBecomes
<1> QED BY <1>1, <1>6, <1>8, <1>9 DEF ShownIs

\* To another step with the record as it is.
LEMMA ChatGoesTo ==
  ASSUME ThreadsInv, ChatInv, NEW t \in Threads, thread[t].pc \in ChatPC, NEW p, Goto(t, p)
  PROVE  /\ ChatGoesOn(t) /\ thread'[t].pc = p
         /\ \A x \in DOMAIN thread[t] : x # "pc" => x \in DOMAIN thread'[t] /\ thread'[t][x] = thread[t][x]
<1>1. ChatFields \subseteq DOMAIN thread[t]
  BY FieldsAre
<1>2. \A x \in ChatFields \ {"pc"} : thread'[t][x] = thread[t][x]
  BY <1>1, GotoIs
<1> QED BY <1>1, <1>2, GotoIs DEF ChatGoesOn, ChatFields

\* The answer.
LEMMA AnswerIs ==
  ASSUME ThreadsInv, ChatInv, NEW t \in Threads, thread[t].pc \in ChatPC,
         NEW ok \in BOOLEAN, NEW kept1 \in BOOLEAN, Answered(t, ok, kept1),
         kept1 => thread[t].note \in reported'
  PROVE  /\ Only(t) /\ began' = began /\ thread'[t].pc = "replied"
         /\ "op" \in DOMAIN thread'[t] /\ "pc" \in DOMAIN thread'[t]
         /\ thread'[t].op \in {"chat", "upload"} /\ ChatIsTrue(t)'
<1> DEFINE r == [pc |-> "replied", op |-> thread[t].op, answered |-> ok, note |-> thread[t].note,
                 status |-> IF ok \/ thread[t].op = "chat" THEN 200 ELSE 500,
                 remembered |-> kept1, root |-> thread[t].root, pointed |-> thread[t].pointed,
                 seen |-> thread[t].seen, shown |-> thread[t].shown, asked |-> thread[t].prompt.size,
                 question |-> Question(thread[t].prompt, thread[t].upload, thread[t].shown, thread[t].seen)]
<1>1. Become(t, r)
  BY DEF Answered
<1>2. /\ {"pc", "op"} \subseteq DOMAIN r /\ r.pc = "replied" /\ r.op = thread[t].op
      /\ r.note = thread[t].note /\ r.root = thread[t].root /\ r.shown = thread[t].shown
      /\ r.pointed = thread[t].pointed /\ r.seen = thread[t].seen /\ r.asked = thread[t].prompt.size
      /\ r.question = Question(thread[t].prompt, thread[t].upload, thread[t].shown, thread[t].seen)
  OBVIOUS
<1>3. r.remembered => kept1
  OBVIOUS
<1> HIDE DEF r
<1>4. NoteOf(t) /\ thread[t].op \in {"chat", "upload"}
  BY FieldsAre
<1>5. r.asked > 0 /\ r.shown = "none" => r.question > 0
  BY <1>2, <1>4, QuestionIsHeard DEF NoteOf
<1>6. r.shown \in {r.pointed, "none"} \/ (r.shown = r.root /\ r.pointed = r.seen)
  BY <1>2, <1>4 DEF NoteOf
<1>7. thread'[t] = r /\ Only(t) /\ began' = began
  BY <1>1, BecomeIs
<1>8. ChatIsTrue(t)'
  BY <1>2, <1>3, <1>5, <1>6, <1>7 DEF ChatIsTrue
<1> QED BY <1>2, <1>4, <1>7, <1>8
LEMMA ChatAside ==
  ASSUME ThreadsInv, ChatInv, UNCHANGED chatVars, Aside(ChatPC, {"chat", "upload"})
  PROVE  ChatInv'
<1>1. /\ DOMAIN thread' = Threads
      /\ memoryFile' = memoryFile /\ reported' = reported /\ overlapped' = overlapped
      /\ \A u \in Threads : thread'[u].pc \in ChatPC => thread'[u] = thread[u]
  BY DEF Aside, chatVars
<1>2. ASSUME NEW u \in Threads, thread'[u].pc \in ChatPC
      PROVE  NoteOf(u)'
  <2>1. thread'[u] = thread[u] /\ NoteOf(u)
    BY <1>1, <1>2 DEF ChatInv
  <2> QED BY <1>1, <2>1 DEF NoteOf
<1>3. ASSUME NEW u \in Threads, NEW o \in Threads, u # o,
             thread'[u].pc \in {"add note", "write memory"}, thread'[o].pc \in {"add note", "write memory"}
      PROVE  thread'[u].note \in overlapped'
  BY <1>1, <1>3 DEF ChatInv, Adding, ChatPC
<1>4. ASSUME NEW u \in Threads, thread'[u].pc = "replied", thread'[u].op \in {"chat", "upload"}
      PROVE  ChatIsTrue(u)'
  <2>1. thread'[u] = thread[u] /\ ChatIsTrue(u)
    BY <1>4 DEF Aside, ChatInv, ChatsHoldTogether, Replied, At
  <2> QED BY <1>1, <2>1 DEF ChatIsTrue
<1>5. ChatsHoldTogether'
  BY <1>1, <1>4 DEF ChatInv, ChatsHoldTogether, Replied, At
<1>6. memoryFile'.list \in Seq(Nat)
  BY <1>1 DEF ChatInv
<1> QED BY <1>2, <1>3, <1>5, <1>6 DEF ChatInv, Adding

\* t takes a step of its chat: what is to be shown of it, and of the notes.
AddPC == {"add note", "write memory"}
NoteStep(t) ==
  /\ Only(t) /\ thread'[t].pc \in ChatPC \cup {"replied"}
  /\ memoryFile'.list \in Seq(Nat)
  /\ ~memoryFile'.torn => reported' \ overlapped' \subseteq ToSet(memoryFile'.list)
  /\ overlapped \subseteq overlapped' /\ reported \subseteq reported'
  /\ thread'[t].pc \in ChatPC => NoteOf(t)'
  /\ thread'[t].pc = "replied" => ChatIsTrue(t)'
  /\ \A o \in Threads \ {t} : thread[o].pc \in AddPC =>
       /\ reported' \ overlapped' \subseteq ToSet(thread[o].data)
       /\ thread'[t].pc \in AddPC => thread'[t].note \in overlapped' /\ thread[o].note \in overlapped'

LEMMA NoteStepKept ==
  ASSUME ThreadsInv, ChatInv, NEW t \in Threads, NoteStep(t)
  PROVE  ChatInv'
<1>1. /\ \A u \in Threads \ {t} : thread'[u] = thread[u]
      /\ overlapped \subseteq overlapped' /\ reported \subseteq reported'
  BY DEF NoteStep, Only
<1>2. ASSUME NEW u \in Threads, thread'[u].pc \in ChatPC
      PROVE  NoteOf(u)'
  <2>1. CASE u # t
    <3>1. thread'[u] = thread[u] /\ NoteOf(u)
      BY <1>1, <1>2, <2>1 DEF ChatInv
    <3>2. thread[u].pc \in AddPC => reported' \ overlapped' \subseteq ToSet(thread[u].data)
      BY <2>1 DEF NoteStep
    <3> QED BY <3>1, <3>2 DEF NoteOf, AddPC
  <2> QED BY <1>2, <2>1 DEF NoteStep
<1>3. ASSUME NEW u \in Threads, NEW o \in Threads, u # o, thread'[u].pc \in AddPC, thread'[o].pc \in AddPC
      PROVE  thread'[u].note \in overlapped'
  <2>1. \A v, w \in Threads : v # w /\ thread[v].pc \in AddPC /\ thread[w].pc \in AddPC => thread[v].note \in overlapped
    BY DEF ChatInv, Adding, AddPC
  <2>2. \A w \in Threads \ {t} : thread[w].pc \in AddPC /\ thread'[t].pc \in AddPC =>
          thread'[t].note \in overlapped' /\ thread[w].note \in overlapped'
    BY DEF NoteStep
  <2> QED BY <1>1, <1>3, <2>1, <2>2
<1>4. ASSUME NEW u \in Threads, thread'[u].pc = "replied", thread'[u].op \in {"chat", "upload"}
      PROVE  ChatIsTrue(u)'
  <2>1. CASE u # t
    <3>1. thread'[u] = thread[u] /\ ChatIsTrue(u)
      BY <1>1, <1>4, <2>1 DEF ChatInv, ChatsHoldTogether, Replied, At
    <3> QED BY <1>1, <3>1 DEF ChatIsTrue
  <2> QED BY <1>4, <2>1 DEF NoteStep
<1>5. ChatsHoldTogether'
  BY <1>4 DEF NoteStep, ChatsHoldTogether, Replied, At
<1>6. memoryFile'.list \in Seq(Nat)
  BY DEF NoteStep
<1> QED BY <1>2, <1>3, <1>5, <1>6 DEF ChatInv, Adding, AddPC

\* A step that leaves the memory alone and is none of adding a note.
LEMMA ChatOnly ==
  ASSUME ThreadsInv, ChatInv, NEW t \in Threads, Only(t), UNCHANGED chatVars,
         thread'[t].pc \in (ChatPC \ AddPC) \cup {"replied"},
         thread'[t].pc \in ChatPC => NoteOf(t)',
         thread'[t].pc = "replied" => ChatIsTrue(t)'
  PROVE  ChatInv'
<1>1. memoryFile' = memoryFile /\ reported' = reported /\ overlapped' = overlapped
  BY DEF chatVars
<1>2. /\ memoryFile.list \in Seq(Nat)
      /\ ~memoryFile.torn => reported \ overlapped \subseteq ToSet(memoryFile.list)
      /\ \A o \in Threads : thread[o].pc \in AddPC => reported \ overlapped \subseteq ToSet(thread[o].data)
  BY DEF ChatInv, ChatsHoldTogether, NoteOf, AddPC, ChatPC
<1>3. thread'[t].pc \notin AddPC /\ thread'[t].pc \in ChatPC \cup {"replied"}
  BY DEF AddPC
<1>4. /\ memoryFile'.list \in Seq(Nat)
      /\ ~memoryFile'.torn => reported' \ overlapped' \subseteq ToSet(memoryFile'.list)
      /\ \A o \in Threads : thread[o].pc \in AddPC => reported' \ overlapped' \subseteq ToSet(thread[o].data)
      /\ overlapped \subseteq overlapped' /\ reported \subseteq reported'
  BY <1>1, <1>2
<1>5. NoteStep(t)
  BY <1>3, <1>4 DEF NoteStep
<1> QED BY <1>5, NoteStepKept

LEMMA ChatServed ==
  ASSUME ThreadsInv, WorkspacesInv, ChatInv, NEW t \in Threads, ServeChat(t)
  PROVE  ChatInv'
<1>1. CASE RequestChat(t)
  <2>1. /\ Only(t) /\ ChatFields \subseteq DOMAIN thread'[t]
        /\ thread'[t].pc = "prepare" /\ thread'[t].op \in {"chat", "upload"}
        /\ thread'[t].prompt \in Prompts /\ thread'[t].upload \in Uploads /\ thread'[t].note = began + 1
        /\ thread'[t].shown = "none" /\ UNCHANGED chatVars
    BY <1>1, ChatStarts
  <2>2. thread'[t].note \in Nat
    <3>1. began \in Nat
      BY Counted
    <3> QED BY <2>1, <3>1
  <2>3. NoteOf(t)'
    BY <2>1, <2>2 DEF NoteOf, ChatFields
  <2> QED BY <2>1, <2>3, ChatOnly DEF ChatPC, AddPC
<1>2. CASE Prepare(t)
  <2>1. NoteOf(t)
    BY <1>2, ChatPrepares, FieldsAre DEF ChatPC
  <2>2. NoteOf(t)' /\ thread'[t].pc \in {"context", "model"}
    BY <1>2, <2>1, ChatPrepares DEF NoteOf, ChatGoesOn, ChatFields
  <2> QED BY <1>2, <2>2, ChatPrepares, ChatOnly DEF ChatPC, AddPC, ChatGoesOn
<1>3. CASE ShowFile(t) \/ AskTree(t) \/ Tree(t)
  <2>1. CASE AskTree(t)
    <3>1. NoteOf(t)
      BY <2>1, ChatAsksTree, FieldsAre DEF ChatPC
    <3>2. thread[t].id # "none" /\ FolderOf(thread[t].id) = thread[t].root
      BY <2>1, <3>1, ChatAsksTree DEF NoteOf
    <3>3. NoteOf(t)' /\ thread'[t].pc = "tree"
      BY <2>1, <3>1, <3>2, ChatAsksTree DEF NoteOf, ChatGoesOn, ChatFields
    <3> QED BY <2>1, <3>3, ChatAsksTree, ChatOnly DEF ChatPC, AddPC, ChatGoesOn
  <2>2. CASE ShowFile(t) \/ Tree(t)
    <3>1. /\ thread[t].pc \in {"context", "tree"} /\ thread'[t].pc = "model"
          /\ ChatGoesOn(t) /\ ShownIs(thread'[t]) /\ UNCHANGED chatVars
      BY <2>2, ChatShowsFile, ChatShowsTree
    <3>2. NoteOf(t)
      BY <3>1, FieldsAre DEF ChatPC
    <3>3. NoteOf(t)'
      BY <3>1, <3>2 DEF NoteOf, ShownIs, ChatGoesOn, ChatFields
    <3> QED BY <3>1, <3>3, ChatOnly DEF ChatPC, AddPC, ChatGoesOn
  <2> QED BY <1>3, <2>1, <2>2
<1>4. CASE Model(t)
  <2>1. thread[t].pc = "model" /\ UNCHANGED chatVars /\ thread[t].pc \in ChatPC
    BY <1>4 DEF Model, At, ChatPC
  <2>2. CASE Goto(t, "load memory")
    <3>1. NoteOf(t)
      BY <2>1, FieldsAre
    <3>2. /\ ChatGoesOn(t) /\ thread'[t].pc = "load memory" /\ ChatFields \subseteq DOMAIN thread[t]
          /\ \A x \in DOMAIN thread[t] : x # "pc" => x \in DOMAIN thread'[t] /\ thread'[t][x] = thread[t][x]
      BY <2>1, <2>2, ChatGoesTo, FieldsAre
    <3>3. /\ thread'[t].root = thread[t].root /\ thread'[t].shown = thread[t].shown
          /\ thread'[t].pointed = thread[t].pointed /\ thread'[t].seen = thread[t].seen
      BY <3>2 DEF ChatFields
    <3>4. NoteOf(t)' /\ Only(t)
      BY <3>1, <3>2, <3>3 DEF NoteOf, ChatGoesOn, ChatFields
    <3> QED BY <2>1, <3>2, <3>4, ChatOnly DEF ChatPC, AddPC
  <2>3. CASE Answered(t, TRUE, FALSE) \/ Answered(t, FALSE, FALSE)
    <3>1. Only(t) /\ thread'[t].pc = "replied" /\ ChatIsTrue(t)'
      BY <2>1, <2>3, AnswerIs
    <3> QED BY <2>1, <3>1, ChatOnly DEF ChatPC
  <2> QED BY <1>4, <2>2, <2>3 DEF Model
<1>5. CASE LoadMemory(t)
  <2>1. thread[t].pc = "load memory" /\ UNCHANGED <<memoryFile, reported>> /\ thread[t].pc \in ChatPC
    BY <1>5 DEF LoadMemory, At, ChatPC
  <2>2. CASE memoryFile.torn
    <3>1. Answered(t, FALSE, FALSE) /\ UNCHANGED chatVars
      BY <1>5, <2>1, <2>2 DEF LoadMemory, chatVars
    <3>2. Only(t) /\ thread'[t].pc = "replied" /\ ChatIsTrue(t)'
      BY <2>1, <3>1, AnswerIs
    <3> QED BY <3>1, <3>2, ChatOnly DEF ChatPC
  <2>3. CASE ~memoryFile.torn
    <3> DEFINE r == [x \in DOMAIN thread[t] \cup {"data"} |->
                       IF x = "data" THEN memoryFile.list ELSE IF x = "pc" THEN "add note" ELSE thread[t][x]]
    <3>1. /\ Become(t, r)
          /\ overlapped' = IF Adding = {} THEN overlapped ELSE overlapped \cup NotesOf(Adding \cup {t})
      BY <1>5, <2>3 DEF LoadMemory
    <3>2. ChatFields \subseteq DOMAIN thread[t] /\ NoteOf(t)
      BY <2>1, FieldsAre
    <3>3. /\ ChatFields \cup {"data"} \subseteq DOMAIN r /\ r.pc = "add note" /\ r.data = memoryFile.list
          /\ r.op = thread[t].op /\ r.prompt = thread[t].prompt /\ r.upload = thread[t].upload
          /\ r.note = thread[t].note /\ r.root = thread[t].root /\ r.shown = thread[t].shown
          /\ r.pointed = thread[t].pointed /\ r.seen = thread[t].seen
      BY <3>2 DEF ChatFields
    <3> HIDE DEF r
    <3>4. thread'[t] = r /\ Only(t)
      BY <3>1, BecomeIs
    <3>5. overlapped \subseteq overlapped'
      BY <3>1
    <3>6. /\ memoryFile.list \in Seq(Nat)
          /\ reported \ overlapped \subseteq ToSet(memoryFile.list)
          /\ \A o \in Threads : thread[o].pc \in AddPC => reported \ overlapped \subseteq ToSet(thread[o].data)
      BY <2>3 DEF ChatInv, ChatsHoldTogether, NoteOf, AddPC, ChatPC
    <3>7. ASSUME NEW o \in Threads \ {t}, thread[o].pc \in AddPC
          PROVE  thread'[t].note \in overlapped' /\ thread[o].note \in overlapped'
      <4>1. o \in Adding /\ t \in Adding \cup {t}
        BY <3>7 DEF Adding, AddPC
      <4>2. overlapped' = overlapped \cup {thread[u].note : u \in Adding \cup {t}}
        BY <3>1, <4>1 DEF NotesOf
      <4> HIDE DEF r
      <4> QED BY <3>3, <3>4, <4>1, <4>2
    <3>8. NoteOf(t)'
      BY <2>1, <3>2, <3>3, <3>4, <3>5, <3>6 DEF NoteOf, ChatFields
    <3>9. NoteStep(t)
      BY <2>1, <3>3, <3>4, <3>5, <3>6, <3>7, <3>8 DEF NoteStep, ChatPC
    <3> QED BY <3>9, NoteStepKept
  <2> QED BY <2>2, <2>3
<1>6. CASE TruncateMemory(t)
  <2>1. /\ thread[t].pc = "add note" /\ thread[t].pc \in ChatPC /\ Goto(t, "write memory")
        /\ memoryFile' = Torn /\ UNCHANGED <<reported, overlapped>>
    BY <1>6 DEF TruncateMemory, At, ChatPC
  <2>2. /\ NoteOf(t) /\ ChatGoesOn(t) /\ thread'[t].pc = "write memory"
        /\ \A x \in DOMAIN thread[t] : x # "pc" => x \in DOMAIN thread'[t] /\ thread'[t][x] = thread[t][x]
    BY <2>1, ChatGoesTo, FieldsAre
  <2>3. NoteOf(t)'
    BY <2>1, <2>2 DEF NoteOf, ChatGoesOn, ChatFields
  <2>4. memoryFile'.torn /\ memoryFile'.list \in Seq(Nat)
    <3>1. memoryFile'.torn /\ memoryFile'.list = <<>>
      BY <2>1 DEF Torn
    <3> QED BY <3>1
  <2>5. ASSUME NEW o \in Threads \ {t}, thread[o].pc \in AddPC
        PROVE  /\ reported \ overlapped \subseteq ToSet(thread[o].data)
               /\ thread'[t].note \in overlapped /\ thread[o].note \in overlapped
    <3>1. t \in Adding /\ o \in Adding /\ t # o /\ thread[o].pc \in ChatPC
      BY <2>1, <2>5 DEF Adding, AddPC, ChatPC
    <3>2. NoteOf(o) /\ thread[t].note \in overlapped /\ thread[o].note \in overlapped
      BY <3>1 DEF ChatInv
    <3> QED BY <2>2, <2>5, <3>2 DEF NoteOf, AddPC, ChatGoesOn
  <2>6. NoteStep(t)
    BY <2>1, <2>2, <2>3, <2>4, <2>5 DEF NoteStep, ChatGoesOn, ChatPC
  <2> QED BY <2>6, NoteStepKept
<1>7. CASE WriteMemory(t)
  <2>1. /\ thread[t].pc = "write memory" /\ thread[t].pc \in ChatPC /\ Answered(t, TRUE, TRUE)
        /\ memoryFile' = Stored(Append(thread[t].data, thread[t].note))
        /\ reported' = reported \cup {thread[t].note} /\ overlapped' = overlapped
    BY <1>7 DEF WriteMemory, At, ChatPC
  <2>2. Only(t) /\ thread'[t].pc = "replied" /\ ChatIsTrue(t)'
    BY <2>1, AnswerIs
  <2>3. /\ thread[t].data \in Seq(Nat) /\ thread[t].note \in Nat
        /\ reported \ overlapped \subseteq ToSet(thread[t].data)
    BY <2>1, FieldsAre DEF NoteOf
  <2>4. /\ memoryFile'.list \in Seq(Nat)
        /\ ToSet(memoryFile'.list) = ToSet(thread[t].data) \cup {thread[t].note}
    <3>1. memoryFile'.list = Append(thread[t].data, thread[t].note)
      BY <2>1 DEF Stored
    <3> QED BY <2>3, <3>1, ToSetOfAppend
  <2>5. ASSUME NEW o \in Threads \ {t}, thread[o].pc \in AddPC
        PROVE  reported' \ overlapped' \subseteq ToSet(thread[o].data)
    <3>1. t \in Adding /\ o \in Adding /\ t # o /\ thread[o].pc \in ChatPC
      BY <2>1, <2>5 DEF Adding, AddPC, ChatPC
    <3>2. NoteOf(o) /\ thread[t].note \in overlapped
      BY <3>1 DEF ChatInv
    <3> QED BY <2>1, <2>5, <3>2 DEF NoteOf, AddPC
  <2>6. NoteStep(t)
    BY <2>1, <2>2, <2>3, <2>4, <2>5 DEF NoteStep, ChatPC, AddPC
  <2> QED BY <2>6, NoteStepKept
<1> QED BY <1>1, <1>2, <1>3, <1>4, <1>5, <1>6, <1>7 DEF ServeChat, ChatStep

LEMMA ChatMoves ==
  ASSUME ThreadsInv, WorkspacesInv, ChatInv, NEW t \in Threads, ServeChat(t)
  PROVE  /\ Only(t) /\ began' \in {began, began + 1} /\ began' \in 0..traffic.requests
         /\ {"pc", "op"} \subseteq DOMAIN thread'[t]
         /\ thread'[t].pc \in ChatPC \cup {"replied"} /\ thread'[t].op \in {"chat", "upload"}
         /\ thread[t].pc \in ChatPC \cup {"idle", "replied"}
         /\ UNCHANGED <<verifyVars, bridgeVars>>
<1>1. began \in 0..traffic.requests
  BY DEF ThreadsInv
<1>2. CASE RequestChat(t)
  BY <1>2, ChatStarts DEF ChatPC, ServeChat, ChatFields
<1>3. CASE Prepare(t) \/ ShowFile(t) \/ AskTree(t) \/ Tree(t)
  <2>1. thread[t].pc \in ChatPC /\ ChatGoesOn(t) /\ thread'[t].pc \in ChatPC
    BY <1>3, ChatPrepares, ChatShowsFile, ChatAsksTree, ChatShowsTree DEF ChatPC
  <2> QED BY <1>1, <2>1, FieldsAre DEF ChatGoesOn, ServeChat, ChatFields
<1>4. ASSUME NEW ok \in BOOLEAN, NEW k \in BOOLEAN, Answered(t, ok, k), thread[t].pc \in ChatPC,
             k => thread[t].note \in reported'
      PROVE  /\ Only(t) /\ began' = began /\ {"pc", "op"} \subseteq DOMAIN thread'[t]
             /\ thread'[t].pc = "replied" /\ thread'[t].op \in {"chat", "upload"}
  BY <1>4, AnswerIs
<1>5. ASSUME NEW p \in ChatPC, Goto(t, p), thread[t].pc \in ChatPC
      PROVE  /\ Only(t) /\ began' = began /\ {"pc", "op"} \subseteq DOMAIN thread'[t]
             /\ thread'[t].pc = p /\ thread'[t].op \in {"chat", "upload"}
  BY <1>5, ChatGoesTo, FieldsAre DEF ChatGoesOn, ChatFields
<1>6. CASE Model(t)
  <2>1. thread[t].pc \in ChatPC /\ "load memory" \in ChatPC
    BY <1>6 DEF Model, At, ChatPC
  <2> QED BY <1>1, <1>4, <1>5, <1>6, <2>1 DEF Model, ServeChat
<1>7. CASE LoadMemory(t)
  <2>1. thread[t].pc \in ChatPC
    BY <1>7 DEF LoadMemory, At, ChatPC
  <2>2. CASE memoryFile.torn
    BY <1>1, <1>4, <1>7, <2>1, <2>2 DEF LoadMemory, ServeChat
  <2>3. CASE ~memoryFile.torn
    <3> DEFINE r == [x \in DOMAIN thread[t] \cup {"data"} |->
                       IF x = "data" THEN memoryFile.list ELSE IF x = "pc" THEN "add note" ELSE thread[t][x]]
    <3>1. Become(t, r)
      BY <1>7, <2>3 DEF LoadMemory
    <3>2. {"pc", "op"} \subseteq DOMAIN thread[t] /\ thread[t].op \in {"chat", "upload"}
      BY <2>1, FieldsAre DEF ChatFields
    <3>3. {"pc", "op"} \subseteq DOMAIN r /\ r.pc = "add note" /\ r.op = thread[t].op
      BY <3>2
    <3> HIDE DEF r
    <3> QED BY <1>1, <2>1, <3>1, <3>2, <3>3, BecomeIs DEF ServeChat, ChatPC
  <2> QED BY <2>2, <2>3
<1>8. CASE TruncateMemory(t)
  <2>1. thread[t].pc \in ChatPC /\ "write memory" \in ChatPC
    BY <1>8 DEF TruncateMemory, At, ChatPC
  <2> QED BY <1>1, <1>5, <1>8, <2>1 DEF TruncateMemory, ServeChat
<1>9. CASE WriteMemory(t)
  <2>1. thread[t].pc \in ChatPC /\ thread[t].note \in reported'
    BY <1>9 DEF WriteMemory, At, ChatPC
  <2> QED BY <1>1, <1>4, <1>9, <2>1 DEF WriteMemory, ServeChat
<1> QED BY <1>2, <1>3, <1>6, <1>7, <1>8, <1>9 DEF ServeChat, ChatStep
-----------------------------------------------------------------------------
(* The decision of a debate                                                *)

LEMMA RuleIsATool ==
  ASSUME NEW hits \in SUBSET DOMAIN Rules
  PROVE  FirstRule(hits) \in Tools
<1>1. CASE hits = {}
  BY <1>1 DEF FirstRule, Tools
<1>2. CASE hits # {}
  <2>1. DOMAIN Rules = 1..8 /\ \A i \in 1..8 : Rules[i] \in Tools
    BY DEF Rules, Tools
  <2>2. Min(hits) \in hits
    BY <1>2, <2>1, First
  <2> QED BY <1>2, <2>1, <2>2 DEF FirstRule
<1> QED BY <1>1, <1>2

LEMMA ToolIsATool ==
  ASSUME NEW text
  PROVE  /\ HeuristicTool(text) \in Tools /\ NormalizeTool(text) \in Tools
         /\ ServiceOnly \cap text = {} => HeuristicTool(text) = classify(text)
<1>1. HeuristicTool(text) \in Tools
  BY RuleIsATool DEF HeuristicTool
<1>2. NormalizeTool(text) \in Tools
  BY <1>1 DEF NormalizeTool
<1>3. ASSUME ServiceOnly \cap text = {}
      PROVE  HeuristicTool(text) = classify(text)
  <2>1. \A i \in DOMAIN Rules : Words(Rules[i]) \cap text = (Words(Rules[i]) \ ServiceOnly) \cap text
    BY <1>3
  <2>2. {i \in DOMAIN Rules : Words(Rules[i]) \cap text # {}}
          = {i \in DOMAIN Rules : (Words(Rules[i]) \ ServiceOnly) \cap text # {}}
    BY <2>1
  <2> QED BY <2>2 DEF HeuristicTool, classify
<1> QED BY <1>1, <1>2, <1>3

LEMMA DecisionIsHeard ==
  ASSUME NEW n \in Nat, NEW rs, DOMAIN rs = 1..n,
         \A i \in 1..n : rs[i].said \in 0..2 /\ rs[i].role \in {"planner", "coder", "reviewer", "default"},
         NEW q, NEW j
  PROVE  IsHeard(Decision(q, rs, j), j, rs, q)
<1> DEFINE heard == {i \in DOMAIN rs : rs[i].said > 0}
           d == Decision(q, rs, j)
<1>1. heard \in SUBSET (1..n) /\ Heard(rs) = heard
  BY DEF Heard
<1>2. /\ d.winner = IF j.winner \in {"absent", ""} THEN BestRole(rs) ELSE j.winner
      /\ d.tool = IF j.tool \in {{"absent"}, {}} THEN HeuristicTool(q) ELSE NormalizeTool(j.tool)
      /\ d.answer = IF j.answer \in {"absent", ""} THEN FallbackAnswer(rs) ELSE j.answer
  BY DEF Decision
<1> HIDE DEF heard, d
<1>3. ASSUME heard # {}
      PROVE  \E i \in heard : rs[i].role = BestRole(rs)
  <2>1. Longest(rs) # {} /\ Longest(rs) \in SUBSET heard
    <3> DEFINE S == {rs[i].said : i \in heard}
    <3>0. \A i \in heard : i \in 1..n /\ rs[i].said \in 0..2 /\ rs[i].said > 0
      BY <1>1 DEF heard
    <3>1. S \in SUBSET (1..2) /\ S # {}
      <4>1. \A i \in heard : rs[i].said \in 1..2
        BY <3>0
      <4> QED BY <1>3, <4>1
    <3> HIDE DEF S
    <3>2. Max(S) \in S /\ \A x \in S : x <= Max(S)
      BY <3>1, Latest
    <3>3. PICK i \in heard : Max(S) = rs[i].said
      BY <3>2 DEF S
    <3>4. \A k \in heard : rs[k].said <= rs[i].said
      BY <3>2, <3>3 DEF S
    <3> QED BY <1>1, <3>3, <3>4 DEF Longest
  <2>2. Min(Longest(rs)) \in heard
    <3>1. Longest(rs) \in SUBSET Nat
      <4>1. heard \in SUBSET Nat
        BY <1>1
      <4> QED BY <2>1, <4>1
    <3> QED BY <2>1, <3>1, First
  <2>3. CASE \E i \in heard : rs[i].role = "reviewer"
    BY <1>1, <1>3, <2>3 DEF BestRole
  <2>4. CASE ~\E i \in heard : rs[i].role = "reviewer"
    BY <1>1, <1>3, <2>2, <2>4 DEF BestRole
  <2> QED BY <2>3, <2>4
<1>4. ASSUME heard # {}
      PROVE  \E i \in heard : FallbackAnswer(rs) = rs[i].role /\ \A k \in heard : k <= i
  <2>1. Max(heard) \in heard /\ \A k \in heard : k <= Max(heard)
    BY <1>1, <1>4, Latest
  <2> QED BY <1>1, <1>4, <2>1 DEF FallbackAnswer
<1>5. FallbackAnswer(rs) \notin {"absent", ""}
  <2>1. CASE heard = {}
    BY <1>1, <2>1 DEF FallbackAnswer
  <2>2. CASE heard # {}
    BY <1>1, <1>4, <2>2
  <2> QED BY <2>1, <2>2
<1>6. d.tool \in Tools
  BY <1>2, ToolIsATool
<1>7. j.tool \in {{"absent"}, {}} /\ ServiceOnly \cap q = {} => d.tool = classify(q)
  BY <1>2, ToolIsATool
<1>8. d.answer \notin {"absent", ""}
  BY <1>2, <1>5
<1> QED BY <1>1, <1>2, <1>3, <1>4, <1>6, <1>7, <1>8 DEF IsHeard, Heard, d
-----------------------------------------------------------------------------
(* The debates                                                             *)

\* Before the file of a debate is written, and between the reading of the index and its writing.
Early == {"refuse", "debate", "decided", "truncate debate", "write debate"}
IndexPC == {"truncate index", "write index"}

\* t goes on with its debate.
DebateGoesOn(t) ==
  /\ Only(t) /\ began' = began
  /\ {"pc", "op", "debate"} \subseteq DOMAIN thread'[t]
  /\ thread'[t].op = thread[t].op /\ thread'[t].debate = thread[t].debate

LEMMA DebateFields ==
  ASSUME ThreadsInv, BridgeInv, NEW t \in Threads, thread[t].pc \in BridgePC
  PROVE  /\ DebateOf(t) /\ {"pc", "op", "debate"} \subseteq DOMAIN thread[t]
         /\ thread[t].op \in {"consult", "supervise"} /\ thread[t].debate \in 1..began
         /\ thread[t].debate \in 1..MaxRequests /\ thread[t].debate \in Nat
<1>1. DebateOf(t) /\ "pc" \in DOMAIN thread[t]
  BY DEF ThreadsInv, BridgeInv
<1>2. thread[t].debate \in 1..began
  BY <1>1 DEF DebateOf
<1>3. thread[t].debate \in 1..MaxRequests /\ thread[t].debate \in Nat
  BY <1>2, Counted
<1> QED BY <1>1, <1>2, <1>3 DEF DebateOf

LEMMA DebateStarts ==
  ASSUME ThreadsInv, NEW t \in Threads, RequestDebate(t)
  PROVE  /\ Only(t) /\ began' = began + 1 /\ began' \in 0..traffic.requests /\ began' \in 1..MaxRequests
         /\ thread[t].pc \in {"idle", "replied"}
         /\ {"pc", "op", "debate", "question", "panel", "said"} \subseteq DOMAIN thread'[t]
         /\ thread'[t].pc \in {"refuse", "debate"} /\ thread'[t].op \in {"consult", "supervise"}
         /\ thread'[t].debate = began + 1
         /\ thread'[t].panel \in Seq(Names) /\ DOMAIN thread'[t].said = {}
         /\ UNCHANGED bridgeVars
<1>1. PICK q \in Questions :
        Begin(t, [pc |-> IF q.text = {} THEN "refuse" ELSE "debate", op |-> q.op, question |-> q.text,
                  panel |-> IF q.panel = <<>> THEN DefaultPanel ELSE q.panel,
                  debate |-> began + 1, said |-> [i \in {} |-> 0]])
  BY DEF RequestDebate
<1> DEFINE p == IF q.panel = <<>> THEN DefaultPanel ELSE q.panel
           s == [i \in {} |-> 0]
           r == [pc |-> IF q.text = {} THEN "refuse" ELSE "debate", op |-> q.op, question |-> q.text,
                 panel |-> p, debate |-> began + 1, said |-> s]
<1>2. Begin(t, r) /\ UNCHANGED bridgeVars
  BY <1>1 DEF RequestDebate
<1>3. p \in Seq(Names) /\ q.op \in {"consult", "supervise"}
  <2>1. DefaultPanel \in Seq(Names)
    BY BridgeAssumption DEF DefaultPanel
  <2> QED BY <2>1, BridgeAssumption
<1>4. DOMAIN s = {}
  OBVIOUS
<1> HIDE DEF p, s
<1>5. /\ {"pc", "op", "debate", "question", "panel", "said"} \subseteq DOMAIN r
      /\ r.pc \in {"refuse", "debate"} /\ r.op = q.op /\ r.debate = began + 1 /\ r.panel = p /\ r.said = s
  OBVIOUS
<1> HIDE DEF r
<1>6. /\ Only(t) /\ thread'[t] = r /\ thread[t].pc \in {"idle", "replied"}
      /\ began' = began + 1 /\ began' \in 0..traffic.requests /\ began' \in 1..MaxRequests
  BY <1>2, BeginIs
<1> QED BY <1>2, <1>3, <1>4, <1>5, <1>6

LEMMA DebateReplied ==
  ASSUME ThreadsInv, BridgeInv, NEW t \in Threads, Refuse(t) \/ Serve(t)
  PROVE  /\ thread[t].pc \in BridgePC \ {"learn"} /\ Only(t) /\ began' = began
         /\ {"pc", "op"} \subseteq DOMAIN thread'[t] /\ thread'[t].pc = "replied"
         /\ thread'[t].op \in {"consult", "supervise"} /\ UNCHANGED bridgeVars
<1>1. PICK s : Reply(t, s)
  BY DEF Refuse, Serve
<1>2. thread[t].pc \in BridgePC \ {"learn"} /\ UNCHANGED bridgeVars
  BY DEF Refuse, Serve, At, BridgePC
<1> DEFINE r == [pc |-> "replied", op |-> thread[t].op, status |-> s]
<1>3. Become(t, r)
  BY <1>1 DEF Reply
<1>4. {"pc", "op"} \subseteq DOMAIN r /\ r.pc = "replied" /\ r.op = thread[t].op
  OBVIOUS
<1> HIDE DEF r
<1>5. thread[t].op \in {"consult", "supervise"}
  BY <1>2, DebateFields
<1> QED BY <1>2, <1>3, <1>4, <1>5, BecomeIs

LEMMA ParticipantSpeaks ==
  ASSUME ThreadsInv, BridgeInv, NEW t \in Threads, Participant(t)
  PROVE  /\ thread[t].pc = "debate" /\ thread'[t].pc = "debate" /\ DebateGoesOn(t) /\ UNCHANGED bridgeVars
         /\ DebateOf(t)'
<1>1. PICK i \in DOMAIN thread[t].panel \ DOMAIN thread[t].said : \E said \in 0..2 :
        Become(t, [thread[t] EXCEPT !.said = [j \in DOMAIN @ \cup {i} |-> IF j = i THEN said ELSE @[j]]])
  BY DEF Participant
<1>2. PICK said \in 0..2 :
        Become(t, [thread[t] EXCEPT !.said = [j \in DOMAIN @ \cup {i} |-> IF j = i THEN said ELSE @[j]]])
  BY <1>1
<1>3. thread[t].pc = "debate" /\ thread[t].pc \in BridgePC /\ UNCHANGED bridgeVars
  BY DEF Participant, At, BridgePC
<1>4. DebateOf(t) /\ {"pc", "op", "debate"} \subseteq DOMAIN thread[t]
  BY <1>3, DebateFields
<1> DEFINE old == thread[t].said
           s == [j \in DOMAIN old \cup {i} |-> IF j = i THEN said ELSE old[j]]
           r == [thread[t] EXCEPT !.said = s]
<1>5. Become(t, r)
  BY <1>2
<1>6. DOMAIN s \subseteq DOMAIN thread[t].panel /\ \A j \in DOMAIN s : s[j] \in 0..2
  <2>1. DOMAIN old \subseteq DOMAIN thread[t].panel /\ \A j \in DOMAIN old : old[j] \in 0..2
    BY <1>3, <1>4 DEF DebateOf
  <2> HIDE DEF old
  <2> QED BY <2>1
<1> HIDE DEF s
<1>7. /\ DOMAIN r = DOMAIN thread[t] /\ r.pc = "debate" /\ r.op = thread[t].op /\ r.debate = thread[t].debate
      /\ r.panel = thread[t].panel /\ r.said = s
  BY <1>3, <1>4 DEF DebateOf
<1> HIDE DEF r
<1>8. thread'[t] = r /\ Only(t) /\ began' = began
  BY <1>5, BecomeIs
<1>9. DebateOf(t)'
  BY <1>3, <1>4, <1>6, <1>7, <1>8 DEF DebateOf
<1> QED BY <1>3, <1>4, <1>7, <1>8, <1>9 DEF DebateGoesOn

LEMMA JudgeDecides ==
  ASSUME ThreadsInv, BridgeInv, NEW t \in Threads, Judge(t)
  PROVE  /\ thread[t].pc = "debate" /\ thread'[t].pc = "decided" /\ DebateGoesOn(t) /\ UNCHANGED bridgeVars
         /\ IsHeard(thread'[t].decision, thread'[t].judge, thread'[t].results, thread'[t].question)
<1>1. PICK j \in Judgements \cup {NoJudge} :
        Become(t, [pc |-> "decided", op |-> thread[t].op, debate |-> thread[t].debate,
                   question |-> thread[t].question, judge |-> j, results |-> Results(t),
                   decision |-> Decision(thread[t].question, Results(t), j)])
  BY DEF Judge
<1>2. /\ thread[t].pc = "debate" /\ thread[t].pc \in BridgePC /\ UNCHANGED bridgeVars
      /\ DOMAIN thread[t].said = DOMAIN thread[t].panel
  BY DEF Judge, At, BridgePC
<1> DEFINE rs == Results(t)
           d == Decision(thread[t].question, rs, j)
           r == [pc |-> "decided", op |-> thread[t].op, debate |-> thread[t].debate,
                 question |-> thread[t].question, judge |-> j, results |-> rs, decision |-> d]
<1>3. IsHeard(d, j, rs, thread[t].question)
  <2>1. /\ thread[t].panel \in Seq(Names)
        /\ \A i \in DOMAIN thread[t].said : thread[t].said[i] \in 0..2
    BY <1>2, DebateFields DEF DebateOf
  <2>2. DOMAIN thread[t].panel = 1..Len(thread[t].panel) /\ Len(thread[t].panel) \in Nat
    BY <2>1
  <2>3. DOMAIN rs = 1..Len(thread[t].panel)
    BY <2>2 DEF Results
  <2>4. ASSUME NEW i \in 1..Len(thread[t].panel)
        PROVE  rs[i].said \in 0..2 /\ rs[i].role \in {"planner", "coder", "reviewer", "default"}
    <3>1. rs[i].said = thread[t].said[i] /\ rs[i].role = RoleKey(thread[t].panel[i])
      BY <2>2 DEF Results
    <3>2. thread[t].said[i] \in 0..2
      BY <1>2, <2>1, <2>2
    <3> QED BY <3>1, <3>2 DEF RoleKey
  <2> HIDE DEF rs
  <2> QED BY <2>2, <2>3, <2>4, DecisionIsHeard
<1> HIDE DEF rs, d
<1>4. /\ {"pc", "op", "debate"} \subseteq DOMAIN r /\ r.pc = "decided" /\ r.op = thread[t].op
      /\ r.debate = thread[t].debate /\ r.question = thread[t].question /\ r.judge = j
      /\ r.results = rs /\ r.decision = d
  OBVIOUS
<1>5. Become(t, r)
  BY <1>1 DEF rs, d
<1> HIDE DEF r
<1>6. thread'[t] = r /\ Only(t) /\ began' = began
  BY <1>5, BecomeIs
<1> QED BY <1>2, <1>3, <1>4, <1>6 DEF DebateGoesOn

LEMMA DebateDecided ==
  ASSUME ThreadsInv, NEW t \in Threads, Decided(t)
  PROVE  /\ thread[t].pc = "decided" /\ thread'[t].pc \in {"serve", "truncate debate"}
         /\ DebateGoesOn(t) /\ UNCHANGED bridgeVars
<1> DEFINE r == [pc |-> IF thread[t].op = "consult" THEN "serve" ELSE "truncate debate", op |-> thread[t].op,
                 debate |-> thread[t].debate, confidence |-> thread[t].decision.confidence]
<1>1. Become(t, r) /\ thread[t].pc = "decided" /\ UNCHANGED bridgeVars
  BY DEF Decided, At
<1>2. {"pc", "op", "debate"} \subseteq DOMAIN r /\ r.pc \in {"serve", "truncate debate"}
      /\ r.op = thread[t].op /\ r.debate = thread[t].debate
  OBVIOUS
<1> HIDE DEF r
<1> QED BY <1>1, <1>2, BecomeIs DEF DebateGoesOn

LEMMA DebateGoesTo ==
  ASSUME ThreadsInv, BridgeInv, NEW t \in Threads, thread[t].pc \in BridgePC, NEW p, Goto(t, p)
  PROVE  /\ DebateGoesOn(t) /\ thread'[t].pc = p
         /\ DOMAIN thread'[t] = DOMAIN thread[t]
         /\ "entries" \in DOMAIN thread[t] => thread'[t].entries = thread[t].entries
<1>1. {"pc", "op", "debate"} \subseteq DOMAIN thread[t]
  BY DebateFields
<1> QED BY <1>1, GotoIs DEF DebateGoesOn

LEMMA IndexIsRead ==
  ASSUME ThreadsInv, BridgeInv, NEW t \in Threads, ReadIndex(t)
  PROVE  /\ thread[t].pc = "read index" /\ thread'[t].pc = "truncate index"
         /\ Only(t) /\ began' = began /\ {"pc", "op", "debate", "entries"} \subseteq DOMAIN thread'[t]
         /\ thread'[t].op = "supervise" /\ thread'[t].debate = thread[t].debate
         /\ thread'[t].entries = index.entries
         /\ overlaps' = (IF Indexing = {} THEN overlaps ELSE overlaps \cup Debates(Indexing \cup {t}))
         /\ (forgotten' <=> forgotten \/ index.torn)
         /\ UNCHANGED <<kept, index, learning, unended, recorded>>
<1> DEFINE r == [pc |-> "truncate index", op |-> "supervise", debate |-> thread[t].debate,
                 entries |-> index.entries, confidence |-> thread[t].confidence]
<1>1. Become(t, r)
  BY DEF ReadIndex, Become
<1>2. {"pc", "op", "debate", "entries"} \subseteq DOMAIN r /\ r.pc = "truncate index"
      /\ r.op = "supervise" /\ r.debate = thread[t].debate /\ r.entries = index.entries
  OBVIOUS
<1> HIDE DEF r
<1>3. Only(t) /\ began' = began /\ thread'[t] = r
  BY <1>1, BecomeIs
<1> QED BY <1>2, <1>3 DEF ReadIndex, At
LEMMA BridgeAside ==
  ASSUME ThreadsInv, BridgeInv, UNCHANGED bridgeVars, Aside(BridgePC, {})
  PROVE  BridgeInv'
<1>1. /\ DOMAIN thread' = Threads /\ crashes' = crashes /\ began \in Nat /\ began' \in Nat /\ began <= began'
      /\ kept' = kept /\ index' = index /\ learning' = learning /\ unended' = unended
      /\ recorded' = recorded /\ overlaps' = overlaps /\ forgotten' = forgotten
      /\ \A u \in Threads : thread'[u].pc \in BridgePC \/ thread[u].pc \in BridgePC => thread'[u] = thread[u]
  BY DEF Aside, bridgeVars
<1>2. Indexed' = Indexed
  <2>1. \A u \in Threads : thread'[u].pc = "learn" \/ thread[u].pc = "learn" => thread'[u] = thread[u]
    BY <1>1 DEF BridgePC
  <2>2. {u \in Threads : thread'[u].pc = "learn"} = {u \in Threads : thread[u].pc = "learn"}
    BY <2>1
  <2>3. {thread'[u].debate : u \in {o \in Threads : thread'[o].pc = "learn"}}
          = {thread[u].debate : u \in {o \in Threads : thread[o].pc = "learn"}}
    BY <2>1, <2>2
  <2> QED BY <1>1, <2>3 DEF Indexed, At
<1>3. ASSUME NEW ns, Settled(ns)
      PROVE  Settled(ns)'
  <2>1. \A n \in ns : n \in 1..began /\ kept[n] = "whole"
    BY <1>3 DEF Settled
  <2>2. \A n \in ns : n \in 1..began'
    BY <1>1, <2>1
  <2>3. \A u \in Threads : thread'[u].pc \in Early => thread'[u] = thread[u]
    BY <1>1 DEF Early, BridgePC
  <2> QED BY <1>1, <1>3, <2>1, <2>2, <2>3 DEF Settled, Early
<1>4. ASSUME NEW u \in Threads, thread'[u].pc \in BridgePC
      PROVE  DebateOf(u)'
  <2>1. thread'[u] = thread[u] /\ DebateOf(u)
    BY <1>1, <1>4 DEF BridgeInv
  <2>2. thread[u].debate \in 1..began => thread[u].debate \in 1..began'
    BY <1>1
  <2>3. thread[u].pc \in IndexPC => Settled(thread[u].entries)'
    BY <1>3, <2>1 DEF DebateOf, IndexPC
  <2> QED BY <1>1, <1>2, <2>1, <2>2, <2>3 DEF DebateOf, IndexPC
<1>5. ASSUME NEW u \in Threads, NEW o \in Threads, u # o, thread'[u].pc \in BridgePC, thread'[o].pc \in BridgePC
      PROVE  thread'[u].debate # thread'[o].debate
  BY <1>1, <1>5 DEF BridgeInv
<1>6. IndexInv'
  <2>1. Settled(index.entries)'
    BY <1>1, <1>3 DEF BridgeInv, IndexInv
  <2>2. ASSUME NEW u \in Threads, NEW o \in Threads, u # o, thread'[u].pc \in IndexPC, thread'[o].pc \in IndexPC
        PROVE  thread'[u].debate \in overlaps'
    <3>1. thread'[u] = thread[u] /\ thread'[o] = thread[o]
      BY <1>1, <2>2 DEF IndexPC, BridgePC
    <3> QED BY <1>1, <2>2, <3>1 DEF BridgeInv, IndexInv, Indexing, IndexPC
  <2> QED BY <1>1, <1>2, <2>1, <2>2 DEF BridgeInv, IndexInv, Indexing, IndexPC
<1>7. LearningInv'
  <2>1. LearningInv
    BY DEF BridgeInv
  <2>2. recorded' \subseteq 1..began'
    <3>1. recorded \subseteq 1..began
      BY <2>1 DEF LearningInv
    <3>2. \A n \in 1..began : n \in 1..began'
      BY <1>1
    <3> QED BY <1>1, <3>1, <3>2
  <2> QED BY <1>1, <2>1, <2>2 DEF LearningInv, Listed
<1>8. DebatesAreHeard'
  <2>1. \A u \in Threads : thread'[u].pc = "decided" => thread'[u] = thread[u]
    BY <1>1 DEF BridgePC
  <2> QED BY <2>1 DEF BridgeInv, DebatesAreHeard
<1>9. DOMAIN kept' = 1..MaxRequests
  BY <1>1 DEF BridgeInv
<1> QED BY <1>4, <1>5, <1>6, <1>7, <1>8, <1>9 DEF BridgeInv

\* A debate whose file is whole and that nobody is to write keeps it, whatever t does.
DebatesKept(t) ==
  \A n \in 1..began :
    kept[n] = "whole" /\ (thread[t].pc \in Early => thread[t].debate # n) =>
      kept'[n] = "whole" /\ (thread'[t].pc \in Early => thread'[t].debate # n)

LEMMA StaysSettled ==
  ASSUME ThreadsInv, NEW t \in Threads, Only(t), began' \in {began, began + 1}, DebatesKept(t),
         NEW ns, Settled(ns)
  PROVE  Settled(ns)'
<1>1. \A n \in ns : n \in 1..began /\ kept[n] = "whole" /\ \A u \in Threads : thread[u].pc \in Early => thread[u].debate # n
  BY DEF Settled, Early
<1>2. \A n \in ns : n \in 1..began'
  BY <1>1, Counted
<1>3. \A n \in ns : kept'[n] = "whole" /\ (thread'[t].pc \in Early => thread'[t].debate # n)
  BY <1>1 DEF DebatesKept
<1>4. \A n \in ns : \A u \in Threads : thread'[u].pc \in Early => thread'[u].debate # n
  BY <1>1, <1>3 DEF Only
<1> QED BY <1>2, <1>3, <1>4 DEF Settled, Early

\* t takes a step of its debate: what is to be shown of it, of the files and of the index.
DebateStep(t) ==
  /\ Only(t) /\ thread'[t].pc \in BridgePC \cup {"replied"} /\ began' \in {began, began + 1}
  /\ DOMAIN kept' = 1..MaxRequests /\ DebatesKept(t)
  /\ thread'[t].pc \in BridgePC => DebateOf(t)'
  /\ overlaps \subseteq overlaps'
  /\ \A o \in Threads \ {t} :
       /\ thread'[t].pc \in BridgePC /\ thread[o].pc \in BridgePC => thread'[t].debate # thread[o].debate
       /\ thread[o].pc \in IndexPC /\ ~forgotten' => Indexed' \ overlaps' \subseteq thread[o].entries
       /\ thread[o].pc \in IndexPC /\ thread'[t].pc \in IndexPC =>
            thread'[t].debate \in overlaps' /\ thread[o].debate \in overlaps'
  /\ Settled(index.entries)'
  /\ ~forgotten' /\ ~index'.torn => Indexed' \ overlaps' \subseteq index'.entries
  /\ LearningInv'
  /\ thread'[t].pc = "decided" =>
       IsHeard(thread'[t].decision, thread'[t].judge, thread'[t].results, thread'[t].question)

LEMMA DebateStepKept ==
  ASSUME ThreadsInv, BridgeInv, NEW t \in Threads, DebateStep(t)
  PROVE  BridgeInv'
<1>1. /\ \A u \in Threads \ {t} : thread'[u] = thread[u]
      /\ overlaps \subseteq overlaps' /\ began' \in {began, began + 1} /\ began \in Nat
  BY Counted DEF DebateStep, Only
<1>2. ASSUME NEW u \in Threads, u # t, thread[u].pc \in BridgePC
      PROVE  DebateOf(u)'
  <2>1. thread'[u] = thread[u] /\ DebateOf(u) /\ thread[u].debate \in 1..began
    BY <1>1, <1>2, DebateFields
  <2>2. thread[u].debate \in 1..began'
    BY <1>1, <2>1
  <2>3. thread[t].pc \in Early => thread[t].debate # thread[u].debate
    BY <1>2 DEF BridgeInv, Early, BridgePC
  <2>4. kept[thread[u].debate] = "whole" => kept'[thread[u].debate] = "whole"
    BY <2>1, <2>3 DEF DebateStep, DebatesKept
  <2>5. thread[u].pc \in IndexPC => Settled(thread[u].entries)'
    BY <1>1, <2>1, StaysSettled DEF DebateOf, IndexPC, DebateStep
  <2>6. thread[u].pc \in IndexPC /\ ~forgotten' => Indexed' \ overlaps' \subseteq thread[u].entries
    BY <1>2 DEF DebateStep
  <2>7. DebateOf(u)' <=>
          LET r == thread[u]
          IN /\ {"op", "debate"} \subseteq DOMAIN r /\ r.op \in {"consult", "supervise"} /\ r.debate \in 1..began'
             /\ r.pc = "debate" =>
                  /\ {"question", "panel", "said"} \subseteq DOMAIN r
                  /\ r.panel \in Seq(Names) /\ DOMAIN r.said \subseteq DOMAIN r.panel
                  /\ \A i \in DOMAIN r.said : r.said[i] \in 0..2
             /\ r.pc \in {"read index", "truncate index", "write index", "learn"} => kept'[r.debate] = "whole"
             /\ r.pc \in IndexPC =>
                  /\ "entries" \in DOMAIN r /\ Settled(r.entries)'
                  /\ ~forgotten' => Indexed' \ overlaps' \subseteq r.entries
    BY <2>1 DEF DebateOf, IndexPC, Settled
  <2> QED BY <2>1, <2>2, <2>4, <2>5, <2>6, <2>7 DEF DebateOf, IndexPC
<1>3. \A u \in Threads : thread'[u].pc \in BridgePC => DebateOf(u)'
  BY <1>1, <1>2 DEF DebateStep
<1>4. ASSUME NEW u \in Threads, NEW o \in Threads, u # o, thread'[u].pc \in BridgePC, thread'[o].pc \in BridgePC
      PROVE  thread'[u].debate # thread'[o].debate
  <2>1. \A v, w \in Threads :
          v # w /\ thread[v].pc \in BridgePC /\ thread[w].pc \in BridgePC => thread[v].debate # thread[w].debate
    BY DEF BridgeInv
  <2>2. \A w \in Threads \ {t} :
          thread'[t].pc \in BridgePC /\ thread[w].pc \in BridgePC => thread'[t].debate # thread[w].debate
    BY DEF DebateStep
  <2> QED BY <1>1, <1>4, <2>1, <2>2
<1>5. ASSUME NEW u \in Threads, NEW o \in Threads, u # o, thread'[u].pc \in IndexPC, thread'[o].pc \in IndexPC
      PROVE  thread'[u].debate \in overlaps'
  <2>1. \A v, w \in Threads : v # w /\ thread[v].pc \in IndexPC /\ thread[w].pc \in IndexPC => thread[v].debate \in overlaps
    BY DEF BridgeInv, IndexInv, Indexing, IndexPC
  <2>2. \A w \in Threads \ {t} : thread[w].pc \in IndexPC /\ thread'[t].pc \in IndexPC =>
          thread'[t].debate \in overlaps' /\ thread[w].debate \in overlaps'
    BY DEF DebateStep
  <2> QED BY <1>1, <1>5, <2>1, <2>2
<1>6. IndexInv'
  BY <1>5 DEF DebateStep, IndexInv, Indexing, IndexPC
<1>7. DebatesAreHeard'
  BY <1>1 DEF DebateStep, BridgeInv, DebatesAreHeard
<1> QED BY <1>3, <1>4, <1>6, <1>7 DEF DebateStep, BridgeInv
LEMMA IndexedStays ==
  ASSUME ThreadsInv, NEW t \in Threads, Only(t), recorded' = recorded,
         thread[t].pc # "learn", thread'[t].pc # "learn"
  PROVE  Indexed' = Indexed
<1>1. \A u \in Threads : thread'[u].pc = "learn" \/ thread[u].pc = "learn" => thread'[u] = thread[u]
  BY DEF Only
<1>2. {u \in Threads : thread'[u].pc = "learn"} = {u \in Threads : thread[u].pc = "learn"}
  BY <1>1
<1>3. {thread'[u].debate : u \in {o \in Threads : thread'[o].pc = "learn"}}
        = {thread[u].debate : u \in {o \in Threads : thread[o].pc = "learn"}}
  BY <1>1, <1>2
<1> QED BY <1>3 DEF Indexed, At

LEMMA LearningStays ==
  ASSUME ThreadsInv, LearningInv, UNCHANGED <<learning, unended, recorded>>, began' \in {began, began + 1},
         crashes' \in Nat, crashes <= crashes'
  PROVE  LearningInv'
<1>1. began \in Nat /\ recorded' \subseteq 1..began /\ crashes \in Nat
  BY Counted DEF LearningInv, ThreadsInv
<1>2. recorded' \subseteq 1..began'
  BY <1>1
<1>3. Listed' = Listed
  BY DEF Listed
<1>4. IsFiniteSet(recorded \ Listed)
  <2>1. IsFiniteSet(1..began)
    BY <1>1, FS_Interval
  <2> QED BY <1>1, <2>1, FS_Subset
<1>5. Cardinality(recorded \ Listed) \in Nat
  BY <1>4, FS_CardinalityType
<1>6. Cardinality(recorded \ Listed) + (IF unended THEN 1 ELSE 0) <= crashes'
  BY <1>1, <1>5 DEF LearningInv
<1> QED BY <1>2, <1>3, <1>6 DEF LearningInv

\* Another at the index has read all that is there, and overlaps t if t is at it, too.
LEMMA OthersAtTheIndex ==
  ASSUME BridgeInv, NEW t \in Threads, NEW o \in Threads \ {t}, thread[o].pc \in IndexPC
  PROVE  /\ ~forgotten => Indexed \ overlaps \subseteq thread[o].entries
         /\ thread[t].pc \in IndexPC => thread[t].debate \in overlaps /\ thread[o].debate \in overlaps
<1>1. DebateOf(o)
  BY DEF BridgeInv, IndexPC, BridgePC
<1>2. t \in Indexing /\ o \in Indexing => thread[t].debate \in overlaps /\ thread[o].debate \in overlaps
  BY DEF BridgeInv, IndexInv
<1> QED BY <1>1, <1>2 DEF DebateOf, IndexPC, Indexing

\* t takes a step of its debate and is not at the index after it.
LEMMA DebateElsewhere ==
  ASSUME ThreadsInv, BridgeInv, NEW t \in Threads,
         Only(t), began' \in {began, began + 1},
         thread[t].pc # "learn", thread'[t].pc \in (BridgePC \ (IndexPC \cup {"learn"})) \cup {"replied"},
         UNCHANGED <<index, learning, unended, recorded, overlaps, forgotten>>,
         DOMAIN kept' = 1..MaxRequests, DebatesKept(t),
         thread'[t].pc \in BridgePC => DebateOf(t)',
         \A o \in Threads \ {t} :
           thread'[t].pc \in BridgePC /\ thread[o].pc \in BridgePC => thread'[t].debate # thread[o].debate,
         thread'[t].pc = "decided" =>
           IsHeard(thread'[t].decision, thread'[t].judge, thread'[t].results, thread'[t].question)
  PROVE  BridgeInv'
<1>1. thread'[t].pc \notin IndexPC /\ thread'[t].pc # "learn" /\ thread'[t].pc \in BridgePC \cup {"replied"}
  BY DEF BridgePC, IndexPC
<1>2. Indexed' = Indexed
  BY <1>1, IndexedStays
<1>3. LearningInv'
  <2>1. LearningInv /\ crashes' = crashes /\ crashes \in Nat
    BY DEF BridgeInv, ThreadsInv, Only
  <2>2. crashes' \in Nat /\ crashes <= crashes'
    BY <2>1
  <2> QED BY <2>1, <2>2, LearningStays
<1>4. Settled(index.entries)'
  <2>1. PICK ns : ns = index.entries /\ Settled(ns)
    BY DEF BridgeInv, IndexInv
  <2>2. Settled(ns)'
    BY <2>1, StaysSettled
  <2>3. index' = index
    OBVIOUS
  <2> QED BY <2>1, <2>2, <2>3 DEF Settled
<1>5. ~forgotten' /\ ~index'.torn => Indexed' \ overlaps' \subseteq index'.entries
  BY <1>2 DEF BridgeInv, IndexInv
<1>6. ASSUME NEW o \in Threads \ {t}, thread[o].pc \in IndexPC, ~forgotten'
      PROVE  Indexed' \ overlaps' \subseteq thread[o].entries
  BY <1>2, <1>6, OthersAtTheIndex
<1>7. DebateStep(t)
  BY <1>1, <1>3, <1>4, <1>5, <1>6 DEF DebateStep
<1> QED BY <1>7, DebateStepKept
\* A step that changes no file, of a debate that goes on as early as it was.
LEMMA DebatesAreKeptBy ==
  ASSUME NEW t \in Threads, kept' = kept, thread[t].pc \in Early \/ thread'[t].pc \notin Early,
         thread'[t].pc \in Early => thread'[t].debate = thread[t].debate
  PROVE  DebatesKept(t)
BY DEF DebatesKept

LEMMA TalkKept ==
  ASSUME ThreadsInv, BridgeInv, NEW t \in Threads,
         RequestDebate(t) \/ Refuse(t) \/ Serve(t) \/ Participant(t) \/ Judge(t) \/ Decided(t)
  PROVE  BridgeInv'
<1>1. DOMAIN kept = 1..MaxRequests
  BY DEF BridgeInv
<1>2. CASE RequestDebate(t)
  <2>1. /\ Only(t) /\ began' = began + 1 /\ thread[t].pc \in {"idle", "replied"}
        /\ {"pc", "op", "debate", "question", "panel", "said"} \subseteq DOMAIN thread'[t]
        /\ thread'[t].pc \in {"refuse", "debate"} /\ thread'[t].op \in {"consult", "supervise"}
        /\ thread'[t].debate = began + 1
        /\ thread'[t].panel \in Seq(Names) /\ DOMAIN thread'[t].said = {}
        /\ UNCHANGED bridgeVars
    BY <1>2, DebateStarts
  <2>2. \A n \in 1..began : began + 1 # n
    BY Counted
  <2>3. began + 1 \in 1..(began + 1)
    BY Counted
  <2>4. DebatesKept(t)
    BY <2>1, <2>2 DEF DebatesKept, bridgeVars
  <2>5. DebateOf(t)'
    BY <2>1, <2>3 DEF DebateOf
  <2>6. \A o \in Threads \ {t} : thread[o].pc \in BridgePC => thread'[t].debate # thread[o].debate
    BY <2>1, <2>2, DebateFields
  <2>7. thread[t].pc # "learn" /\ thread'[t].pc \in BridgePC \ (IndexPC \cup {"learn"}) /\ thread'[t].pc # "decided"
    BY <2>1 DEF BridgePC, IndexPC
  <2>8. UNCHANGED <<index, learning, unended, recorded, overlaps, forgotten>> /\ kept' = kept
    BY <2>1 DEF bridgeVars
  <2> QED BY <1>1, <2>1, <2>4, <2>5, <2>6, <2>7, <2>8, DebateElsewhere
<1>3. CASE Refuse(t) \/ Serve(t)
  <2>1. /\ thread[t].pc \in BridgePC \ {"learn"} /\ Only(t) /\ began' = began
        /\ thread'[t].pc = "replied" /\ UNCHANGED bridgeVars
    BY <1>3, DebateReplied
  <2>2. DebatesKept(t)
    BY <2>1, DebatesAreKeptBy DEF bridgeVars, Early
  <2>3. thread'[t].pc \notin BridgePC /\ thread'[t].pc # "decided" /\ kept' = kept
        /\ UNCHANGED <<index, learning, unended, recorded, overlaps, forgotten>>
    BY <2>1 DEF BridgePC, bridgeVars
  <2> QED BY <1>1, <2>1, <2>2, <2>3, DebateElsewhere
<1>4. ASSUME DebateGoesOn(t), UNCHANGED bridgeVars, thread[t].pc \in Early,
             thread'[t].pc \in BridgePC \ (IndexPC \cup {"learn"}), DebateOf(t)',
             thread'[t].pc = "decided" =>
               IsHeard(thread'[t].decision, thread'[t].judge, thread'[t].results, thread'[t].question)
      PROVE  BridgeInv'
  <2>1. DebatesKept(t)
    BY <1>4, DebatesAreKeptBy DEF bridgeVars, DebateGoesOn
  <2>2. thread[t].pc \in BridgePC /\ thread[t].pc # "learn"
    BY <1>4 DEF Early, BridgePC
  <2>3. \A o \in Threads \ {t} : thread[o].pc \in BridgePC => thread'[t].debate # thread[o].debate
    BY <1>4, <2>2 DEF BridgeInv, DebateGoesOn
  <2>4. Only(t) /\ began' = began /\ kept' = kept
        /\ UNCHANGED <<index, learning, unended, recorded, overlaps, forgotten>>
    BY <1>4 DEF DebateGoesOn, bridgeVars
  <2> QED BY <1>1, <1>4, <2>1, <2>2, <2>3, <2>4, DebateElsewhere
<1>5. ASSUME DebateGoesOn(t), thread[t].pc \in Early, thread'[t].pc \in {"decided", "serve", "truncate debate"}
      PROVE  DebateOf(t)'
  <2>1. thread[t].op \in {"consult", "supervise"} /\ thread[t].debate \in 1..began
    BY <1>5, DebateFields DEF Early, BridgePC
  <2> QED BY <1>5, <2>1 DEF DebateOf, DebateGoesOn
<1>6. CASE Participant(t)
  <2>1. /\ thread[t].pc = "debate" /\ thread'[t].pc = "debate" /\ DebateGoesOn(t) /\ UNCHANGED bridgeVars
        /\ DebateOf(t)'
    BY <1>6, ParticipantSpeaks
  <2>2. thread[t].pc \in Early /\ thread'[t].pc \in BridgePC \ (IndexPC \cup {"learn"}) /\ thread'[t].pc # "decided"
    BY <2>1 DEF Early, BridgePC, IndexPC
  <2> QED BY <1>4, <2>1, <2>2
<1>7. CASE Judge(t)
  <2>1. /\ thread[t].pc = "debate" /\ thread'[t].pc = "decided" /\ DebateGoesOn(t) /\ UNCHANGED bridgeVars
        /\ IsHeard(thread'[t].decision, thread'[t].judge, thread'[t].results, thread'[t].question)
    BY <1>7, JudgeDecides
  <2>2. thread[t].pc \in Early /\ thread'[t].pc \in BridgePC \ (IndexPC \cup {"learn"})
    BY <2>1 DEF Early, BridgePC, IndexPC
  <2>3. DebateOf(t)'
    BY <1>5, <2>1, <2>2
  <2> QED BY <1>4, <2>1, <2>2, <2>3
<1>8. CASE Decided(t)
  <2>1. /\ thread[t].pc = "decided" /\ thread'[t].pc \in {"serve", "truncate debate"}
        /\ DebateGoesOn(t) /\ UNCHANGED bridgeVars
    BY <1>8, DebateDecided
  <2>2. thread[t].pc \in Early /\ thread'[t].pc \in BridgePC \ (IndexPC \cup {"learn"}) /\ thread'[t].pc # "decided"
    BY <2>1 DEF Early, BridgePC, IndexPC
  <2>3. DebateOf(t)'
    BY <1>5, <2>1, <2>2
  <2> QED BY <1>4, <2>1, <2>2, <2>3
<1> QED BY <1>2, <1>3, <1>6, <1>7, <1>8

LEMMA FileIsWritten ==
  ASSUME ThreadsInv, BridgeInv, NEW t \in Threads, DebateGoesOn(t),
         thread[t].pc \in {"truncate debate", "write debate"},
         thread'[t].pc \in {"write debate", "read index"},
         DOMAIN kept' = 1..MaxRequests,
         \A m \in 1..MaxRequests : m # thread[t].debate => kept'[m] = kept[m],
         thread'[t].pc = "read index" => kept'[thread[t].debate] = "whole",
         UNCHANGED <<index, learning, unended, recorded, overlaps, forgotten>>
  PROVE  BridgeInv'
<1>1. thread[t].pc \in BridgePC /\ thread[t].pc \in Early /\ thread[t].pc # "learn"
  BY DEF BridgePC, Early
<1>2. thread[t].op \in {"consult", "supervise"} /\ thread[t].debate \in 1..began
  BY <1>1, DebateFields
<1>3. DebatesKept(t)
  BY <1>1, Counted DEF DebatesKept, DebateGoesOn
<1>4. DebateOf(t)'
  BY <1>2 DEF DebateOf, DebateGoesOn
<1>5. \A o \in Threads \ {t} : thread[o].pc \in BridgePC => thread'[t].debate # thread[o].debate
  BY <1>1 DEF BridgeInv, DebateGoesOn
<1>6. Only(t) /\ began' = began /\ thread'[t].pc \in BridgePC \ (IndexPC \cup {"learn"}) /\ thread'[t].pc # "decided"
  BY DEF DebateGoesOn, BridgePC, IndexPC
<1> QED BY <1>1, <1>3, <1>4, <1>5, <1>6, DebateElsewhere

LEMMA FileKept ==
  ASSUME ThreadsInv, BridgeInv, NEW t \in Threads, TruncateDebate(t) \/ WriteDebate(t)
  PROVE  BridgeInv'
<1>1. /\ thread[t].pc \in {"truncate debate", "write debate"}
      /\ UNCHANGED <<index, learning, unended, recorded, overlaps, forgotten>>
  BY DEF TruncateDebate, WriteDebate, At
<1>2. thread[t].debate \in 1..MaxRequests /\ DOMAIN kept = 1..MaxRequests /\ thread[t].pc \in BridgePC
  BY <1>1, DebateFields DEF BridgeInv, BridgePC
<1>3. CASE TruncateDebate(t)
  <2>1. kept' = [kept EXCEPT ![thread[t].debate] = "truncated"] /\ Goto(t, "write debate")
    BY <1>3 DEF TruncateDebate
  <2>2. DebateGoesOn(t) /\ thread'[t].pc = "write debate"
    BY <1>2, <2>1, DebateGoesTo
  <2>3. /\ DOMAIN kept' = 1..MaxRequests
        /\ \A m \in 1..MaxRequests : m # thread[t].debate => kept'[m] = kept[m]
    BY <1>2, <2>1
  <2> QED BY <1>1, <2>2, <2>3, FileIsWritten
<1>4. CASE WriteDebate(t)
  <2>1. kept' = [kept EXCEPT ![thread[t].debate] = "whole"] /\ Goto(t, "read index")
    BY <1>4 DEF WriteDebate
  <2>2. DebateGoesOn(t) /\ thread'[t].pc = "read index"
    BY <1>2, <2>1, DebateGoesTo
  <2>3. /\ DOMAIN kept' = 1..MaxRequests
        /\ kept'[thread[t].debate] = "whole"
        /\ \A m \in 1..MaxRequests : m # thread[t].debate => kept'[m] = kept[m]
    BY <1>2, <2>1
  <2> QED BY <1>1, <2>2, <2>3, FileIsWritten
<1> QED BY <1>3, <1>4
LEMMA IndexReadKept ==
  ASSUME ThreadsInv, BridgeInv, NEW t \in Threads, ReadIndex(t)
  PROVE  BridgeInv'
<1>1. /\ thread[t].pc = "read index" /\ thread'[t].pc = "truncate index"
      /\ Only(t) /\ began' = began /\ {"pc", "op", "debate", "entries"} \subseteq DOMAIN thread'[t]
      /\ thread'[t].op = "supervise" /\ thread'[t].debate = thread[t].debate
      /\ thread'[t].entries = index.entries
      /\ overlaps' = (IF Indexing = {} THEN overlaps ELSE overlaps \cup Debates(Indexing \cup {t}))
      /\ (forgotten' <=> forgotten \/ index.torn)
      /\ UNCHANGED <<kept, index, learning, unended, recorded>>
  BY IndexIsRead
<1>2. thread[t].pc \in BridgePC /\ thread[t].pc # "learn" /\ thread[t].pc \notin Early
      /\ thread'[t].pc \in BridgePC /\ thread'[t].pc # "learn" /\ thread'[t].pc \notin Early
      /\ thread'[t].pc # "decided"
  BY <1>1 DEF BridgePC, Early
<1>3. DebateOf(t) /\ thread[t].debate \in 1..began
  BY <1>2, DebateFields
<1>4. Indexed' = Indexed
  BY <1>1, <1>2, IndexedStays
<1>5. DebatesKept(t)
  BY <1>1, <1>2, DebatesAreKeptBy
<1>6. Settled(index.entries)'
  <2>1. PICK ns : ns = index.entries /\ Settled(ns)
    BY DEF BridgeInv, IndexInv
  <2>2. Settled(ns)'
    BY <1>1, <1>5, <2>1, StaysSettled
  <2>3. index' = index
    BY <1>1
  <2> QED BY <2>1, <2>2, <2>3 DEF Settled
<1>7. overlaps \subseteq overlaps'
  BY <1>1
<1>8. ~forgotten' => Indexed' \ overlaps' \subseteq index.entries
  BY <1>1, <1>4, <1>7 DEF BridgeInv, IndexInv
<1>9. DebateOf(t)'
  <2>1. kept'[thread'[t].debate] = "whole"
    BY <1>1, <1>3 DEF DebateOf
  <2>3. Settled(thread[t].entries)'
    BY <1>1, <1>6 DEF Settled
  <2> QED BY <1>1, <1>3, <1>8, <2>1, <2>3 DEF DebateOf
<1>10. ASSUME NEW o \in Threads \ {t}, thread[o].pc \in IndexPC
       PROVE  /\ ~forgotten' => Indexed' \ overlaps' \subseteq thread[o].entries
              /\ thread'[t].debate \in overlaps' /\ thread[o].debate \in overlaps'
  <2>1. ~forgotten => Indexed \ overlaps \subseteq thread[o].entries
    BY <1>10, OthersAtTheIndex
  <2>2. o \in Indexing
    BY <1>10 DEF Indexing, IndexPC
  <2>3. overlaps' = overlaps \cup {thread[u].debate : u \in Indexing \cup {t}}
    BY <1>1, <2>2 DEF Debates
  <2> QED BY <1>1, <1>4, <1>7, <2>1, <2>2, <2>3
<1>11. LearningInv'
  <2>1. LearningInv /\ crashes' = crashes /\ crashes \in Nat
    BY <1>1 DEF BridgeInv, ThreadsInv, Only
  <2>2. crashes' \in Nat /\ crashes <= crashes'
    BY <2>1
  <2> QED BY <1>1, <2>1, <2>2, LearningStays
<1>12. \A o \in Threads \ {t} : thread[o].pc \in BridgePC => thread'[t].debate # thread[o].debate
  BY <1>1, <1>2 DEF BridgeInv
<1>13. DOMAIN kept' = 1..MaxRequests
  BY <1>1 DEF BridgeInv
<1>14. ~forgotten' /\ ~index'.torn => Indexed' \ overlaps' \subseteq index'.entries
  BY <1>1, <1>8
<1>15. DebateStep(t)
  BY <1>1, <1>2, <1>5, <1>6, <1>7, <1>9, <1>10, <1>11, <1>12, <1>13, <1>14 DEF DebateStep
<1> QED BY <1>15, DebateStepKept

LEMMA IndexTruncatedKept ==
  ASSUME ThreadsInv, BridgeInv, NEW t \in Threads, TruncateIndex(t)
  PROVE  BridgeInv'
<1>1. /\ thread[t].pc = "truncate index" /\ Goto(t, "write index")
      /\ index' = [torn |-> TRUE, entries |-> {}]
      /\ UNCHANGED <<kept, learning, unended, recorded, overlaps, forgotten>>
  BY DEF TruncateIndex, At
<1>2. /\ thread[t].pc \in BridgePC /\ thread[t].pc # "learn" /\ thread[t].pc \notin Early /\ thread[t].pc \in IndexPC
  BY <1>1 DEF BridgePC, Early, IndexPC
<1>3. DebateOf(t) /\ thread[t].debate \in 1..began /\ DebateGoesOn(t) /\ thread'[t].pc = "write index"
      /\ DOMAIN thread'[t] = DOMAIN thread[t]
  BY <1>1, <1>2, DebateFields, DebateGoesTo
<1>4. "entries" \in DOMAIN thread[t] /\ thread'[t].entries = thread[t].entries
  BY <1>1, <1>2, <1>3, DebateGoesTo DEF DebateOf
<1>5. Only(t) /\ began' = began /\ thread'[t].debate = thread[t].debate /\ thread'[t].pc \in BridgePC
      /\ thread'[t].pc # "learn" /\ thread'[t].pc # "decided" /\ thread'[t].pc \notin Early
  BY <1>3 DEF DebateGoesOn, BridgePC, Early
<1>6. Indexed' = Indexed
  BY <1>1, <1>2, <1>5, IndexedStays
<1>7. DebatesKept(t)
  BY <1>1, <1>2, <1>5, DebatesAreKeptBy
<1>8. index'.torn /\ index'.entries = {}
  BY <1>1
<1>9. Settled(index.entries)'
  BY <1>8 DEF Settled
<1>10. DebateOf(t)'
  <2>1. Settled(thread[t].entries) /\ kept[thread[t].debate] = "whole"
        /\ (~forgotten => Indexed \ overlaps \subseteq thread[t].entries)
    BY <1>1, <1>3 DEF DebateOf
  <2>2. PICK ns : ns = thread[t].entries /\ Settled(ns)
    BY <2>1
  <2>6. Settled(ns)'
    BY <1>5, <1>7, <2>2, StaysSettled
  <2>3. Settled(thread[t].entries)'
    BY <1>4, <2>2, <2>6 DEF Settled
  <2>4. kept'[thread'[t].debate] = "whole" /\ (~forgotten' => Indexed' \ overlaps' \subseteq thread'[t].entries)
    BY <1>1, <1>4, <1>5, <1>6, <2>1
  <2>5. /\ {"op", "debate", "entries"} \subseteq DOMAIN thread'[t] /\ thread'[t].op \in {"consult", "supervise"}
        /\ thread'[t].debate \in 1..began'
    BY <1>3, <1>4, <1>5 DEF DebateOf, DebateGoesOn
  <2> QED BY <1>3, <2>3, <2>4, <2>5 DEF DebateOf
<1>11. ASSUME NEW o \in Threads \ {t}, thread[o].pc \in IndexPC
       PROVE  /\ ~forgotten' => Indexed' \ overlaps' \subseteq thread[o].entries
              /\ thread'[t].debate \in overlaps' /\ thread[o].debate \in overlaps'
  BY <1>1, <1>2, <1>5, <1>6, <1>11, OthersAtTheIndex
<1>12. LearningInv'
  <2>1. LearningInv /\ crashes' = crashes /\ crashes \in Nat
    BY <1>5 DEF BridgeInv, ThreadsInv, Only
  <2>2. crashes' \in Nat /\ crashes <= crashes'
    BY <2>1
  <2> QED BY <1>1, <1>5, <2>1, <2>2, LearningStays
<1>13. \A o \in Threads \ {t} : thread[o].pc \in BridgePC => thread'[t].debate # thread[o].debate
  BY <1>2, <1>5 DEF BridgeInv
<1>14. DOMAIN kept' = 1..MaxRequests /\ overlaps \subseteq overlaps'
  BY <1>1 DEF BridgeInv
<1>15. DebateStep(t)
  BY <1>5, <1>7, <1>8, <1>9, <1>10, <1>11, <1>12, <1>13, <1>14 DEF DebateStep
<1> QED BY <1>15, DebateStepKept
LEMMA IndexWrittenKept ==
  ASSUME ThreadsInv, BridgeInv, NEW t \in Threads, WriteIndex(t)
  PROVE  BridgeInv'
<1> DEFINE own == thread[t].debate
<1>1. /\ thread[t].pc = "write index" /\ Goto(t, "learn")
      /\ index' = [torn |-> FALSE, entries |-> thread[t].entries \cup {own}]
      /\ UNCHANGED <<kept, learning, unended, recorded, overlaps, forgotten>>
  BY DEF WriteIndex, At
<1>2. thread[t].pc \in BridgePC /\ thread[t].pc \notin Early /\ thread[t].pc \in IndexPC
  BY <1>1 DEF BridgePC, Early, IndexPC
<1>3. DebateOf(t) /\ own \in 1..began /\ DebateGoesOn(t) /\ thread'[t].pc = "learn"
  BY <1>1, <1>2, DebateFields, DebateGoesTo
<1>4. Only(t) /\ began' = began /\ thread'[t].debate = own /\ thread'[t].pc \in BridgePC
      /\ thread'[t].pc # "decided" /\ thread'[t].pc \notin Early /\ thread'[t].pc \notin IndexPC
  BY <1>3 DEF DebateGoesOn, BridgePC, Early, IndexPC
<1>5. index'.entries = thread[t].entries \cup {own} /\ ~index'.torn
  BY <1>1
<1>6. /\ Settled(thread[t].entries) /\ kept[own] = "whole"
      /\ ~forgotten => Indexed \ overlaps \subseteq thread[t].entries
  BY <1>1, <1>3 DEF DebateOf
<1>7. \A o \in Threads \ {t} : thread[o].pc \in BridgePC => own # thread[o].debate
  BY <1>2 DEF BridgeInv
<1>8. DebatesKept(t)
  BY <1>1, <1>2, <1>4, DebatesAreKeptBy
<1>9. Indexed' \subseteq Indexed \cup {own}
  <2>1. recorded' = recorded /\ \A u \in Threads \ {t} : thread'[u] = thread[u]
    BY <1>1, <1>4 DEF Only
  <2>2. ASSUME NEW u \in Threads, thread'[u].pc = "learn"
        PROVE  thread'[u].debate \in Indexed \cup {own}
    BY <1>4, <2>1, <2>2 DEF Indexed, At
  <2> QED BY <2>1, <2>2 DEF Indexed, At
<1>10. Settled({own})
  <2>1. \A o \in Threads : thread[o].pc \in Early => thread[o].debate # own
    BY <1>2, <1>7 DEF Early, BridgePC
  <2> QED BY <1>3, <1>6, <2>1 DEF Settled, Early
<1> HIDE DEF own
<1>11. Settled(index.entries)'
  <2>1. Settled(thread[t].entries \cup {own})
    BY <1>6, <1>10 DEF Settled
  <2>2. PICK ns : ns = thread[t].entries \cup {own} /\ Settled(ns)
    BY <2>1
  <2>3. Settled(ns)'
    BY <1>4, <1>8, <2>2, StaysSettled
  <2> QED BY <1>5, <2>2, <2>3 DEF Settled
<1>12. ~forgotten' => Indexed' \ overlaps' \subseteq index'.entries
  BY <1>1, <1>5, <1>6, <1>9
<1>13. DebateOf(t)'
  <2>1. thread'[t].debate \in 1..began' /\ kept'[thread'[t].debate] = "whole"
    BY <1>1, <1>3, <1>4, <1>6
  <2>2. {"op", "debate"} \subseteq DOMAIN thread'[t] /\ thread'[t].op \in {"consult", "supervise"}
    BY <1>3 DEF DebateGoesOn, DebateOf
  <2> QED BY <1>3, <2>1, <2>2 DEF DebateOf
<1>14. ASSUME NEW o \in Threads \ {t}, thread[o].pc \in IndexPC
       PROVE  ~forgotten' => Indexed' \ overlaps' \subseteq thread[o].entries
  <2>1. ~forgotten => Indexed \ overlaps \subseteq thread[o].entries
    BY <1>14, OthersAtTheIndex
  <2>2. own \in overlaps
    BY <1>2, <1>14, OthersAtTheIndex DEF own
  <2> QED BY <1>1, <1>9, <2>1, <2>2
<1>15. LearningInv'
  <2>1. LearningInv /\ crashes' = crashes /\ crashes \in Nat
    BY <1>4 DEF BridgeInv, ThreadsInv, Only
  <2>2. crashes' \in Nat /\ crashes <= crashes'
    BY <2>1
  <2> QED BY <1>1, <1>4, <2>1, <2>2, LearningStays
<1>16. DOMAIN kept' = 1..MaxRequests /\ overlaps \subseteq overlaps'
  BY <1>1 DEF BridgeInv
<1>17. DebateStep(t)
  BY <1>4, <1>7, <1>8, <1>11, <1>12, <1>13, <1>14, <1>15, <1>16 DEF DebateStep
<1> QED BY <1>17, DebateStepKept
-----------------------------------------------------------------------------
(* The lines of learning                                                   *)

IsEntry(line) == Len(line) = 1 /\ line # <<0>>
Entries(lines) == {Head(l) : l \in {m \in ToSet(lines) : IsEntry(m)}}

LEMMA EntriesAre ==
  ASSUME NEW lines \in Seq(Seq(Nat))
  PROVE  \A x : x \in Entries(lines) <=> \E i \in 1..Len(lines) : IsEntry(lines[i]) /\ x = Head(lines[i])
<1>1. \A l : l \in ToSet(lines) <=> \E i \in 1..Len(lines) : lines[i] = l
  BY ToSetIs
<1> QED BY <1>1 DEF Entries

\* A line of its own is listed, and half a line is not.
LEMMA LineAppended ==
  ASSUME NEW lines \in Seq(Seq(Nat)), NEW line \in Seq(Nat)
  PROVE  LET more == Append(lines, line)
         IN /\ more \in Seq(Seq(Nat)) /\ more # <<>> /\ Last(more) = line
            /\ Entries(more) = IF IsEntry(line) THEN Entries(lines) \cup {Head(line)} ELSE Entries(lines)
<1> DEFINE more == Append(lines, line)
<1>1. /\ more \in Seq(Seq(Nat)) /\ Len(more) = Len(lines) + 1 /\ Len(lines) \in Nat
      /\ \A i \in 1..Len(lines) : more[i] = lines[i]
      /\ more[Len(lines) + 1] = line
  OBVIOUS
<1> HIDE DEF more
<1>2. /\ \A i \in 1..Len(more) : i \in 1..Len(lines) \/ i = Len(lines) + 1
      /\ \A i \in 1..Len(lines) : i \in 1..Len(more)
      /\ Len(lines) + 1 \in 1..Len(more)
  BY <1>1
<1>3. \A x : x \in Entries(lines) <=> \E i \in 1..Len(lines) : IsEntry(lines[i]) /\ x = Head(lines[i])
  BY EntriesAre
<1>4. \A x : x \in Entries(more) <=> \E i \in 1..Len(more) : IsEntry(more[i]) /\ x = Head(more[i])
  BY <1>1, EntriesAre
<1>5. \A x : x \in Entries(more) <=> x \in Entries(lines) \/ (IsEntry(line) /\ x = Head(line))
  BY <1>1, <1>2, <1>3, <1>4
<1>6. Entries(more) = IF IsEntry(line) THEN Entries(lines) \cup {Head(line)} ELSE Entries(lines)
  BY <1>5
<1>7. more # <<>> /\ Last(more) = line
  BY <1>1 DEF Last
<1> QED BY <1>1, <1>6, <1>7 DEF more

\* What is appended to half a line is lost with it, and nothing else is.
LEMMA LineContinued ==
  ASSUME NEW lines \in Seq(Seq(Nat)), lines # <<>>, ~IsEntry(Last(lines)),
         NEW line \in Seq(Nat), ~IsEntry(line)
  PROVE  LET more == [lines EXCEPT ![Len(lines)] = line]
         IN more \in Seq(Seq(Nat)) /\ Entries(more) = Entries(lines)
<1> DEFINE k == Len(lines)
           more == [lines EXCEPT ![k] = line]
<1>1. k \in Nat /\ k \in 1..k /\ Last(lines) = lines[k] /\ DOMAIN lines = 1..k
  BY DEF Last
<1>2. /\ more \in Seq(Seq(Nat)) /\ Len(more) = k
      /\ \A i \in 1..k : more[i] = IF i = k THEN line ELSE lines[i]
  BY <1>1, ExceptSeq
<1>3. \A x : x \in Entries(lines) <=> \E i \in 1..k : IsEntry(lines[i]) /\ x = Head(lines[i])
  BY EntriesAre
<1> HIDE DEF more
<1>4. \A x : x \in Entries(more) <=> \E i \in 1..Len(more) : IsEntry(more[i]) /\ x = Head(more[i])
  BY <1>2, EntriesAre
<1> HIDE DEF k
<1>5. /\ ~IsEntry(lines[k]) /\ ~IsEntry(more[k])
      /\ \A i \in 1..k : i # k => more[i] = lines[i]
  BY <1>1, <1>2
<1>6. \A i \in 1..k : IsEntry(more[i]) <=> IsEntry(lines[i]) /\ more[i] = lines[i]
  BY <1>5
<1>7. \A i \in 1..k : IsEntry(lines[i]) => more[i] = lines[i]
  BY <1>5
<1>8. \A x : x \in Entries(more) <=> x \in Entries(lines)
  BY <1>2, <1>3, <1>4, <1>6, <1>7
<1>9. Entries(more) = Entries(lines)
  BY <1>8
<1> QED BY <1>2, <1>9 DEF more, k

LEMMA FewMore ==
  ASSUME NEW n \in Nat, NEW S, NEW T, NEW x, S \subseteq 1..n, T \subseteq S \cup {x}
  PROVE  /\ Cardinality(S) \in Nat /\ Cardinality(T) \in Nat /\ Cardinality(T) <= Cardinality(S) + 1
         /\ T \subseteq S => Cardinality(T) <= Cardinality(S)
<1>1. IsFiniteSet(S)
  <2>1. 1 \in Int /\ n \in Int
    OBVIOUS
  <2>2. IsFiniteSet(1..n)
    BY <2>1, FS_Interval
  <2> QED BY <2>2, FS_Subset
<1>2. IsFiniteSet(S \cup {x}) /\ Cardinality(S \cup {x}) <= Cardinality(S) + 1 /\ Cardinality(S) \in Nat
  <2>1. Cardinality(S) \in Nat
    BY <1>1, FS_CardinalityType
  <2>2. IsFiniteSet(S \cup {x}) /\ Cardinality(S \cup {x}) \in {Cardinality(S), Cardinality(S) + 1}
    BY <1>1, FS_AddElement
  <2> QED BY <2>1, <2>2
<1>3. IsFiniteSet(T) /\ Cardinality(T) <= Cardinality(S \cup {x})
  BY <1>2, FS_Subset
<1>4. Cardinality(T) \in Nat /\ Cardinality(S \cup {x}) \in Nat
  BY <1>2, <1>3, FS_CardinalityType
<1>5. T \subseteq S => Cardinality(T) <= Cardinality(S)
  BY <1>1, FS_Subset
<1> QED BY <1>2, <1>3, <1>4, <1>5
LEMMA Lines ==
  ASSUME NEW n \in Nat
  PROVE  /\ <<n>> \in Seq(Nat) /\ Head(<<n>>) = n
         /\ IsEntry(<<n>>) <=> n # 0
         /\ Append(<<0>>, n) \in Seq(Nat) /\ ~IsEntry(Append(<<0>>, n))
<1>1. <<n>> \in Seq(Nat) /\ Head(<<n>>) = n /\ Len(<<n>>) = 1
  OBVIOUS
<1>2. <<n>> = <<0>> <=> n = 0
  OBVIOUS
<1>3. Append(<<0>>, n) \in Seq(Nat) /\ Len(Append(<<0>>, n)) = 2
  OBVIOUS
<1> QED BY <1>1, <1>2, <1>3 DEF IsEntry

\* The entry of a debate is listed, or lost with the half line it is appended to.
LEMMA LearningGrows ==
  ASSUME ThreadsInv, LearningInv, NEW n \in 1..began, recorded' = recorded \cup {n}, unended' = FALSE,
         learning' = IF unended THEN [learning EXCEPT ![Len(learning)] = Append(@, n)]
                     ELSE Append(learning, <<n>>),
         began' = began, crashes' = crashes
  PROVE  LearningInv'
<1>1. began \in Nat /\ n \in Nat /\ n # 0 /\ crashes \in Nat
  BY Counted DEF ThreadsInv
<1>2. /\ recorded \subseteq 1..began /\ learning \in Seq(Seq(Nat))
      /\ unended => learning # <<>> /\ Last(learning) = <<0>>
      /\ Cardinality(recorded \ Listed) + (IF unended THEN 1 ELSE 0) <= crashes
  BY DEF LearningInv
<1>3. Listed = Entries(learning) /\ Listed' = Entries(learning')
  BY DEF Listed, Entries, IsEntry
<1>4. <<n>> \in Seq(Nat) /\ Head(<<n>>) = n /\ IsEntry(<<n>>) /\ ~IsEntry(<<0>>)
      /\ Append(<<0>>, n) \in Seq(Nat) /\ ~IsEntry(Append(<<0>>, n))
  BY <1>1, Lines
<1>5. CASE unended
  <2>1. learning[Len(learning)] = <<0>>
    BY <1>2, <1>5 DEF Last
  <2>2. learning' = [learning EXCEPT ![Len(learning)] = Append(<<0>>, n)]
    BY <1>5, <2>1
  <2>3. learning' \in Seq(Seq(Nat)) /\ Listed' = Listed
    BY <1>2, <1>3, <1>4, <1>5, <2>2, LineContinued
  <2>4. recorded' \ Listed' \subseteq (recorded \ Listed) \cup {n}
    BY <2>3
  <2>5. /\ Cardinality(recorded \ Listed) \in Nat /\ Cardinality(recorded' \ Listed') \in Nat
        /\ Cardinality(recorded' \ Listed') <= Cardinality(recorded \ Listed) + 1
    <3>1. recorded \ Listed \subseteq 1..began
      BY <1>2
    <3> QED BY <1>1, <2>4, <3>1, FewMore
  <2>6. Cardinality(recorded' \ Listed') + 0 <= crashes'
    BY <1>1, <1>2, <1>5, <2>5
  <2> QED BY <1>2, <2>3, <2>6 DEF LearningInv
<1>6. CASE ~unended
  <2>1. learning' \in Seq(Seq(Nat)) /\ Entries(learning') = Entries(learning) \cup {n}
    BY <1>2, <1>4, <1>6, LineAppended
  <2>2. recorded' \ Listed' \subseteq recorded \ Listed
    BY <1>3, <2>1
  <2>3. /\ Cardinality(recorded \ Listed) \in Nat /\ Cardinality(recorded' \ Listed') \in Nat
        /\ Cardinality(recorded' \ Listed') <= Cardinality(recorded \ Listed)
    <3>1. recorded \ Listed \subseteq 1..began /\ recorded' \ Listed' \subseteq (recorded \ Listed) \cup {n}
      BY <1>2, <2>2
    <3> QED BY <1>1, <2>2, <3>1, FewMore
  <2>4. Cardinality(recorded' \ Listed') + 0 <= crashes'
    BY <1>1, <1>2, <1>6, <2>3
  <2> QED BY <1>2, <2>1, <2>4 DEF LearningInv
<1> QED BY <1>5, <1>6

\* A restart costs half a line at most.
LEMMA LearningDies ==
  ASSUME ThreadsInv, LearningInv, BridgeDies, began' = began, crashes' = crashes + 1
  PROVE  LearningInv'
<1>1. crashes \in Nat /\ crashes' \in Nat /\ crashes <= crashes' /\ recorded' = recorded
  BY DEF ThreadsInv, BridgeDies
<1>2. CASE UNCHANGED <<learning, unended>>
  BY <1>1, <1>2, LearningStays
<1>3. CASE learning' = Append(learning, <<0>>) /\ unended' = TRUE /\ ~unended
  <2>1. <<0>> \in Seq(Nat) /\ ~IsEntry(<<0>>)
    BY Lines
  <2>2. /\ recorded \subseteq 1..began /\ learning \in Seq(Seq(Nat))
        /\ Cardinality(recorded \ Listed) + 0 <= crashes
    BY <1>3 DEF LearningInv
  <2>3. Listed = Entries(learning) /\ Listed' = Entries(learning')
    BY DEF Listed, Entries, IsEntry
  <2>4. learning' \in Seq(Seq(Nat)) /\ learning' # <<>> /\ Last(learning') = <<0>>
        /\ Entries(learning') = Entries(learning)
    BY <1>3, <2>1, <2>2, LineAppended
  <2>5. Listed' = Listed
    BY <2>3, <2>4
  <2>6. Cardinality(recorded \ Listed) \in Nat
    <3>1. recorded \ Listed \subseteq 1..began /\ began \in Nat
      BY <2>2, Counted
    <3> QED BY <3>1, FewMore
  <2>7. Cardinality(recorded' \ Listed') = Cardinality(recorded \ Listed)
    BY <1>1, <2>5
  <2>8. Cardinality(recorded' \ Listed') + 1 <= crashes'
    BY <1>1, <2>2, <2>6, <2>7
  <2> QED BY <1>1, <1>3, <2>2, <2>4, <2>8 DEF LearningInv
<1> QED BY <1>2, <1>3 DEF BridgeDies

LEMMA LearnKept ==
  ASSUME ThreadsInv, BridgeInv, NEW t \in Threads, Learn(t)
  PROVE  BridgeInv'
<1> DEFINE own == thread[t].debate
<1>1. /\ thread[t].pc = "learn" /\ Goto(t, "serve") /\ unended' = FALSE /\ recorded' = recorded \cup {own}
      /\ learning' = IF unended THEN [learning EXCEPT ![Len(learning)] = Append(@, own)]
                     ELSE Append(learning, <<own>>)
      /\ UNCHANGED <<kept, index, overlaps, forgotten>>
  BY DEF Learn, At
<1>2. thread[t].pc \in BridgePC /\ thread[t].pc \notin Early
  BY <1>1 DEF BridgePC, Early
<1>3. DebateOf(t) /\ own \in 1..began /\ DebateGoesOn(t) /\ thread'[t].pc = "serve"
  BY <1>1, <1>2, DebateFields, DebateGoesTo
<1>4. Only(t) /\ began' = began /\ thread'[t].debate = own /\ thread'[t].pc \in BridgePC
      /\ thread'[t].pc # "decided" /\ thread'[t].pc \notin Early /\ thread'[t].pc \notin IndexPC
  BY <1>3 DEF DebateGoesOn, BridgePC, Early, IndexPC
<1>5. \A o \in Threads \ {t} : thread[o].pc \in BridgePC => own # thread[o].debate
  BY <1>2 DEF BridgeInv
<1>6. DebatesKept(t)
  BY <1>1, <1>2, <1>4, DebatesAreKeptBy
<1>7. DebateOf(t)'
  BY <1>3, <1>4 DEF DebateOf, DebateGoesOn
<1>8. LearningInv'
  <2>1. LearningInv /\ crashes' = crashes
    BY <1>4 DEF BridgeInv, Only
  <2> HIDE DEF own
  <2> QED BY <1>1, <1>3, <1>4, <2>1, LearningGrows
<1>9. Indexed' \subseteq Indexed
  <2>1. recorded' = recorded \cup {own} /\ own \in Indexed /\ \A u \in Threads \ {t} : thread'[u] = thread[u]
    BY <1>1, <1>4 DEF Only, Indexed, At
  <2>2. ASSUME NEW u \in Threads, thread'[u].pc = "learn"
        PROVE  thread'[u].debate \in Indexed
    BY <1>3, <2>1, <2>2 DEF Indexed, At
  <2> QED BY <2>1, <2>2 DEF Indexed, At
<1> HIDE DEF own
<1>10. Settled(index.entries)'
  <2>1. PICK ns : ns = index.entries /\ Settled(ns)
    BY DEF BridgeInv, IndexInv
  <2>2. Settled(ns)'
    BY <1>4, <1>6, <2>1, StaysSettled
  <2>3. index' = index
    BY <1>1
  <2> QED BY <2>1, <2>2, <2>3 DEF Settled
<1>11. ~forgotten' /\ ~index'.torn => Indexed' \ overlaps' \subseteq index'.entries
  BY <1>1, <1>9 DEF BridgeInv, IndexInv
<1>12. ASSUME NEW o \in Threads \ {t}, thread[o].pc \in IndexPC, ~forgotten'
       PROVE  Indexed' \ overlaps' \subseteq thread[o].entries
  BY <1>1, <1>9, <1>12, OthersAtTheIndex
<1>13. DOMAIN kept' = 1..MaxRequests /\ overlaps \subseteq overlaps'
  BY <1>1 DEF BridgeInv
<1>14. DebateStep(t)
  BY <1>4, <1>5, <1>6, <1>7, <1>8, <1>10, <1>11, <1>12, <1>13 DEF DebateStep
<1> QED BY <1>14, DebateStepKept

LEMMA BridgeServed ==
  ASSUME ThreadsInv, BridgeInv, NEW t \in Threads, ServeBridge(t)
  PROVE  BridgeInv'
BY TalkKept, FileKept, IndexReadKept, IndexTruncatedKept, IndexWrittenKept, LearnKept DEF ServeBridge, BridgeStep

LEMMA BridgeMoves ==
  ASSUME ThreadsInv, BridgeInv, NEW t \in Threads, ServeBridge(t)
  PROVE  /\ Only(t) /\ began' \in {began, began + 1} /\ began' \in 0..traffic.requests
         /\ {"pc", "op"} \subseteq DOMAIN thread'[t]
         /\ thread'[t].pc \in BridgePC \cup {"replied"} /\ thread'[t].op \in {"consult", "supervise"}
         /\ thread[t].pc \in BridgePC \cup {"idle", "replied"}
         /\ UNCHANGED <<verifyVars, chatVars>>
<1>1. began \in 0..traffic.requests /\ UNCHANGED <<verifyVars, chatVars>>
  BY DEF ThreadsInv, ServeBridge
<1>2. CASE RequestDebate(t)
  <2>1. /\ Only(t) /\ began' = began + 1 /\ began' \in 0..traffic.requests
        /\ thread[t].pc \in {"idle", "replied"}
        /\ {"pc", "op", "debate", "question", "panel", "said"} \subseteq DOMAIN thread'[t]
        /\ thread'[t].pc \in {"refuse", "debate"} /\ thread'[t].op \in {"consult", "supervise"}
    BY <1>2, DebateStarts
  <2> QED BY <1>1, <2>1 DEF BridgePC
<1>3. CASE Refuse(t) \/ Serve(t)
  BY <1>1, <1>3, DebateReplied
<1>4. ASSUME DebateGoesOn(t), thread[t].pc \in BridgePC, thread'[t].pc \in BridgePC
      PROVE  /\ Only(t) /\ began' = began /\ {"pc", "op"} \subseteq DOMAIN thread'[t]
             /\ thread'[t].op \in {"consult", "supervise"}
  BY <1>4, DebateFields DEF DebateGoesOn
<1>5. CASE Participant(t) \/ Judge(t) \/ Decided(t)
  <2>1. thread[t].pc \in BridgePC /\ thread'[t].pc \in BridgePC /\ DebateGoesOn(t)
    BY <1>5, ParticipantSpeaks, JudgeDecides, DebateDecided DEF BridgePC
  <2> QED BY <1>1, <1>4, <2>1
<1>6. CASE TruncateDebate(t) \/ WriteDebate(t) \/ TruncateIndex(t) \/ WriteIndex(t) \/ Learn(t)
  <2>1. thread[t].pc \in BridgePC /\ \E p \in BridgePC : Goto(t, p)
    BY <1>6 DEF TruncateDebate, WriteDebate, TruncateIndex, WriteIndex, Learn, At, BridgePC
  <2>2. PICK p \in BridgePC : Goto(t, p)
    BY <2>1
  <2>3. DebateGoesOn(t) /\ thread'[t].pc \in BridgePC
    BY <2>1, <2>2, DebateGoesTo
  <2> QED BY <1>1, <1>4, <2>1, <2>3
<1>7. CASE ReadIndex(t)
  <2>1. /\ thread[t].pc = "read index" /\ thread'[t].pc = "truncate index"
        /\ Only(t) /\ began' = began /\ {"pc", "op", "debate", "entries"} \subseteq DOMAIN thread'[t]
        /\ thread'[t].op = "supervise"
    BY <1>7, IndexIsRead
  <2> QED BY <1>1, <2>1 DEF BridgePC
<1> QED BY <1>2, <1>3, <1>5, <1>6, <1>7 DEF ServeBridge, BridgeStep
-----------------------------------------------------------------------------
(* The list of workspaces                                                  *)

LEMMA FunctionIsList ==
  ASSUME NEW list, Sound(list), NEW new \in [DOMAIN list -> Workspace]
  PROVE  new \in Seq(Workspace)
<1>1. DOMAIN list = 1..Len(list) /\ Len(list) \in Nat
  BY ListIs
<1> QED BY <1>1

\* Another order of the same workspaces, another choice of the active one or another
\* time of opening leave the list sound, and its folders as they are.
LEMMA SoundAgain ==
  ASSUME NEW list, Sound(list), NEW new, NEW o \in [DOMAIN list -> DOMAIN list],
         new \in Seq(Workspace), DOMAIN new = DOMAIN list,
         \A i, j \in DOMAIN list : o[i] = o[j] => i = j,
         \A j \in DOMAIN list : \E i \in DOMAIN list : o[i] = j,
         \A i \in DOMAIN list : new[i].id = list[o[i]].id /\ new[i].root = list[o[i]].root,
         \A i, j \in DOMAIN list : new[i].active /\ new[j].active => i = j
  PROVE  Sound(new) /\ Folders(new) = Folders(list)
<1>1. new # <<>>
  BY ListIs
<1>2. \A i, j \in Active(new) : i = j
  BY DEF Active, Positions
<1>3. ASSUME NEW i \in DOMAIN new, NEW j \in DOMAIN new, new[i].id = new[j].id \/ new[i].root = new[j].root
      PROVE  i = j
  <2>1. o[i] \in DOMAIN list /\ o[j] \in DOMAIN list
    OBVIOUS
  <2>2. o[i] = o[j]
    BY <1>3, <2>1 DEF Sound
  <2> QED BY <2>2
<1>4. \A i \in DOMAIN new : new[i].root = FolderOf(new[i].id)
  BY DEF Sound
<1>5. Sound(new)
  BY <1>1, <1>2, <1>3, <1>4 DEF Sound
<1>7. \A j \in DOMAIN list : list[j].root \in Folders(new)
  BY DEF Folders
<1>8. ASSUME NEW r \in Folders(new)
      PROVE  r \in Folders(list)
  BY <1>8, o \in [DOMAIN list -> DOMAIN list] DEF Folders
<1>9. ASSUME NEW r \in Folders(list)
      PROVE  r \in Folders(new)
  <2>1. PICK j \in DOMAIN list : r = list[j].root
    BY <1>9 DEF Folders
  <2> QED BY <1>7, <2>1
<1> QED BY <1>5, <1>8, <1>9

LEMMA Relabelled ==
  ASSUME NEW list, Sound(list), NEW new, new \in Seq(Workspace), DOMAIN new = DOMAIN list,
         \A i \in DOMAIN list : new[i].id = list[i].id /\ new[i].root = list[i].root,
         \A i, j \in DOMAIN list : new[i].active /\ new[j].active => i = j
  PROVE  Sound(new) /\ Folders(new) = Folders(list)
<1> DEFINE o == [i \in DOMAIN list |-> i]
<1>1. o \in [DOMAIN list -> DOMAIN list] /\ \A i \in DOMAIN list : o[i] = i
  OBVIOUS
<1> HIDE DEF o
<1>2. \A i \in DOMAIN list : new[i].id = list[o[i]].id /\ new[i].root = list[o[i]].root
  BY <1>1
<1>3. /\ \A i, j \in DOMAIN list : o[i] = o[j] => i = j
      /\ \A j \in DOMAIN list : \E i \in DOMAIN list : o[i] = j
  BY <1>1
<1> QED BY <1>1, <1>2, <1>3, SoundAgain

LEMMA SortedIsSound ==
  ASSUME NEW list, Sound(list), NEW new \in Sortings(list)
  PROVE  Sound(new) /\ Folders(new) = Folders(list)
<1>1. PICK o \in Bijection(DOMAIN list, DOMAIN list) : new = [i \in DOMAIN list |-> list[o[i]]]
  BY DEF Sortings
<1>2. /\ o \in [DOMAIN list -> DOMAIN list]
      /\ \A i, j \in DOMAIN list : o[i] = o[j] => i = j
      /\ \A j \in DOMAIN list : \E i \in DOMAIN list : o[i] = j
  BY DEF Bijection, Injection, Surjection, IsInjective
<1>3. DOMAIN new = DOMAIN list /\ (\A i \in DOMAIN list : new[i] = list[o[i]]) /\ new \in Seq(Workspace)
  <2>1. \A i \in DOMAIN list : list[o[i]] \in Workspace
    BY <1>2, ListIs
  <2>2. new \in [DOMAIN list -> Workspace]
    BY <1>1, <2>1
  <2> QED BY <1>1, <2>2, FunctionIsList
<1>4. \A i, j \in DOMAIN list : new[i].active /\ new[j].active => i = j
  <2> SUFFICES ASSUME NEW i \in DOMAIN list, NEW j \in DOMAIN list, new[i].active, new[j].active
               PROVE  i = j
    OBVIOUS
  <2>1. o[i] \in Active(list) /\ o[j] \in Active(list)
    BY <1>2, <1>3 DEF Active, Positions
  <2>2. o[i] = o[j]
    BY <2>1 DEF Sound
  <2> QED BY <1>2, <2>2
<1>5. \A i \in DOMAIN list : new[i].id = list[o[i]].id /\ new[i].root = list[o[i]].root
  BY <1>3
<1>6. o \in [DOMAIN list -> DOMAIN list] /\ new \in Seq(Workspace) /\ DOMAIN new = DOMAIN list
  BY <1>2, <1>3
<1> QED BY <1>2, <1>4, <1>5, <1>6, SoundAgain, ZenonT(60)

\* What _activate leaves, and with the time of opening set.
LEMMA ActivatedIs ==
  ASSUME NEW list, Sound(list), NEW id
  PROVE  /\ Sound(Activated(list, id)) /\ Folders(Activated(list, id)) = Folders(list)
         /\ DOMAIN Activated(list, id) = DOMAIN list
         /\ \A i \in DOMAIN list : /\ Activated(list, id)[i].id = list[i].id
                                   /\ Activated(list, id)[i].root = list[i].root
<1> DEFINE new == Activated(list, id)
<1>1. DOMAIN new = DOMAIN list
  BY DEF Activated
<1>2. \A i \in DOMAIN list : new[i] \in Workspace /\ new[i].id = list[i].id /\ new[i].root = list[i].root
                             /\ (new[i].active <=> list[i].id = id)
  <2>1. \A i \in DOMAIN list : list[i] \in Workspace
    BY ListIs
  <2> QED BY <2>1 DEF Activated, Workspace
<1>3. new \in Seq(Workspace)
  <2>1. new \in [DOMAIN list -> Workspace]
    BY <1>2 DEF Activated
  <2> QED BY <2>1, FunctionIsList
<1>4. \A i, j \in DOMAIN list : new[i].active /\ new[j].active => i = j
  BY <1>2 DEF Sound
<1> HIDE DEF new
<1> QED BY <1>1, <1>2, <1>3, <1>4, Relabelled DEF new

LEMMA ActivatedAt ==
  ASSUME NEW list, Sound(list), NEW id, NEW k \in DOMAIN list, NEW now \in Nat
  PROVE  /\ Sound([Activated(list, id) EXCEPT ![k].opened = now])
         /\ Folders([Activated(list, id) EXCEPT ![k].opened = now]) = Folders(list)
<1> DEFINE old == Activated(list, id)
           new == [old EXCEPT ![k].opened = now]
<1>1. Sound(old) /\ Folders(old) = Folders(list) /\ DOMAIN old = DOMAIN list
  BY ActivatedIs
<1> HIDE DEF old
<1>2. DOMAIN new = DOMAIN old /\ \A i \in DOMAIN old :
         /\ new[i] \in Workspace /\ new[i].id = old[i].id /\ new[i].root = old[i].root
         /\ new[i].active = old[i].active
  <2>1. \A i \in DOMAIN old : old[i] \in Workspace
    BY <1>1, ListIs
  <2> QED BY <1>1, <2>1 DEF Workspace
<1>3. new \in Seq(Workspace)
  <2>1. new \in [DOMAIN list -> Workspace]
    BY <1>1, <1>2
  <2> QED BY <2>1, FunctionIsList
<1>4. \A i, j \in DOMAIN old : new[i].active /\ new[j].active => i = j
  BY <1>1, <1>2 DEF Sound, Active, Positions
<1> HIDE DEF new
<1>5. Sound(new) /\ Folders(new) = Folders(old)
  BY <1>1, <1>2, <1>3, <1>4, Relabelled
<1> QED BY <1>1, <1>5 DEF new, old

LEMMA FirstActiveIs ==
  ASSUME NEW list, Sound(list)
  PROVE  Sound(FirstActive(list)) /\ Folders(FirstActive(list)) = Folders(list)
<1>1. CASE Active(list) # {}
  BY <1>1 DEF FirstActive
<1>2. CASE Active(list) = {}
  <2> DEFINE new == [list EXCEPT ![1].active = TRUE]
  <2>1. DOMAIN new = DOMAIN list /\ \A i \in DOMAIN list :
           /\ new[i] \in Workspace /\ new[i].id = list[i].id /\ new[i].root = list[i].root
           /\ i # 1 => new[i].active = list[i].active
    <3>1. 1 \in DOMAIN list /\ \A i \in DOMAIN list : list[i] \in Workspace
      BY ListIs
    <3> QED BY <3>1 DEF Workspace
  <2>2. new \in Seq(Workspace)
    <3>1. new \in [DOMAIN list -> Workspace]
      BY <2>1
    <3> QED BY <3>1, FunctionIsList
  <2>3. \A i \in DOMAIN list : ~list[i].active
    BY <1>2 DEF Active, Positions
  <2>4. \A i, j \in DOMAIN list : new[i].active /\ new[j].active => i = j
    BY <2>1, <2>3
  <2> HIDE DEF new
  <2>5. Sound(new) /\ Folders(new) = Folders(list)
    BY <2>1, <2>2, <2>4, Relabelled
  <2> QED BY <1>2, <2>5 DEF FirstActive, new
<1> QED BY <1>1, <1>2

LEMMA DefaultIsSound == Sound(Default)
<1> DEFINE w == [id |-> "default", root |-> "home", active |-> TRUE, opened |-> 0]
<1>1. w \in Workspace
  BY WorkspacesAssumption DEF Workspace
<1>2. Default = <<w>> /\ DOMAIN Default = {1} /\ Default[1] = w /\ Default # <<>>
  BY DEF Default
<1>3. Default \in Seq(Workspace)
  BY <1>1, <1>2
<1>4. \A i, j \in DOMAIN Default : i = j
  BY <1>2
<1>5. w.root = FolderOf(w.id)
  BY DEF FolderOf
<1> HIDE DEF w
<1> QED BY <1>2, <1>3, <1>4, <1>5 DEF Sound, Active, Positions

LEMMA LoadedIsSound ==
  ASSUME NEW file, ~file.torn => Sound(file.list)
  PROVE  Sound(Loaded(file)) /\ (~file.torn => Folders(Loaded(file)) = Folders(file.list))
<1>1. CASE file.torn
  BY <1>1, DefaultIsSound, FirstActiveIs DEF Loaded, FromFile
<1>2. CASE ~file.torn
  <2>1. file.list # <<>> /\ Sound(file.list)
    BY <1>2 DEF Sound
  <2>2. Loaded(file) = FirstActive(file.list)
    BY <1>2, <2>1 DEF Loaded, FromFile
  <2> QED BY <2>1, <2>2, FirstActiveIs
<1> QED BY <1>1, <1>2

LEMMA OpenedIsSound ==
  ASSUME NEW list, Sound(list), NEW root \in Roots, clock \in Nat
  PROVE  Sound(Opened(list, root))
<1>1. CASE WithRoot(list, root) # {}
  <2> DEFINE k == Min(WithRoot(list, root))
  <2>1. WithRoot(list, root) \in SUBSET Nat
    BY ListIs DEF WithRoot, Positions
  <2>2. k \in WithRoot(list, root)
    BY <1>1, <2>1, First
  <2>3. k \in DOMAIN list
    BY <2>2 DEF WithRoot, Positions
  <2>4. Opened(list, root) = [Activated(list, list[k].id) EXCEPT ![k].opened = clock]
    BY <1>1 DEF Opened
  <2> HIDE DEF k
  <2> QED BY <2>3, <2>4, ActivatedAt
<1>2. CASE WithRoot(list, root) = {}
  <2> DEFINE none == [i \in DOMAIN list |-> [list[i] EXCEPT !.active = FALSE]]
             w == [id |-> root, root |-> root, active |-> TRUE, opened |-> clock]
             n == Len(list)
  <2>1. DOMAIN none = DOMAIN list /\ \A i \in DOMAIN list :
           /\ none[i] \in Workspace /\ none[i].id = list[i].id /\ none[i].root = list[i].root
           /\ ~none[i].active
    <3>1. \A i \in DOMAIN list : list[i] \in Workspace
      BY ListIs
    <3> QED BY <3>1 DEF Workspace
  <2>2. none \in Seq(Workspace) /\ n \in Nat /\ DOMAIN none = 1..n
    <3>1. none \in [DOMAIN list -> Workspace]
      BY <2>1
    <3> QED BY <3>1, FunctionIsList, ListIs
  <2>3. Sound(none)
    BY <2>1, <2>2, Relabelled
  <2>4. w \in Workspace /\ w.id = root /\ w.root = root
    BY DEF Workspace
  <2> HIDE DEF none, w, n
  <2> DEFINE new == Append(none, w)
  <2>5. /\ new \in Seq(Workspace) /\ DOMAIN new = 1..(n + 1)
        /\ \A i \in 1..n : new[i] = none[i]
        /\ new[n + 1] = w
    BY <2>2, <2>4
  <2> HIDE DEF new
  <2>6. \A i \in 1..n : none[i].id # root /\ none[i].root # root
    <3> SUFFICES ASSUME NEW i \in 1..n, none[i].id = root \/ none[i].root = root
                 PROVE  FALSE
      OBVIOUS
    <3>1. none[i].root = FolderOf(none[i].id) /\ i \in DOMAIN none
      BY <2>2, <2>3 DEF Sound
    <3>2. root # "default"
      BY WorkspacesAssumption
    <3>3. list[i].root = root
      BY <2>1, <3>1, <3>2 DEF FolderOf
    <3> QED BY <1>2, <2>1, <3>1, <3>3 DEF WithRoot, Positions
  <2>7. root = FolderOf(root)
    BY WorkspacesAssumption DEF FolderOf
  <2>8. \A i \in 1..(n + 1) : i \in 1..n \/ i = n + 1
    BY <2>2
  <2>9. \A i, j \in Active(new) : i = j
    BY <2>1, <2>2, <2>5, <2>8 DEF Active, Positions
  <2>10. \A i, j \in DOMAIN new : new[i].id = new[j].id \/ new[i].root = new[j].root => i = j
    <3> SUFFICES ASSUME NEW i \in 1..(n + 1), NEW j \in 1..(n + 1),
                        new[i].id = new[j].id \/ new[i].root = new[j].root
                 PROVE  i = j
      BY <2>5
    <3>1. CASE i \in 1..n /\ j \in 1..n
      BY <2>2, <2>3, <2>5, <3>1, ZenonT(60) DEF Sound
    <3>2. CASE i = n + 1 \/ j = n + 1
      BY <2>4, <2>5, <2>6, <2>8, <3>2
    <3> QED BY <2>8, <3>1, <3>2
  <2>11. \A i \in DOMAIN new : new[i].root = FolderOf(new[i].id)
    BY <2>2, <2>3, <2>4, <2>5, <2>7, <2>8 DEF Sound
  <2>12. new # <<>>
    BY <2>2, <2>5
  <2>13. Sound(new)
    BY <2>5, <2>9, <2>10, <2>11, <2>12 DEF Sound
  <2>14. Opened(list, root) = new
    BY <1>2 DEF Opened, new, none, w
  <2> QED BY <2>13, <2>14
<1> QED BY <1>1, <1>2

LEMMA SelectedIsSound ==
  ASSUME NEW list, Sound(list), NEW id, WithId(list, id) # {}, clock \in Nat
  PROVE  Sound(Selected(list, id))
BY FoundAt, ActivatedAt DEF Selected

LEMMA ClosedIsSound ==
  ASSUME NEW list, Sound(list), NEW id, WithId(list, id) # {}, Len(list) > 1
  PROVE  Sound(Closed(list, id))
<1> DEFINE k == Min(WithId(list, id))
           new == RemoveAt(list, k)
           at(i) == IF i < k THEN i ELSE i + 1
<1>1. k \in 1..Len(list) /\ list \in Seq(Workspace) /\ Len(list) \in Nat
  BY FoundAt, ListIs
<1>2. Closed(list, id) = FirstActive(new)
  BY DEF Closed
<1> HIDE DEF k
<1>3. /\ new \in Seq(Workspace) /\ Len(new) = Len(list) - 1
      /\ \A i \in 1..Len(new) : new[i] = list[at(i)]
  <2> DEFINE a == SubSeq(list, 1, k - 1)
             b == SubSeq(list, k + 1, Len(list))
  <2>1. /\ a \in Seq(Workspace) /\ Len(a) = k - 1
        /\ \A i \in 1..(k - 1) : a[i] = list[i]
    BY <1>1
  <2>2. /\ b \in Seq(Workspace) /\ Len(b) = Len(list) - k
        /\ \A i \in 1..(Len(list) - k) : b[i] = list[k + i]
    BY <1>1
  <2>3. new = a \o b
    BY DEF RemoveAt
  <2> HIDE DEF a, b, new
  <2>4. new \in Seq(Workspace) /\ Len(new) = Len(list) - 1
    BY <1>1, <2>1, <2>2, <2>3
  <2>5. ASSUME NEW i \in 1..Len(new)
        PROVE  new[i] = list[at(i)]
    <3>1. CASE i < k
      BY <1>1, <2>1, <2>2, <2>3, <2>4, <3>1
    <3>2. CASE ~(i < k)
      <4>1. new[i] = b[i - (k - 1)] /\ i - (k - 1) \in 1..(Len(list) - k) /\ k + (i - (k - 1)) = i + 1
        BY <1>1, <2>1, <2>2, <2>3, <2>4, <3>2
      <4> QED BY <2>2, <3>2, <4>1
    <3> QED BY <3>1, <3>2
  <2> QED BY <2>4, <2>5
<1> HIDE DEF new
<1>4. DOMAIN new = 1..Len(new) /\ 1 \in DOMAIN new
  BY <1>1, <1>3
<1>5. /\ \A i \in DOMAIN new : at(i) \in DOMAIN list
      /\ \A i, j \in DOMAIN new : at(i) = at(j) => i = j
  BY <1>1, <1>3, <1>4, SMTT(60)
<1> HIDE DEF at
<1>6. \A i, j \in Active(new) : i = j
  BY <1>3, <1>4, <1>5 DEF Active, Positions, Sound
<1>7. \A i, j \in DOMAIN new : new[i].id = new[j].id \/ new[i].root = new[j].root => i = j
  BY <1>3, <1>4, <1>5 DEF Sound
<1>8. \A i \in DOMAIN new : new[i].root = FolderOf(new[i].id)
  BY <1>3, <1>4, <1>5 DEF Sound
<1>9. Sound(new)
  BY <1>3, <1>4, <1>6, <1>7, <1>8 DEF Sound
<1> QED BY <1>2, <1>9, FirstActiveIs
-----------------------------------------------------------------------------
(* The manager and the requests that are under way                         *)

\* Steps of t that leave the lock alone, and change at most the order of the list.
LEMMA ListKept ==
  ASSUME ManagerInv, NEW t \in Threads, Only(t), thread[t].pc # "dump", thread'[t].pc # "dump",
         UNCHANGED <<lock, clock, stateFile, clobbered>>,
         Sound(workspaces'), Folders(workspaces') = Folders(workspaces)
  PROVE  ManagerInv'
<1>1. \A u \in Threads : At(u, "dump")' <=> At(u, "dump")
  BY DEF Only, At
<1>2. /\ clock' \in Nat /\ ~stateFile'.torn => Sound(stateFile'.list)
      /\ lock' \in Threads \cup {"free"}
      /\ lock' = "free" /\ ~clobbered' => ~stateFile'.torn /\ Folders(stateFile'.list) = Folders(workspaces')
  BY DEF ManagerInv
<1>3. \A u \in Threads : At(u, "dump")' <=> lock' = u
  BY <1>1 DEF ManagerInv
<1> QED BY <1>2, <1>3 DEF ManagerInv

\* What a step of t is to the requests of other threads.
KeepsOthers(t) ==
  \A u \in Threads \ {t} :
    /\ u \in moved => u \in moved'
    /\ u \in moved' => u \in moved \/ Busy(u)
    /\ Busy(u) => u \in moved' \/ Current(workspaces').root = Current(workspaces).root

LEMMA OthersKept ==
  ASSUME NEW t \in Threads, UNCHANGED workspaces, moved' \in {moved, moved \ {t}}
  PROVE  KeepsOthers(t)
BY DEF KeepsOthers

LEMMA MovesAreSeen ==
  ASSUME NEW t \in Threads, Sound(workspaces), Sound(workspaces'), Moves(workspaces')
  PROVE  KeepsOthers(t)
<1>1. CASE Current(workspaces').id = Current(workspaces).id
  <2>1. Current(workspaces').root = Current(workspaces).root
    BY <1>1, CurrentIs
  <2> QED BY <1>1, <2>1 DEF KeepsOthers, Moves
<1>2. CASE Current(workspaces').id # Current(workspaces).id
  BY <1>2 DEF KeepsOthers, Moves
<1> QED BY <1>1, <1>2

\* The request t serves acts on no workspace now, and has not said on which it did.
Aloof(t) ==
  /\ thread[t].pc \notin {"change", "resolve", "write", "relative", "named", "rewrite", "check"}
  /\ At(t, "replied") /\ thread[t].op \in {"save", "tree"} => "asked" \notin DOMAIN thread[t]
Served(t) == RouteOf(t) /\ (At(t, "replied") /\ thread[t].op \in {"save", "tree"} => GoesWhereAsked(t))

LEMMA AloofIsServed ==
  ASSUME NEW t, Aloof(t)'
  PROVE  Served(t)'
BY DEF Aloof, Served, RouteOf, GoesWhereAsked

LEMMA RoutesKept ==
  ASSUME WorkspacesInv, ManagerInv', NEW t \in Threads, Only(t), KeepsOthers(t), Served(t)'
  PROVE  WorkspacesInv'
<1>1. ASSUME NEW u \in Threads \ {t}
      PROVE  RouteOf(u)'
  <2>1. RouteOf(u) /\ thread'[u] = thread[u]
    BY DEF WorkspacesInv, Only
  <2>2. thread[u].pc \in {"write", "relative", "named"} /\ thread[u].arg = "none" =>
          u \in moved' \/ Current(workspaces').root = thread[u].root
    <3> SUFFICES ASSUME thread[u].pc \in {"write", "relative", "named"}, thread[u].arg = "none"
                 PROVE  u \in moved' \/ Current(workspaces').root = thread[u].root
      OBVIOUS
    <3>1. u \in moved \/ Current(workspaces).root = thread[u].root
      BY <2>1 DEF RouteOf
    <3>2. Busy(u)
      BY DEF Busy
    <3> QED BY <3>1, <3>2 DEF KeepsOthers
  <2> QED BY <2>1, <2>2 DEF RouteOf
<1>2. ASSUME NEW u \in Threads \ {t}, At(u, "replied")', thread'[u].op \in {"save", "tree"}
      PROVE  GoesWhereAsked(u)'
  <2>1. thread'[u] = thread[u]
    BY DEF Only
  <2>2. GoesWhereAsked(u)
    BY <1>2, <2>1 DEF WorkspacesInv, SavesGoWhereAsked, Replied, At
  <2>3. u \in moved' <=> u \in moved
    BY <1>2, <2>1 DEF KeepsOthers, Busy, At
  <2> QED BY <2>1, <2>2, <2>3 DEF GoesWhereAsked
<1>3. SavesGoWhereAsked'
  <2> SUFFICES ASSUME NEW u \in Threads, At(u, "replied")', thread'[u].op \in {"save", "tree"}
               PROVE  GoesWhereAsked(u)'
    BY DEF SavesGoWhereAsked, Replied
  <2> QED BY <1>2 DEF Served
<1>4. \A u \in Threads : RouteOf(u)'
  BY <1>1 DEF Served
<1> QED BY <1>3, <1>4 DEF WorkspacesInv

\* Whatever else is served leaves the manager and its requests alone.
LEMMA ElsewhereKept ==
  ASSUME WorkspacesInv, NEW t \in Threads, Only(t), thread[t].pc # "dump", thread'[t].pc # "dump",
         Served(t)',
         UNCHANGED <<workspaces, lock, clock, stateFile, clobbered>>, moved' \in {moved, moved \ {t}}
  PROVE  WorkspacesInv'
<1>1. ManagerInv' /\ KeepsOthers(t)
  BY ListKept, OthersKept DEF WorkspacesInv, ManagerInv
<1> QED BY <1>1, RoutesKept
-----------------------------------------------------------------------------
(* The routes of workspaces                                                *)

LEMMA RepliedIsAloof ==
  ASSUME ThreadsInv, NEW t \in Threads, NEW status, Reply(t, status)
  PROVE  Aloof(t)' /\ thread'[t].pc = "replied"
<1> DEFINE r == [pc |-> "replied", op |-> thread[t].op, status |-> status]
<1>1. Become(t, r)
  BY DEF Reply
<1>2. DOMAIN r = {"pc", "op", "status"} /\ r.pc = "replied"
  OBVIOUS
<1> HIDE DEF r
<1>3. thread'[t] = r
  BY <1>1, BecomeIs
<1> QED BY <1>2, <1>3 DEF Aloof

LEMMA GoneToIsAloof ==
  ASSUME ThreadsInv, NEW t \in Threads, NEW p \in {"dump", "current", "listing", "map"}, Goto(t, p)
  PROVE  Aloof(t)' /\ thread'[t].pc = p
BY GotoIs DEF Aloof, At

LEMMA ListChanges ==
  ASSUME ThreadsInv, WorkspacesInv, NEW t \in Threads, Change(t)
  PROVE  WorkspacesInv'
<1>1. /\ Only(t) /\ Aloof(t)' /\ thread'[t].pc = "dump" /\ lock = "free" /\ lock' = t /\ thread[t].pc = "change"
      /\ clobbered' = clobbered /\ stateFile' = Torn /\ Moves(workspaces')
      /\ clock' = clock + (IF thread[t].op = "close" THEN 0 ELSE 1)
  BY GotoIs, GoneToIsAloof DEF Change, At
<1>2. Sound(workspaces) /\ clock \in Nat
  BY DEF WorkspacesInv, ManagerInv
<1> DEFINE op == thread[t].op
           arg == thread[t].arg
<1>3. op \in {"open", "select", "close"} /\ (op = "open" => arg \in Roots)
  BY <1>1 DEF WorkspacesInv, RouteOf
<1>4. /\ workspaces' = Changed(op, arg) /\ Found(op, arg)
      /\ op = "close" => Len(workspaces) > 1
  BY DEF Change
<1> HIDE DEF op, arg
<1>5. Sound(workspaces')
  <2>1. CASE op = "open"
    <3>1. workspaces' = Opened(workspaces, arg) /\ arg \in Roots
      BY <1>3, <1>4, <2>1 DEF Changed
    <3> QED BY <1>2, <3>1, OpenedIsSound
  <2>2. CASE op = "select"
    <3>1. workspaces' = Selected(workspaces, arg)
      BY <1>4, <2>2 DEF Changed
    <3>2. WithId(workspaces, arg) # {}
      BY <1>4, <2>2 DEF Found
    <3> QED BY <1>2, <3>1, <3>2, SelectedIsSound
  <2>3. CASE op = "close"
    <3>1. workspaces' = Closed(workspaces, arg) /\ WithId(workspaces, arg) # {} /\ Len(workspaces) > 1
      BY <1>4, <2>3 DEF Changed, Found
    <3> QED BY <1>2, <3>1, ClosedIsSound
  <2> QED BY <1>3, <2>1, <2>2, <2>3
<1>6. \A u \in Threads : At(u, "dump")' <=> lock' = u
  <2>1. \A u \in Threads : ~At(u, "dump")
    BY <1>1, WorkspacesAssumption DEF WorkspacesInv, ManagerInv
  <2> QED BY <1>1, <2>1 DEF Only, At
<1>7. ManagerInv'
  <2>1. clock' \in Nat
    BY <1>1, <1>2
  <2>2. stateFile'.torn /\ lock' # "free" /\ lock' \in Threads
    BY <1>1, WorkspacesAssumption DEF Torn
  <2> QED BY <1>5, <1>6, <2>1, <2>2 DEF ManagerInv
<1>8. KeepsOthers(t)
  BY <1>1, <1>2, <1>5, MovesAreSeen
<1> QED BY <1>1, <1>7, <1>8, AloofIsServed, RoutesKept

LEMMA ListDumped ==
  ASSUME ThreadsInv, WorkspacesInv, NEW t \in Threads, Dump(t)
  PROVE  WorkspacesInv'
<1>1. /\ Only(t) /\ Aloof(t)' /\ thread'[t].pc = "current" /\ lock = t /\ lock' = "free"
      /\ stateFile' = Stored(workspaces) /\ UNCHANGED <<workspaces, clock, moved>>
  BY GotoIs, GoneToIsAloof DEF Dump
<1>2. Sound(workspaces) /\ clock \in Nat
  BY DEF WorkspacesInv, ManagerInv
<1>3. stateFile'.torn = FALSE /\ stateFile'.list = workspaces
  BY <1>1 DEF Stored
<1>4. \A u \in Threads : ~At(u, "dump")'
  <2>1. \A u \in Threads : At(u, "dump") => u = t
    BY <1>1 DEF WorkspacesInv, ManagerInv
  <2> QED BY <1>1, <2>1 DEF Only, At
<1>5. ManagerInv'
  BY <1>1, <1>2, <1>3, <1>4, WorkspacesAssumption DEF ManagerInv
<1> QED BY <1>1, <1>5, AloofIsServed, OthersKept, RoutesKept

LEMMA ListNotDumped ==
  ASSUME ThreadsInv, WorkspacesInv, NEW t \in Threads, DumpFails(t)
  PROVE  WorkspacesInv'
<1>1. /\ Only(t) /\ Aloof(t)' /\ thread'[t].pc = "replied" /\ lock = t /\ lock' = "free" /\ clobbered' = TRUE
      /\ UNCHANGED <<workspaces, stateFile, clock, moved>>
  BY RepliedIsAloof, BecomeIs DEF DumpFails, Reply
<1>2. \A u \in Threads : ~At(u, "dump")'
  <2>1. \A u \in Threads : At(u, "dump") => u = t
    BY <1>1 DEF WorkspacesInv, ManagerInv
  <2> QED BY <1>1, <2>1 DEF Only, At
<1>3. ManagerInv'
  BY <1>1, <1>2, WorkspacesAssumption DEF WorkspacesInv, ManagerInv
<1> QED BY <1>1, <1>3, AloofIsServed, OthersKept, RoutesKept

LEMMA ListRearranged ==
  ASSUME ThreadsInv, WorkspacesInv, NEW t \in Threads, SelectUnknown(t) \/ SummaryList(t)
  PROVE  WorkspacesInv'
<1>1. Sound(workspaces)
  BY DEF WorkspacesInv, ManagerInv
<1>2. CASE SelectUnknown(t)
  <2>1. /\ thread[t].pc = "change" /\ Moves(workspaces') /\ Reply(t, 404)
        /\ UNCHANGED <<lock, clock, stateFile, clobbered>>
    BY <1>2 DEF SelectUnknown, At
  <2>2. workspaces' = Activated(workspaces, thread[t].arg)
    BY <1>2 DEF SelectUnknown, Changed
  <2>3. Sound(workspaces') /\ Folders(workspaces') = Folders(workspaces)
    BY <1>1, <2>2, ActivatedIs
  <2>4. Only(t) /\ Aloof(t)' /\ thread'[t].pc = "replied"
    BY <2>1, RepliedIsAloof, BecomeIs DEF Reply
  <2>5. ManagerInv' /\ KeepsOthers(t)
    BY <1>1, <2>1, <2>3, <2>4, ListKept, MovesAreSeen DEF WorkspacesInv
  <2> QED BY <2>4, <2>5, AloofIsServed, RoutesKept
<1>3. CASE SummaryList(t)
  <2>1. /\ thread[t].pc = "listing" /\ Moves(workspaces') /\ Goto(t, "map")
        /\ UNCHANGED <<lock, clock, stateFile, clobbered>> /\ workspaces' \in Sortings(workspaces)
    BY <1>3 DEF SummaryList, At
  <2>3. Sound(workspaces') /\ Folders(workspaces') = Folders(workspaces)
    BY <1>1, <2>1, SortedIsSound
  <2>4. Only(t) /\ Aloof(t)' /\ thread'[t].pc = "map"
    BY <2>1, GoneToIsAloof, GotoIs
  <2>5. ManagerInv' /\ KeepsOthers(t)
    BY <1>1, <2>1, <2>3, <2>4, ListKept, MovesAreSeen DEF WorkspacesInv
  <2> QED BY <2>4, <2>5, AloofIsServed, RoutesKept
<1> QED BY <1>2, <1>3

\* Requests begin, and the steps that only look the current workspace up.
LEMMA RouteBegins ==
  ASSUME ThreadsInv, WorkspacesInv, NEW t \in Threads, WorkspacesRequest(t)
  PROVE  WorkspacesInv'
<1>1. /\ moved' = moved \ {t} /\ UNCHANGED <<workspaces, lock, clock, stateFile, clobbered>>
  BY DEF WorkspacesRequest, Request, RequestFile
<1>2. ASSUME NEW r, Begin(t, r), r.pc \in {"change", "missing", "current", "resolve"},
             r.pc = "change" => r.op \in {"open", "select", "close"} /\ (r.op = "open" => r.arg \in Roots),
             r.pc = "resolve" => {"op", "arg", "root"} \subseteq DOMAIN r
      PROVE  WorkspacesInv'
  <2>1. Only(t) /\ thread'[t] = r /\ thread[t].pc # "dump"
    BY <1>2, BeginIs
  <2>2. Served(t)'
    BY <1>2, <2>1 DEF Served, RouteOf, At
  <2>3. thread'[t].pc # "dump"
    BY <1>2, <2>1
  <2> QED BY <1>1, <2>1, <2>2, <2>3, ElsewhereKept
<1>3. ASSUME NEW p \in {"change", "missing", "current"}, NEW o, NEW a, Begin(t, [pc |-> p, op |-> o, arg |-> a]),
             p = "change" => o \in {"open", "select", "close"} /\ (o = "open" => a \in Roots)
      PROVE  WorkspacesInv'
  <2> DEFINE r == [pc |-> p, op |-> o, arg |-> a]
  <2>1. r.pc = p /\ r.op = o /\ r.arg = a /\ Begin(t, r)
    BY <1>3
  <2> HIDE DEF r
  <2> QED BY <1>2, <1>3, <2>1
<1>4. CASE Request(t)
  <2>1. ASSUME NEW root \in Roots, RequestOpen(t, root)
        PROVE  WorkspacesInv'
    <3>1. PICK p \in {"change", "missing"} : Begin(t, [pc |-> p, op |-> "open", arg |-> root])
      BY <2>1 DEF RequestOpen
    <3> QED BY <1>3, <3>1
  <2>2. ASSUME NEW id, RequestSelect(t, id) \/ RequestClose(t, id)
        PROVE  WorkspacesInv'
    <3>1. PICK o \in {"select", "close"} : Begin(t, [pc |-> "change", op |-> o, arg |-> id])
      BY <2>2 DEF RequestSelect, RequestClose
    <3> QED BY <1>3, <3>1
  <2>3. CASE RequestList(t)
    <3>1. Begin(t, [pc |-> "current", op |-> "list", arg |-> ""])
      BY <2>3 DEF RequestList
    <3> QED BY <1>3, <3>1
  <2> QED BY <1>4, <2>1, <2>2, <2>3 DEF Request
<1>5. CASE RequestFile(t)
  <2>1. PICK o, a : Begin(t, [pc |-> "resolve", op |-> o, arg |-> a, root |-> "none"])
    BY <1>5 DEF RequestFile
  <2> DEFINE r == [pc |-> "resolve", op |-> o, arg |-> a, root |-> "none"]
  <2>2. r.pc = "resolve" /\ {"op", "arg", "root"} \subseteq DOMAIN r /\ Begin(t, r)
    BY <2>1
  <2> HIDE DEF r
  <2> QED BY <1>2, <2>2
<1> QED BY <1>4, <1>5 DEF WorkspacesRequest

LEMMA RouteLooks ==
  ASSUME ThreadsInv, WorkspacesInv, NEW t \in Threads,
         OpenMissing(t) \/ CloseRefused(t) \/ SummaryCurrent(t) \/ SummaryMap(t)
  PROVE  WorkspacesInv'
<1>1. thread[t].pc # "dump" /\ UNCHANGED <<workspaces, lock, clock, stateFile, clobbered, moved>>
  BY DEF OpenMissing, CloseRefused, SummaryCurrent, SummaryMap, At, workspaceVars
<1>2. Only(t) /\ Aloof(t)' /\ thread'[t].pc # "dump"
  <2>1. CASE OpenMissing(t) \/ SummaryMap(t)
    <3>1. PICK status : Reply(t, status)
      BY <2>1 DEF OpenMissing, SummaryMap
    <3> QED BY <3>1, RepliedIsAloof, BecomeIs DEF Reply
  <2>2. CASE CloseRefused(t)
    BY <2>2, GoneToIsAloof, GotoIs DEF CloseRefused
  <2>3. CASE SummaryCurrent(t)
    <3> DEFINE r == [pc |-> "listing", op |-> thread[t].op, arg |-> Current(workspaces).id]
    <3>1. Become(t, r) /\ r.pc = "listing"
      BY <2>3 DEF SummaryCurrent
    <3> HIDE DEF r
    <3>2. Only(t) /\ thread'[t] = r
      BY <3>1, BecomeIs
    <3> QED BY <3>1, <3>2 DEF Aloof, At
  <2> QED BY <2>1, <2>2, <2>3
<1> QED BY <1>1, <1>2, AloofIsServed, ElsewhereKept
-----------------------------------------------------------------------------
(* save_file and tree                                                      *)

LEMMA RouteResolves ==
  ASSUME ThreadsInv, WorkspacesInv, NEW t \in Threads, Resolve(t)
  PROVE  WorkspacesInv'
<1>1. thread[t].pc = "resolve" /\ UNCHANGED <<workspaces, lock, clock, stateFile, clobbered, moved>>
  BY DEF Resolve, At, workspaceVars
<1>2. Sound(workspaces) /\ {"op", "arg", "root"} \subseteq DOMAIN thread[t] /\ "pc" \in DOMAIN thread[t]
  BY <1>1 DEF WorkspacesInv, ManagerInv, RouteOf, ThreadsInv
<1>3. CASE ~Known(thread[t].arg)
  <2>1. Reply(t, 500)
    BY <1>3 DEF Resolve
  <2>2. Only(t) /\ Aloof(t)' /\ thread'[t].pc # "dump"
    BY <2>1, RepliedIsAloof, BecomeIs DEF Reply
  <2> QED BY <1>1, <2>2, AloofIsServed, ElsewhereKept
<1>4. CASE Known(thread[t].arg)
  <2>1. PICK p \in {"relative", "write"} : Become(t, [thread[t] EXCEPT !.pc = p, !.root = RootOf(thread[t].arg)])
    BY <1>4 DEF Resolve
  <2>2. Only(t) /\ thread'[t] = [thread[t] EXCEPT !.pc = p, !.root = RootOf(thread[t].arg)]
    BY <2>1, BecomeIs
  <2>3. /\ thread'[t].pc = p /\ thread'[t].root = RootOf(thread[t].arg) /\ thread'[t].arg = thread[t].arg
        /\ DOMAIN thread'[t] = DOMAIN thread[t]
    BY <1>2, <2>2
  <2>4. Served(t)'
    BY <1>1, <1>2, <1>4, <2>3, RootIs DEF Served, RouteOf, At
  <2> QED BY <1>1, <2>2, <2>3, <2>4, ElsewhereKept
<1> QED BY <1>3, <1>4

LEMMA RouteWrites ==
  ASSUME ThreadsInv, WorkspacesInv, NEW t \in Threads, WriteFile(t)
  PROVE  WorkspacesInv'
<1>1. thread[t].pc = "write" /\ Goto(t, "relative") /\ UNCHANGED <<workspaces, lock, clock, stateFile, clobbered, moved>>
  BY DEF WriteFile, At
<1>2. RouteOf(t) /\ {"op", "arg", "root"} \subseteq DOMAIN thread[t]
  BY <1>1 DEF WorkspacesInv, RouteOf
<1>3. /\ Only(t) /\ thread'[t].pc = "relative" /\ DOMAIN thread'[t] = DOMAIN thread[t]
      /\ thread'[t].arg = thread[t].arg /\ thread'[t].root = thread[t].root
  BY <1>1, <1>2, GotoIs
<1>4. Served(t)'
  BY <1>1, <1>2, <1>3 DEF Served, RouteOf, At
<1> QED BY <1>1, <1>3, <1>4, ElsewhereKept

LEMMA RouteAnswers ==
  ASSUME ThreadsInv, WorkspacesInv, NEW t \in Threads, Relative(t) \/ Named(t)
  PROVE  WorkspacesInv'
<1>1. thread[t].pc \in {"relative", "named"} /\ UNCHANGED <<workspaces, lock, clock, stateFile, clobbered, moved>>
  BY DEF Relative, Named, At, workspaceVars
<1>2. Sound(workspaces) /\ RouteOf(t) /\ {"op", "arg", "root"} \subseteq DOMAIN thread[t]
  BY <1>1 DEF WorkspacesInv, ManagerInv, RouteOf
<1> DEFINE arg == thread[t].arg
           root == thread[t].root
<1>3. IF arg # "none" THEN FolderOf(arg) = root ELSE t \in moved \/ Current(workspaces).root = root
  BY <1>1, <1>2 DEF RouteOf
<1>4. ASSUME NEW status, NEW id, Answer(t, status, id),
             status = 200 /\ (arg # "none" \/ t \notin moved) /\ id # "none" => FolderOf(id) = root,
             status = 500 /\ arg = "none" => t \in moved
      PROVE  WorkspacesInv'
  <2> DEFINE r == [pc |-> "replied", op |-> thread[t].op, status |-> status, root |-> root,
                   asked |-> arg, named |-> id]
  <2>1. Become(t, r)
    BY <1>4 DEF Answer
  <2>2. r.pc = "replied" /\ r.status = status /\ r.root = root /\ r.asked = arg /\ r.named = id
    OBVIOUS
  <2> HIDE DEF r
  <2>3. Only(t) /\ thread'[t] = r
    BY <2>1, BecomeIs
  <2>4. GoesWhereAsked(t)'
    BY <1>1, <1>3, <1>4, <2>2, <2>3 DEF GoesWhereAsked
  <2>5. Served(t)'
    BY <2>2, <2>3, <2>4 DEF Served, RouteOf
  <2>6. thread[t].pc # "dump" /\ thread'[t].pc # "dump"
    BY <1>1, <2>2, <2>3
  <2> QED BY <1>1, <2>3, <2>5, <2>6, ElsewhereKept
<1>5. CASE Relative(t)
  <2>1. CASE Answer(t, 404, "none")
    BY <1>4, <2>1
  <2>2. CASE Answer(t, 500, "none") /\ (~Known(arg) \/ RootOf(arg) # root)
    <3>1. arg = "none" => t \in moved
      BY <1>2, <1>3, <2>2, RootIs DEF Known
    <3> QED BY <1>4, <2>2, <3>1
  <2>3. CASE Answer(t, 200, arg)
    BY <1>3, <1>4, <2>3
  <2>4. CASE Goto(t, "named")
    <3>1. /\ Only(t) /\ thread'[t].pc = "named" /\ DOMAIN thread'[t] = DOMAIN thread[t]
          /\ thread'[t].arg = thread[t].arg /\ thread'[t].root = thread[t].root
      BY <1>2, <2>4, GotoIs
    <3>2. Served(t)'
      BY <1>1, <1>2, <1>3, <3>1 DEF Served, RouteOf, At
    <3>3. thread[t].pc # "dump"
      BY <1>1
    <3> QED BY <1>1, <3>1, <3>2, <3>3, ElsewhereKept
  <2> QED BY <1>5, <2>1, <2>2, <2>3, <2>4 DEF Relative
<1>6. CASE Named(t)
  <2> DEFINE id == IF arg = "none" THEN Current(workspaces).id ELSE arg
  <2>1. Answer(t, 200, id)
    BY <1>6 DEF Named
  <2>2. arg = "none" /\ t \notin moved => FolderOf(id) = root
    BY <1>2, <1>3, CurrentIs
  <2>3. arg # "none" => FolderOf(id) = root
    BY <1>3
  <2> HIDE DEF id, arg, root
  <2> QED BY <1>4, <2>1, <2>2, <2>3
<1> QED BY <1>5, <1>6

LEMMA RouteServed ==
  ASSUME ThreadsInv, WorkspacesInv, NEW t \in Threads, ServeWorkspaces(t)
  PROVE  WorkspacesInv'
BY RouteBegins, ListChanges, ListDumped, ListNotDumped, ListRearranged, RouteLooks, RouteResolves, RouteWrites, RouteAnswers
   DEF ServeWorkspaces, WorkspacesStep
-----------------------------------------------------------------------------
(* Verifications, chats, debates and restarts                              *)

LEMMA FileRewritten ==
  ASSUME ThreadsInv, WorkspacesInv, NEW t \in Threads, Rewrite(t)
  PROVE  WorkspacesInv'
<1>1. /\ thread[t].pc = "rewrite" /\ Goto(t, "check") /\ stateFile' = Stored(thread[t].list) /\ clobbered' = TRUE
      /\ UNCHANGED <<workspaces, lock, clock, moved>>
  BY DEF Rewrite, At
<1>2. "list" \in DOMAIN thread[t] /\ Sound(thread[t].list)
  BY <1>1 DEF WorkspacesInv, RouteOf
<1>3. Only(t) /\ thread'[t].pc = "check" /\ DOMAIN thread'[t] = DOMAIN thread[t] /\ thread'[t].list = thread[t].list
  BY <1>1, <1>2, GotoIs
<1>4. stateFile'.torn = FALSE /\ stateFile'.list = thread[t].list
  BY <1>1 DEF Stored
<1>5. \A u \in Threads : At(u, "dump")' <=> At(u, "dump")
  BY <1>1, <1>3 DEF Only, At
<1>6. ManagerInv'
  BY <1>1, <1>2, <1>4, <1>5 DEF WorkspacesInv, ManagerInv
<1>7. Served(t)'
  BY <1>2, <1>3 DEF Served, RouteOf, At
<1> QED BY <1>1, <1>3, <1>6, <1>7, OthersKept, RoutesKept

LEMMA CopyLoaded ==
  ASSUME ThreadsInv, WorkspacesInv, NEW t \in Threads, Load(t)
  PROVE  WorkspacesInv'
<1>1. thread[t].pc = "load" /\ UNCHANGED <<workspaces, lock, clock, stateFile, clobbered, moved>>
  BY DEF Load, At, workspaceVars
<1>2. PICK p \in {"rewrite", "check"} : \E run, f, ok :
        Become(t, [pc |-> p, op |-> "verify", run |-> run, failed |-> f, ok |-> ok, list |-> Loaded(stateFile)])
  BY DEF Load
<1>3. PICK run, f, ok :
        Become(t, [pc |-> p, op |-> "verify", run |-> run, failed |-> f, ok |-> ok, list |-> Loaded(stateFile)])
  BY <1>2
<1> DEFINE r == [pc |-> p, op |-> "verify", run |-> run, failed |-> f, ok |-> ok, list |-> Loaded(stateFile)]
<1>4. r.pc = p /\ "list" \in DOMAIN r /\ r.list = Loaded(stateFile) /\ Become(t, r)
  BY <1>3
<1> HIDE DEF r
<1>5. Only(t) /\ thread'[t] = r
  BY <1>4, BecomeIs
<1>6. Sound(r.list)
  BY <1>4, LoadedIsSound DEF WorkspacesInv, ManagerInv
<1>7. Served(t)'
  BY <1>2, <1>4, <1>5, <1>6 DEF Served, RouteOf, At
<1>8. thread[t].pc # "dump" /\ thread'[t].pc # "dump"
  BY <1>1, <1>2, <1>4, <1>5
<1> QED BY <1>1, <1>5, <1>7, <1>8, ElsewhereKept

LEMMA VerificationAside ==
  ASSUME ThreadsInv, WorkspacesInv, VerifyInv, NEW t \in Threads, ServeVerify(t)
  PROVE  WorkspacesInv'
<1>1. CASE Rewrite(t) \/ Load(t)
  BY <1>1, FileRewritten, CopyLoaded
<1>2. CASE ~(Rewrite(t) \/ Load(t))
  <2>1. /\ Only(t) /\ thread'[t].pc \in VerifyPC \cup {"replied"} /\ thread'[t].op = "verify"
        /\ thread[t].pc \in VerifyPC \cup {"idle", "replied"}
    BY VerifyMoves
  <2>2. /\ thread'[t].pc \notin {"rewrite", "check"}
        /\ UNCHANGED <<workspaces, lock, clock, stateFile, clobbered>> /\ moved' \in {moved, moved \ {t}}
    <3>1. CASE RequestVerify(t)
      BY <3>1, RunStarts DEF RequestVerify
    <3>2. CASE Build(t)
      <4>1. PICK run, f, ok : Become(t, [pc |-> "load", op |-> "verify", run |-> run, failed |-> f, ok |-> ok])
        BY <3>2 DEF Build
      <4> DEFINE r == [pc |-> "load", op |-> "verify", run |-> run, failed |-> f, ok |-> ok]
      <4>2. Become(t, r) /\ r.pc = "load"
        BY <4>1
      <4> HIDE DEF r
      <4> QED BY <3>2, <4>2, BecomeIs DEF Build, workspaceVars
    <3>3. CASE Check(t) \/ CheckWithUv(t)
      <4>1. PICK run, f, ok : Become(t, [pc |-> "report", op |-> "verify", run |-> run, failed |-> f, ok |-> ok])
        BY <3>3 DEF Check, CheckWithUv
      <4> DEFINE r == [pc |-> "report", op |-> "verify", run |-> run, failed |-> f, ok |-> ok]
      <4>2. Become(t, r) /\ r.pc = "report"
        BY <4>1
      <4> HIDE DEF r
      <4> QED BY <3>3, <4>2, BecomeIs DEF Check, CheckWithUv, workspaceVars
    <3>4. CASE Collapse(t)
      BY <3>4, RunCollapses DEF Collapse, workspaceVars
    <3>5. CASE TruncateReport(t)
      BY <3>5, ReportTruncated DEF TruncateReport, workspaceVars
    <3>6. CASE WriteReport(t)
      BY <3>6, ReportWritten DEF WriteReport, workspaceVars
    <3>7. CASE ReadReport(t)
      BY <3>7, ReportRead DEF ReadReport, workspaceVars
    <3> QED BY <1>2, <3>1, <3>2, <3>3, <3>4, <3>5, <3>6, <3>7 DEF ServeVerify, VerifyStep
  <2>3. Aloof(t)'
    BY <2>1, <2>2 DEF Aloof, At, VerifyPC
  <2>4. thread[t].pc # "dump" /\ thread'[t].pc # "dump"
    BY <2>1 DEF VerifyPC
  <2> QED BY <2>1, <2>2, <2>3, <2>4, AloofIsServed, ElsewhereKept
<1> QED BY <1>1, <1>2

LEMMA ChatAndBridgeAside ==
  ASSUME ThreadsInv, WorkspacesInv, ChatInv, BridgeInv, NEW t \in Threads, ServeChat(t) \/ ServeBridge(t)
  PROVE  WorkspacesInv'
<1>1. /\ Only(t) /\ thread'[t].pc \in ChatPC \cup BridgePC \cup {"replied"}
      /\ thread'[t].op \notin {"save", "tree"} /\ thread[t].pc \in ChatPC \cup BridgePC \cup {"idle", "replied"}
  BY ChatMoves, BridgeMoves
<1>2. UNCHANGED <<workspaces, lock, clock, stateFile, clobbered>> /\ moved' \in {moved, moved \ {t}}
  BY DEF ServeChat, ServeBridge, RequestChat, ChatStep, Prepare, ShowFile, AskTree, Tree, Model, LoadMemory, TruncateMemory,
         WriteMemory, workspaceVars
<1>3. Aloof(t)' /\ thread[t].pc # "dump" /\ thread'[t].pc # "dump"
  BY <1>1 DEF Aloof, At, ChatPC, BridgePC
<1> QED BY <1>1, <1>2, <1>3, AloofIsServed, ElsewhereKept

\* Nobody is served: the folders change, or nothing does.
LEMMA NobodyMoves ==
  ASSUME WorkspacesInv, UNCHANGED <<thread, workspaces, lock, clock, stateFile, clobbered, moved>>
  PROVE  WorkspacesInv'
BY DEF WorkspacesInv, ManagerInv, SavesGoWhereAsked, GoesWhereAsked, RouteOf, Replied, At

\* Behind a restart nobody does anything but the scripts that went on.
LEMMA WhoIsLeft ==
  ASSUME ServerRestart, NEW t \in Threads
  PROVE  thread'[t].pc = "idle" \/ (thread'[t] = thread[t] /\ thread[t].pc \in Scripted)
BY DEF ServerRestart, Restart, Die, Idle

\* A fresh manager has the list of the file, or the default one.
LEMMA ManagerRestarts ==
  ASSUME WorkspacesInv, ServerRestart
  PROVE  WorkspacesInv'
<1>1. workspaces' = Loaded(stateFile) /\ lock' = "free" /\ stateFile' = Stored(workspaces') /\ clock' = clock
  BY DEF ServerRestart, Restart
<1>0. \A t \in Threads :
        thread'[t].pc = "idle" \/ (thread'[t] = thread[t] /\ thread[t].pc \in Scripted)
  BY WhoIsLeft
<1>5. \A t \in Threads : thread'[t].pc \notin {"dump", "change", "resolve", "write", "relative", "named", "replied"}
  BY <1>0 DEF Scripted
<1>6. \A t \in Threads : RouteOf(t)'
  <2> SUFFICES ASSUME NEW t \in Threads
               PROVE  RouteOf(t)'
    OBVIOUS
  <2>1. RouteOf(t)
    BY DEF WorkspacesInv
  <2>2. CASE thread'[t].pc = "idle"
    BY <2>2 DEF RouteOf
  <2>3. CASE thread'[t] = thread[t]
    BY <1>5, <2>1, <2>3 DEF RouteOf
  <2> QED BY <1>0, <2>2, <2>3
<1>2. Sound(workspaces') /\ clock' \in Nat
  BY <1>1, LoadedIsSound DEF WorkspacesInv, ManagerInv
<1>3. stateFile'.torn = FALSE /\ stateFile'.list = workspaces'
  BY <1>1 DEF Stored
<1>4. ManagerInv'
  BY <1>1, <1>2, <1>3, <1>5, WorkspacesAssumption DEF ManagerInv, At
<1> QED BY <1>4, <1>5, <1>6 DEF WorkspacesInv, SavesGoWhereAsked, Replied, At

LEMMA ManagerStarts == Init => WorkspacesInv
<1> SUFFICES ASSUME Init
             PROVE  WorkspacesInv
  OBVIOUS
<1>1. /\ \A t \in Threads : thread[t].pc = "idle"
      /\ lock = "free" /\ clock = 1 /\ stateFile = Stored(workspaces)
  BY DEF Init, RequestsInit, WorkspacesInit, Idle
<1>2. Sound(workspaces)
  <2>1. CASE workspaces = Default
    BY <2>1, DefaultIsSound
  <2>2. CASE workspaces # Default
    <3>1. PICK other \in Roots \ {"home"} :
            workspaces = Append(Default, [id |-> other, root |-> other, active |-> FALSE, opened |-> 0])
      BY <2>2 DEF Init, WorkspacesInit
    <3> DEFINE w == [id |-> other, root |-> other, active |-> FALSE, opened |-> 0]
    <3>2. w \in Workspace /\ w.id = other /\ w.root = other /\ w.active = FALSE
      BY DEF Workspace
    <3>3. /\ Default \in Seq(Workspace) /\ Len(Default) = 1
          /\ Default[1].id = "default" /\ Default[1].root = "home"
      BY DefaultIsSound DEF Sound, Default
    <3> HIDE DEF w
    <3>4. /\ workspaces \in Seq(Workspace) /\ DOMAIN workspaces = {1, 2} /\ workspaces # <<>>
          /\ workspaces[1] = Default[1] /\ workspaces[2] = w
      <4>1. workspaces = Append(Default, w)
        BY <3>1 DEF w
      <4> DEFINE d == Default
                 new == Append(d, w)
      <4> HIDE DEF d
      <4>5. d \in Seq(Workspace) /\ w \in Workspace
        BY <3>2, <3>3 DEF d
      <4>6. new \in Seq(Workspace) /\ Len(new) = 2 /\ new[1] = d[1] /\ new[2] = w
        <5>1. /\ new \in Seq(Workspace) /\ Len(new) = Len(d) + 1
              /\ \A i \in 1..Len(d) : new[i] = d[i]
              /\ new[Len(d) + 1] = w
          BY <4>5
        <5>2. Len(d) = 1
          BY <3>3 DEF d
        <5> HIDE DEF new
        <5> QED BY <5>1, <5>2
      <4>7. workspaces = new
        BY <4>1 DEF d
      <4> HIDE DEF new
      <4>2. Len(workspaces) = 2 /\ workspaces \in Seq(Workspace)
        BY <4>6, <4>7
      <4>3. workspaces[1] = Default[1] /\ workspaces[2] = w
        BY <4>6, <4>7 DEF d
      <4>4. DOMAIN workspaces = 1..2 /\ 1..2 = {1, 2}
        BY <4>2
      <4> QED BY <4>2, <4>3, <4>4
    <3>5. other # "default" /\ other # "home" /\ FolderOf(other) = other /\ FolderOf("default") = "home"
      BY WorkspacesAssumption DEF FolderOf
    <3>6. \A i, j \in Active(workspaces) : i = j
      BY <3>2, <3>4 DEF Active, Positions
    <3>7. \A i, j \in DOMAIN workspaces :
            workspaces[i].id = workspaces[j].id \/ workspaces[i].root = workspaces[j].root => i = j
      BY <3>2, <3>3, <3>4, <3>5
    <3>8. \A i \in DOMAIN workspaces : workspaces[i].root = FolderOf(workspaces[i].id)
      BY <3>2, <3>3, <3>4, <3>5
    <3> QED BY <3>4, <3>6, <3>7, <3>8 DEF Sound
  <2> QED BY <2>1, <2>2
<1>3. stateFile.torn = FALSE /\ stateFile.list = workspaces
  BY <1>1 DEF Stored
<1>4. ManagerInv
  BY <1>1, <1>2, <1>3, WorkspacesAssumption DEF ManagerInv, At
<1> QED BY <1>1, <1>4 DEF WorkspacesInv, SavesGoWhereAsked, Replied, RouteOf, At

LEMMA HeldTogether ==
  ASSUME WorkspacesInv
  PROVE  WorkspacesHoldTogether
<1>1. ManagerInv /\ SavesGoWhereAsked /\ Sound(workspaces)
  BY DEF WorkspacesInv, ManagerInv
<1>2. Cardinality(Active(workspaces)) <= 1
  <2>1. CASE Active(workspaces) = {}
    BY <2>1, FS_EmptySet
  <2>2. CASE Active(workspaces) # {}
    <3>1. PICK k \in Active(workspaces) : TRUE
      BY <2>2
    <3>2. Active(workspaces) = {k}
      BY <1>1 DEF Sound
    <3>3. Cardinality({k}) = 1
      BY FS_Singleton
    <3>4. Cardinality(Active(workspaces)) = 1
      BY <3>2, <3>3
    <3> QED BY <3>4
  <2> QED BY <2>1, <2>2
<1>3. lock = "free" <=> \A t \in Threads : ~At(t, "dump")
  BY <1>1, WorkspacesAssumption DEF ManagerInv
<1>4. lock = "free" /\ ~clobbered => {w.root : w \in ToSet(stateFile.list)} = {w.root : w \in ToSet(workspaces)}
  <2>1. ASSUME NEW list
        PROVE  {w.root : w \in ToSet(list)} = Folders(list)
    BY DEF ToSet, Folders
  <2> QED BY <1>1, <2>1 DEF ManagerInv
<1>5. lock = "free" /\ ~clobbered => ~stateFile.torn
  BY <1>1 DEF ManagerInv
<1>6. workspaces # <<>> /\ \A i, j \in DOMAIN workspaces :
        workspaces[i].id = workspaces[j].id \/ workspaces[i].root = workspaces[j].root => i = j
  BY <1>1 DEF Sound
<1> QED BY <1>1, <1>2, <1>3, <1>4, <1>5, <1>6 DEF WorkspacesHoldTogether, WorkspacesSound
-----------------------------------------------------------------------------
(* The server                                                              *)

LEMMA OthersAside ==
  ASSUME ThreadsInv, NEW t \in Threads, Only(t), began' \in {began, began + 1}, NEW PCs, NEW Ops,
         thread[t].pc \notin PCs, thread'[t].pc \notin PCs, thread'[t].op \notin Ops
  PROVE  Aside(PCs, Ops)
<1>1. began \in Nat /\ began' \in Nat /\ began <= began'
  BY Counted
<1> QED BY <1>1 DEF Aside, Only

LEMMA ThreadsKept ==
  ASSUME ThreadsInv, NEW t \in Threads, Only(t), began' \in 0..traffic.requests,
         {"pc", "op"} \subseteq DOMAIN thread'[t],
         thread'[t].pc \in {"replied"} \cup WorkspacePC \cup VerifyPC \cup ChatPC \cup BridgePC,
         thread'[t].pc \in WorkspacePC => thread'[t].op \in WorkspaceOps
  PROVE  ThreadsInv'
BY DEF ThreadsInv, Only

LEMMA Apart ==
  ASSUME NEW p
  PROVE  /\ p \in WorkspacePC \cup {"idle", "replied"} => p \notin VerifyPC /\ p \notin ChatPC /\ p \notin BridgePC
         /\ p \in VerifyPC \cup {"idle", "replied"} => p \notin WorkspacePC /\ p \notin ChatPC /\ p \notin BridgePC
         /\ p \in ChatPC \cup {"idle", "replied"} => p \notin WorkspacePC /\ p \notin VerifyPC /\ p \notin BridgePC
         /\ p \in BridgePC \cup {"idle", "replied"} => p \notin WorkspacePC /\ p \notin VerifyPC /\ p \notin ChatPC
BY DEF WorkspacePC, VerifyPC, ChatPC, BridgePC

LEMMA WorkspacesServed ==
  ASSUME IInv, NEW t \in Threads, ServeWorkspaces(t)
  PROVE  IInv'
<1>0. ThreadsInv /\ WorkspacesInv /\ VerifyInv /\ ChatInv /\ BridgeInv
  BY DEF IInv
<1>1. /\ Only(t) /\ began' \in {began, began + 1} /\ began' \in 0..traffic.requests
      /\ {"pc", "op"} \subseteq DOMAIN thread'[t]
      /\ thread'[t].pc \in WorkspacePC \cup {"replied"} /\ thread'[t].op \in WorkspaceOps
      /\ thread[t].pc \in WorkspacePC \cup {"idle", "replied"}
      /\ UNCHANGED <<verifyVars, chatVars, bridgeVars>>
  BY <1>0, WorkspacesMove
<1>2. /\ thread[t].pc \notin VerifyPC /\ thread[t].pc \notin ChatPC /\ thread[t].pc \notin BridgePC
      /\ thread'[t].pc \notin VerifyPC /\ thread'[t].pc \notin ChatPC /\ thread'[t].pc \notin BridgePC
  BY <1>1, Apart
<1>3. thread'[t].op \notin {"verify"} /\ thread'[t].op \notin {"chat", "upload"}
  BY <1>1 DEF WorkspaceOps
<1>4. Aside(VerifyPC, {"verify"}) /\ Aside(ChatPC, {"chat", "upload"}) /\ Aside(BridgePC, {})
  BY <1>0, <1>1, <1>2, <1>3, OthersAside
<1>5. ThreadsInv'
  BY <1>0, <1>1, ThreadsKept
<1>6. WorkspacesInv'
  BY <1>0, RouteServed
<1> QED BY <1>0, <1>1, <1>4, <1>5, VerifyAside, ChatAside, BridgeAside, <1>6 DEF IInv

LEMMA VerificationsServed ==
  ASSUME IInv, NEW t \in Threads, ServeVerify(t)
  PROVE  IInv'
<1>0. ThreadsInv /\ WorkspacesInv /\ VerifyInv /\ ChatInv /\ BridgeInv
  BY DEF IInv
<1>1. /\ Only(t) /\ began' \in {began, began + 1} /\ began' \in 0..traffic.requests
      /\ {"pc", "op"} \subseteq DOMAIN thread'[t]
      /\ thread'[t].pc \in VerifyPC \cup {"replied"} /\ thread'[t].op = "verify"
      /\ thread[t].pc \in VerifyPC \cup {"idle", "replied"}
      /\ UNCHANGED <<chatVars, bridgeVars>>
  BY <1>0, VerifyMoves
<1>2. /\ thread[t].pc \notin ChatPC /\ thread[t].pc \notin BridgePC
      /\ thread'[t].pc \notin WorkspacePC /\ thread'[t].pc \notin ChatPC /\ thread'[t].pc \notin BridgePC
  BY <1>1, Apart
<1>3. Aside(ChatPC, {"chat", "upload"}) /\ Aside(BridgePC, {})
  BY <1>0, <1>1, <1>2, OthersAside
<1>4. ThreadsInv'
  BY <1>0, <1>1, <1>2, ThreadsKept
<1>5. WorkspacesInv'
  BY <1>0, VerificationAside
<1> QED BY <1>0, <1>1, <1>3, <1>4, VerifyServed, ChatAside, BridgeAside, <1>5 DEF IInv

LEMMA ChatsServed ==
  ASSUME IInv, NEW t \in Threads, ServeChat(t)
  PROVE  IInv'
<1>0. ThreadsInv /\ WorkspacesInv /\ VerifyInv /\ ChatInv /\ BridgeInv
  BY DEF IInv
<1>1. /\ Only(t) /\ began' \in {began, began + 1} /\ began' \in 0..traffic.requests
      /\ {"pc", "op"} \subseteq DOMAIN thread'[t]
      /\ thread'[t].pc \in ChatPC \cup {"replied"} /\ thread'[t].op \in {"chat", "upload"}
      /\ thread[t].pc \in ChatPC \cup {"idle", "replied"}
      /\ UNCHANGED <<verifyVars, bridgeVars>>
  BY <1>0, ChatMoves
<1>2. /\ thread[t].pc \notin VerifyPC /\ thread[t].pc \notin BridgePC
      /\ thread'[t].pc \notin WorkspacePC /\ thread'[t].pc \notin VerifyPC /\ thread'[t].pc \notin BridgePC
      /\ thread'[t].op \notin {"verify"}
  BY <1>1, Apart
<1>3. Aside(VerifyPC, {"verify"}) /\ Aside(BridgePC, {})
  BY <1>0, <1>1, <1>2, OthersAside
<1>4. ThreadsInv'
  BY <1>0, <1>1, <1>2, ThreadsKept
<1>5. WorkspacesInv'
  BY <1>0, ChatAndBridgeAside
<1> QED BY <1>0, <1>1, <1>3, <1>4, ChatServed, VerifyAside, BridgeAside, <1>5 DEF IInv

LEMMA DebatesServed ==
  ASSUME IInv, NEW t \in Threads, ServeBridge(t)
  PROVE  IInv'
<1>0. ThreadsInv /\ WorkspacesInv /\ VerifyInv /\ ChatInv /\ BridgeInv
  BY DEF IInv
<1>1. /\ Only(t) /\ began' \in {began, began + 1} /\ began' \in 0..traffic.requests
      /\ {"pc", "op"} \subseteq DOMAIN thread'[t]
      /\ thread'[t].pc \in BridgePC \cup {"replied"} /\ thread'[t].op \in {"consult", "supervise"}
      /\ thread[t].pc \in BridgePC \cup {"idle", "replied"}
      /\ UNCHANGED <<verifyVars, chatVars>>
  BY <1>0, BridgeMoves
<1>2. /\ thread[t].pc \notin VerifyPC /\ thread[t].pc \notin ChatPC
      /\ thread'[t].pc \notin WorkspacePC /\ thread'[t].pc \notin VerifyPC /\ thread'[t].pc \notin ChatPC
      /\ thread'[t].op \notin {"verify"} /\ thread'[t].op \notin {"chat", "upload"}
  BY <1>1, Apart
<1>3. Aside(VerifyPC, {"verify"}) /\ Aside(ChatPC, {"chat", "upload"})
  BY <1>0, <1>1, <1>2, OthersAside
<1>4. ThreadsInv'
  BY <1>0, <1>1, <1>2, ThreadsKept
<1>5. WorkspacesInv'
  BY <1>0, ChatAndBridgeAside
<1> QED BY <1>0, <1>1, <1>3, <1>4, BridgeServed, VerifyAside, ChatAside, <1>5 DEF IInv

LEMMA NobodyServed ==
  ASSUME IInv, UNCHANGED <<requestVars, verifyVars, chatVars, bridgeVars>>,
         UNCHANGED <<workspaces, lock, clock, stateFile, clobbered, moved>>
  PROVE  IInv'
<1>0. ThreadsInv /\ WorkspacesInv /\ VerifyInv /\ ChatInv /\ BridgeInv
  BY DEF IInv
<1>1. thread' = thread /\ began' = began /\ crashes' = crashes /\ traffic' = traffic /\ began \in Nat
  BY <1>0, Counted DEF requestVars
<1>2. ThreadsInv'
  BY <1>0, <1>1 DEF ThreadsInv
<1>3. Aside(VerifyPC, {"verify"}) /\ Aside(ChatPC, {"chat", "upload"}) /\ Aside(BridgePC, {})
  BY <1>0, <1>1 DEF Aside, ThreadsInv
<1>4. WorkspacesInv'
  BY <1>0, <1>1, NobodyMoves
<1> QED BY <1>0, <1>2, <1>3, <1>4, VerifyAside, ChatAside, BridgeAside DEF IInv

\* A restart: nobody is served any more, scripts go on or not, and the files are as they
\* were left.
LEMMA RestartKept ==
  ASSUME IInv, ServerRestart
  PROVE  IInv'
<1>0. ThreadsInv /\ WorkspacesInv /\ VerifyInv /\ ChatInv /\ BridgeInv
  BY DEF IInv
<1>1. /\ crashes' = crashes + 1 /\ began' = began /\ traffic' = traffic
      /\ DOMAIN thread' = Threads
      /\ report' = report /\ disturbed' = disturbed
      /\ memoryFile' = memoryFile /\ reported' = reported /\ overlapped' = overlapped
      /\ BridgeDies
  BY DEF ServerRestart, Restart, Die, verifyVars, chatVars
<1>2. \A t \in Threads : thread'[t] = Idle \/ (thread'[t] = thread[t] /\ thread[t].pc \in Scripted)
  BY DEF ServerRestart, Restart, Die
<1>a. DOMAIN Idle = {"pc"} /\ Idle.pc = "idle"
  BY DEF Idle
<1>3. \A t \in Threads : thread'[t].pc \in {"idle"} \cup Scripted
  BY <1>2, <1>a
<1>4. crashes \in Nat /\ crashes' \in Nat /\ crashes' > 0
  BY <1>0, <1>1 DEF ThreadsInv
<1>5. ThreadsInv'
  <2>1. ASSUME NEW t \in Threads
        PROVE  /\ "pc" \in DOMAIN thread'[t]
               /\ thread'[t].pc \in {"idle", "replied"} \cup WorkspacePC \cup VerifyPC \cup ChatPC \cup BridgePC
               /\ thread'[t].pc \notin WorkspacePC
    BY <1>0, <1>2, <1>3, <1>a DEF ThreadsInv, WorkspacePC, Scripted, VerifyPC
  <2> QED BY <1>0, <1>1, <1>4, <2>1 DEF ThreadsInv
<1>6. VerifyInv'
  <2>1. ASSUME NEW t \in Threads, thread'[t].pc \in VerifyPC
        PROVE  thread'[t] = thread[t] /\ thread[t].pc \in VerifyPC
    BY <1>2, <1>a, <2>1 DEF VerifyPC
  <2>2. \A t \in Threads : thread'[t].pc \in VerifyPC => RunOf(t)'
    <3> SUFFICES ASSUME NEW t \in Threads, thread'[t].pc \in VerifyPC
                 PROVE  RunOf(t)'
      OBVIOUS
    <3>1. RunOf(t) /\ thread'[t] = thread[t]
      BY <1>0, <2>1 DEF VerifyInv
    <3> QED BY <1>1, <3>1 DEF RunOf
  <2>3. \A t, o \in Threads :
          t # o /\ thread'[t].pc \in VerifyPC /\ thread'[o].pc \in VerifyPC => thread'[t].run \in disturbed'
    BY <1>0, <1>1, <2>1 DEF VerifyInv
  <2>4. VerifyAnswersItsRun'
    BY <1>3 DEF VerifyAnswersItsRun, Replied, At, Scripted
  <2> QED BY <1>0, <1>1, <1>4, <2>2, <2>3, <2>4 DEF VerifyInv
<1>7. ChatInv'
  BY <1>0, <1>1, <1>3 DEF ChatInv, ChatPC, Adding, ChatsHoldTogether, Replied, At, Scripted
<1>8. BridgeInv'
  <2>1. /\ kept' = kept /\ index' = index /\ recorded' = recorded /\ overlaps' = overlaps /\ forgotten' = forgotten
    BY <1>1 DEF BridgeDies
  <2>2. LearningInv'
    BY <1>0, <1>1, LearningDies DEF BridgeInv
  <2>3. Settled(index.entries)'
    BY <1>0, <1>1, <1>3, <2>1 DEF BridgeInv, IndexInv, Settled, Scripted
  <2>4. Indexed' \subseteq Indexed
    BY <1>3, <2>1 DEF Indexed, At, Scripted
  <2>5. Indexing' = {}
    BY <1>3 DEF Indexing, Scripted
  <2>6. IndexInv'
    BY <1>0, <2>1, <2>3, <2>4, <2>5 DEF BridgeInv, IndexInv
  <2>7. DebatesAreHeard'
    BY <1>3 DEF DebatesAreHeard, Scripted
  <2>8. DOMAIN kept' = 1..MaxRequests
    BY <1>0, <2>1 DEF BridgeInv
  <2>9. \A t \in Threads : thread'[t].pc \notin BridgePC
    BY <1>3 DEF BridgePC, Scripted
  <2> QED BY <2>2, <2>6, <2>7, <2>8, <2>9 DEF BridgeInv
<1>9. WorkspacesInv'
  BY <1>0, ManagerRestarts
<1> QED BY <1>5, <1>6, <1>7, <1>8, <1>9 DEF IInv

LEMMA InitHolds == Init => IInv
<1> SUFFICES ASSUME Init
             PROVE  IInv
  OBVIOUS
<1>1. /\ DOMAIN thread = Threads /\ (\A t \in Threads : thread[t] = Idle) /\ began = 0 /\ crashes = 0
      /\ traffic \in Traffics
  BY DEF Init, RequestsInit
<1>2. DOMAIN Idle = {"pc"} /\ Idle.pc = "idle"
  BY DEF Idle
<1>3. \A t \in Threads : thread[t].pc = "idle" /\ "pc" \in DOMAIN thread[t]
  BY <1>1, <1>2
<1>4. traffic.requests \in Nat /\ began \in 0..traffic.requests
  <2>1. traffic.requests \in 0..MaxRequests /\ MaxRequests \in Nat
    BY <1>1, RequestsAssumption
  <2> QED BY <1>1, <2>1
<1>5. ThreadsInv
  BY <1>1, <1>3, <1>4 DEF ThreadsInv, WorkspacePC
<1>6. VerifyInv
  <2>1. report.by = 0 /\ report.status = "none" /\ report.by \in 0..began
    BY <1>1 DEF Init, VerifyInit, NoReport
  <2> QED BY <1>3, <2>1 DEF VerifyInv, VerifyPC, VerifyAnswersItsRun, Replied, At
<1>7. ChatInv
  <2>1. memoryFile.list = <<>> /\ reported = {}
    BY DEF Init, ChatInit, Stored
  <2>2. memoryFile.list \in Seq(Nat)
    BY <2>1
  <2> QED BY <1>3, <2>1, <2>2 DEF ChatInv, ChatPC, Adding, ChatsHoldTogether, Replied, At
<1>8. BridgeInv
  <2>1. /\ DOMAIN kept = 1..MaxRequests /\ index.entries = {} /\ learning = <<>> /\ unended = FALSE
        /\ recorded = {} /\ overlaps = {} /\ forgotten = FALSE
    BY DEF Init, BridgeInit
  <2>2. LearningInv
    <3>1. Cardinality(recorded \ Listed) = 0
      <4>1. recorded \ Listed = {}
        BY <2>1
      <4> QED BY <4>1, FS_EmptySet
    <3>2. learning \in Seq(Seq(Nat)) /\ recorded \subseteq 1..began
      BY <2>1
    <3>3. Cardinality(recorded \ Listed) + 0 <= crashes
      BY <1>1, <3>1
    <3> QED BY <2>1, <3>2, <3>3 DEF LearningInv
  <2>3. Indexed = {} /\ Indexing = {}
    BY <1>3, <2>1 DEF Indexed, Indexing, At
  <2>4. IndexInv
    BY <2>1, <2>3 DEF IndexInv, Settled
  <2>5. DebatesAreHeard
    BY <1>3 DEF DebatesAreHeard
  <2>6. \A t \in Threads : thread[t].pc \notin BridgePC
    BY <1>3 DEF BridgePC
  <2> QED BY <2>1, <2>2, <2>4, <2>5, <2>6 DEF BridgeInv
<1>9. WorkspacesInv
  BY ManagerStarts
<1> QED BY <1>5, <1>6, <1>7, <1>8, <1>9 DEF IInv

\* Whatever requests, restarts and removals of folders come in whatever order, the
\* inductive invariant of workspaces, verifications, chats and debates holds (api/,
\* workspaces/, verify.py).
THEOREM Invariant == Spec => []IInv
<1>1. IInv /\ [Next]_serverVars => IInv'
  <2> SUFFICES ASSUME IInv, [Next]_serverVars
               PROVE  IInv'
    OBVIOUS
  <2>1. CASE UNCHANGED serverVars
    BY <2>1, NobodyServed DEF serverVars, workspaceVars
  <2>2. CASE FolderRemoved
    BY <2>2, NobodyServed DEF FolderRemoved, RemoveFolder
  <2>3. CASE ServerRestart
    BY <2>3, RestartKept
  <2>4. CASE \E t \in Threads : ServeWorkspaces(t) \/ ServeVerify(t) \/ ServeChat(t) \/ ServeBridge(t)
    BY <2>4, WorkspacesServed, VerificationsServed, ChatsServed, DebatesServed
  <2> QED BY <2>1, <2>2, <2>3, <2>4, StepKinds
<1> QED BY InitHolds, <1>1, PTL DEF Spec

\* Whatever is opened, selected, closed, listed and saved at once, whatever a verification
\* rewrites and a restart reads back: the list of workspaces is sound, in memory and on
\* disk, and requests act on the workspace they name (WorkspaceManager, api.py).
THEOREM WorkspacesHold == Spec => []WorkspacesHoldTogether
<1>1. IInv => WorkspacesHoldTogether
  BY HeldTogether DEF IInv
<1> QED BY Invariant, <1>1, PTL

\* A verification nobody ran beside is answered by the verdict of its own report, or it
\* failed before it wrote one and shows an earlier one (verify.py and /verify).
THEOREM VerificationsAnswered == Spec => []VerifyAnswersItsRun
<1>1. IInv => VerifyAnswersItsRun
  BY DEF IInv, VerifyInv
<1> QED BY Invariant, <1>1, PTL

\* Whatever chats add their notes at once, whatever is torn by a restart: a note that was
\* reported as saved and whose addition no other overlapped is in the memory file whenever
\* that can be read, and every chat that is answered was true (ChatService, Memory.add).
THEOREM ChatsHold == Spec => []ChatsHoldTogether
<1>1. IInv => ChatsHoldTogether
  BY DEF IInv, ChatInv
<1> QED BY Invariant, <1>1, PTL

\* A debate decides by what was heard, however its participants answered, and what it
\* decided stays in its file, in the index and among the lines of learning, but for what
\* overlapping writers and restarts may cost (BridgeService, CognitionSupervisor).
THEOREM DebatesHold == Spec => []DebatesHoldTogether
<1>1. IInv => DebatesHoldTogether
  <2> SUFFICES ASSUME IInv
               PROVE  DebatesHoldTogether
    OBVIOUS
  <2>1. DebatesAreHeard /\ IndexInv /\ LearningInv /\ crashes \in Nat /\ ThreadsInv
    BY DEF IInv, BridgeInv, ThreadsInv
  <2>2. \A n \in index.entries : kept[n] = "whole"
    BY <2>1 DEF IndexInv, Settled
  <2>3. ~forgotten /\ ~index.torn => recorded \ overlaps \subseteq index.entries
    BY <2>1 DEF IndexInv, Indexed
  <2>4. Cardinality(recorded \ Listed) <= crashes
    <3>1. recorded \ Listed \subseteq 1..began /\ began \in Nat
      BY <2>1, Counted DEF LearningInv
    <3>2. Cardinality(recorded \ Listed) \in Nat
      BY <3>1, FewMore
    <3>3. Cardinality(recorded \ Listed) + (IF unended THEN 1 ELSE 0) <= crashes
      BY <2>1 DEF LearningInv
    <3> QED BY <2>1, <3>2, <3>3
  <2> QED BY <2>1, <2>2, <2>3, <2>4 DEF DebatesHoldTogether, DebatesAreKept
<1> QED BY Invariant, <1>1, PTL

=============================================================================
