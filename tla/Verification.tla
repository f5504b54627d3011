---------------------------- MODULE Verification ----------------------------
(***************************************************************************)
(* verify.py, run as a process of its own by POST /api/verify: it builds,  *)
(* tests, and tries the API against a second copy of the server's modules, *)
(* whose WorkspaceManager reads - and may rewrite - the same               *)
(* workspaces.json; then it writes verify_report.json, which the route     *)
(* reads back.                                                             *)
(***************************************************************************)
EXTENDS Workspaces

CONSTANT Summaries     \* what pytest may print and return: [rc, passed, failed, teardown]

VARIABLES report,      \* verify_report.json: what it says and whose it is
          litter,      \* the folders verify_temp.txt is left in
          disturbed    \* the runs during which there was another
verifyVars == <<report, litter, disturbed>>

NoReport == [status |-> "none", by |-> 0, failed |-> 0]
TornReport == [NoReport EXCEPT !.status = "torn"]

\* _run_pytest: a teardown that was not permitted is forgiven when a test passed.
PermissionBug(s) == s.rc # 0 /\ s.teardown /\ s.passed > 0
PytestSuccess(s) == s.rc = 0 \/ PermissionBug(s)

\* The route starts the script, which compiles and builds and then runs the tests;
\* nothing stops at what failed.
RequestVerify(t) ==
  /\ Begin(t, [pc |-> "build", op |-> "verify", run |-> began + 1])
  /\ LET others == {thread[o].run : o \in {p \in Threads : Busy(p) /\ thread[p].op = "verify"}}
     IN disturbed' = IF others = {} THEN disturbed ELSE disturbed \cup others \cup {began + 1}
  /\ moved' = moved \ {t}
  /\ UNCHANGED <<workspaces, lock, clock, stateFile, dirs, files, clobbered, report, litter>>
Build(t) ==
  /\ At(t, "build")
  /\ \E built \in BOOLEAN, s \in Summaries :
       Become(t, [pc |-> "load", op |-> "verify", run |-> thread[t].run, failed |-> s.failed,
                                        ok |-> built /\ PytestSuccess(s)])
  /\ UNCHANGED <<workspaceVars, verifyVars>>
\* What the script does not catch ends it: the report is the one of before.
Collapse(t) ==
  /\ thread[t].pc \in {"build", "load"}
  /\ Become(t, [pc |-> "read", op |-> "verify", run |-> thread[t].run, rc |-> 1])
  /\ UNCHANGED <<workspaceVars, verifyVars>>

\* _verify_api_in_process: importing api makes a WorkspaceManager of its own, from
\* whatever the file holds at this moment.
Load(t) ==
  /\ At(t, "load")
  /\ Become(t, [pc |-> IF Rewrites(stateFile) THEN "rewrite" ELSE "check",
                                      op |-> "verify", run |-> thread[t].run, failed |-> thread[t].failed, ok |-> thread[t].ok,
                                      list |-> Loaded(stateFile)])
  /\ UNCHANGED <<workspaceVars, verifyVars>>
Rewrite(t) ==
  /\ At(t, "rewrite")
  /\ stateFile' = Stored(thread[t].list)
  /\ clobbered' = TRUE
  /\ Goto(t, "check")
  /\ UNCHANGED <<workspaces, lock, clock, dirs, files, moved, verifyVars>>

\* The tree of the current workspace has to be there; its file is saved and read back,
\* and removed from the repository, whichever the workspace.  The health and the chat
\* are those of the copy and cannot fail.
Check(t) ==
  LET root == Current(thread[t].list).root
  IN /\ At(t, "check")
     /\ Become(t, [pc |-> "report", op |-> "verify", run |-> thread[t].run, failed |-> thread[t].failed,
                   ok |-> thread[t].ok /\ root \in dirs])
     /\ dirs' = dirs \cup {root}
     /\ litter' = (litter \cup {root}) \ {"home"}
     /\ UNCHANGED <<workspaces, lock, clock, stateFile, files, clobbered, moved, report, disturbed>>
\* _verify_api_with_uv, where there is no fastapi: the file is written in the repository
\* and asked of the workspace, and a body is compared with what JSON quotes, so that the
\* check cannot succeed; without uv it is skipped.
CheckWithUv(t) ==
  /\ At(t, "load")
  /\ \E uv \in BOOLEAN :
       Become(t, [pc |-> "report", op |-> "verify", run |-> thread[t].run, failed |-> thread[t].failed,
                   ok |-> thread[t].ok /\ ~uv])
  /\ UNCHANGED <<workspaceVars, verifyVars>>

\* _write_report, in place, and the exit code.
TruncateReport(t) ==
  /\ At(t, "report")
  /\ report' = TornReport
  /\ Goto(t, "write report")
  /\ UNCHANGED <<workspaceVars, litter, disturbed>>
\* Mutant: the exit code does not tell.
WriteReportZero(t) ==
  LET ok == thread[t].ok
  IN /\ At(t, "write report")
     /\ report' = [status |-> IF ok THEN "PASS" ELSE "FAIL", by |-> thread[t].run, failed |-> thread[t].failed]
     /\ Become(t, [pc |-> "read", op |-> "verify", run |-> thread[t].run, rc |-> 0])
     /\ UNCHANGED <<workspaceVars, litter, disturbed>>
WriteReport(t) ==
  LET ok == thread[t].ok
  IN /\ At(t, "write report")
     /\ report' = [status |-> IF ok THEN "PASS" ELSE "FAIL", by |-> thread[t].run, failed |-> thread[t].failed]
     /\ Become(t, [pc |-> "read", op |-> "verify", run |-> thread[t].run, rc |-> IF ok THEN 0 ELSE 1])
     /\ UNCHANGED <<workspaceVars, litter, disturbed>>
\* verify_route: the exit code is this run's, the report whatever is there by now.
ReadReport(t) ==
  /\ At(t, "read")
  /\ Become(t, [pc |-> "replied", op |-> "verify", run |-> thread[t].run, status |-> 200,
                                      success |-> thread[t].rc = 0, data |-> report])
  /\ UNCHANGED <<workspaceVars, verifyVars>>

VerifyInit == report = NoReport /\ litter = {} /\ disturbed = {}
VerifyStep(t) ==
  \/ Build(t) \/ Collapse(t) \/ Load(t) \/ Rewrite(t) \/ Check(t) \/ CheckWithUv(t)
  \/ TruncateReport(t) \/ WriteReport(t) \/ ReadReport(t)
=============================================================================
