------------------------------ MODULE Patching ------------------------------
(***************************************************************************)
(* The agents that patch a project: the loop that runs the tests and asks  *)
(* for a patch until they pass (agents/autofix_agent.py) and the one that  *)
(* asks its team, then for one patch (agents/orchestrator.py,              *)
(* team_leader.py), with the patches they apply (patch_applier.py) and the *)
(* copies made first (backup_manager.py).  The project has other writers.  *)
(* A text is a sequence of words, a patch [path, ops], an operation        *)
(* [type, search, text], of the type "keyless" when a key of it is missing.*)
(***************************************************************************)
EXTENDS Context

CONSTANTS Files,        \* the paths of the project
          Bug,          \* the tests fail where this word is
          Answers,      \* the patches the model may answer with
          Jobs,         \* "fix", "apply" (the team's, applied) or "preview" (the team's, shown)
          Objectives,   \* what is asked, as the words of it
          MaxIterations, MaxSeconds, MaxEdits, Edited

Patch == [path : Seq(STRING), ops : Seq([type : STRING, search : STRING, text : STRING])]

\* A fix has a round at least (max_iterations is 5).
ASSUME PatchingAssumption ==
  /\ Jobs \subseteq {"fix", "apply", "preview"} /\ MaxIterations \in Nat \ {0}
  /\ Files \subseteq ToSet(PathOrder) /\ Edited \in Seq(STRING) /\ Answers \subseteq Seq(Patch)
  /\ \A objective \in Objectives : IsFiniteSet(objective)

VARIABLES texts,        \* the text of every file there is
          clock,        \* the second it is, which names the backups
          backups,      \* [second, path] |-> text
          job,          \* the job: where it stands and what it knows
          edits,        \* the edits of others so far
          overwritten,  \* history: the texts patches replaced
          clobbered     \* history: the backups a later one replaced

patchVars == <<texts, clock, backups, job, edits, overwritten, clobbered>>

NoContext == [about |-> {}, dirs |-> {}, blocks |-> <<>>]
NoResult == [success |-> FALSE, error |-> FALSE, action |-> FALSE, ran |-> "nothing"]
NoJob == [kind |-> "none", at |-> "idle", round |-> 0, team |-> <<>>, patches |-> <<>>,
          text |-> <<>>, modified |-> <<>>, tested |-> <<>>, shown |-> NoContext, result |-> NoResult]
PatchInit(start) ==
  /\ texts = start /\ clock = 0 /\ backups = <<>> /\ job = NoJob
  /\ edits = 0 /\ overwritten = {} /\ clobbered = {}

-----------------------------------------------------------------------------
(***************************************************************************)
(* PatchApplier: what the operations make of a text.                       *)
(***************************************************************************)
\* str.replace(search, by, 1), of a word; nothing is found at the front.
ReplaceFirst(text, search, by) ==
  IF search = "" THEN by \o text
  ELSE LET at == SelectInSeq(text, LAMBDA w : w = search)
       IN IF at = 0 THEN text ELSE SubSeq(text, 1, at - 1) \o by \o SubSeq(text, at + 1, Len(text))
Self(op) == IF op.search = "" THEN <<>> ELSE <<op.search>>
Operate(text, op) ==
  CASE op.type = "replace" -> ReplaceFirst(text, op.search, <<op.text>>)
    [] op.type = "insert_before" -> ReplaceFirst(text, op.search, <<op.text>> \o Self(op))
    [] op.type = "insert_after" -> ReplaceFirst(text, op.search, Self(op) \o <<op.text>>)
    [] op.type = "delete" -> ReplaceFirst(text, op.search, <<>>)
    [] OTHER -> text
Patched(text, ops) ==
  LET after[k \in 0..Len(ops)] == IF k = 0 THEN text ELSE Operate(after[k - 1], ops[k]) IN after[Len(ops)]
Raises(ops) == \E k \in DOMAIN ops : ops[k].type = "keyless"

At(place) == job.at = place
Goto(place) == job' = [job EXCEPT !.at = place]
ProjectUnchanged == UNCHANGED <<texts, clock, backups, edits, overwritten, clobbered>>
\* A file written: the others are as they were.
Saved(files, name, text) == [f \in DOMAIN files \cup {name} |-> IF f = name THEN text ELSE files[f]]
Tested(project) == \A p \in DOMAIN project : Bug \notin ToSet(project[p])

-----------------------------------------------------------------------------
(***************************************************************************)
(* The two agents.                                                         *)
(***************************************************************************)
StartJob(kind) ==
  /\ job.kind = "none"
  /\ job' = [NoJob EXCEPT !.kind = kind, !.at = IF kind = "fix" THEN "test" ELSE "team"]
  /\ ProjectUnchanged

\* TeamLeader.execute: five agents one after the other, any of which may fail.
Roles == <<"planner", "research", "coder", "reviewer", "tester">>
AskTeam ==
  /\ At("team")
  /\ \/ job' = [job EXCEPT !.team = Append(@, Roles[Len(@) + 1]),
                           !.at = IF Len(job.team) + 1 = Len(Roles) THEN "generate" ELSE "team"]
     \/ Goto("raised")
  /\ ProjectUnchanged

\* Mutant: the result is that of the tests before the last patch.
RunTestsOnce ==
  /\ At("test")
  /\ job' = [job EXCEPT !.at = IF Tested(texts) \/ job.modified # <<>> THEN "fixed" ELSE "generate",
                        !.tested = texts]
  /\ ProjectUnchanged
RunTests ==
  /\ At("test")
  /\ job' = [job EXCEPT !.at = IF Tested(texts) THEN "fixed" ELSE "generate",
                        !.tested = texts]
  /\ ProjectUnchanged

\* PatchAgent._generate_patch_ops: the model is shown what the builder makes of the
\* project; its answer may hold no JSON, or it could not be asked, and the job ends raising.
Contexts(objective) ==
  {[about |-> objective, dirs |-> dirs, blocks |-> build(texts, objective, dirs)] : dirs \in RelevantDirs(texts, objective)}
ShowProject ==
  /\ At("generate")
  /\ \E objective \in Objectives : \E context \in Contexts(objective) :
       job' = [job EXCEPT !.at = "ask", !.shown = context]
  /\ ProjectUnchanged
GenerateFails == At("ask") /\ job' = [job EXCEPT !.at = "raised", !.shown = NoContext] /\ ProjectUnchanged
Generate ==
  /\ At("ask")
  /\ \E answer \in Answers :
       job' = [job EXCEPT !.patches = answer, !.shown = NoContext, !.modified = <<>>,
                          !.at = IF job.kind = "preview" THEN "done" ELSE "apply"]
  /\ ProjectUnchanged

\* The next patch, or none left: a fix goes on to its next round.
SkipMissing ==
  /\ At("apply") /\ job.patches # <<>> /\ Head(job.patches).path \notin DOMAIN texts
  /\ job' = [job EXCEPT !.patches = Tail(@)]
  /\ ProjectUnchanged
\* Mutant: a file that has a copy is not copied again.
BackupOnce ==
  /\ At("apply") /\ job.patches # <<>> /\ Head(job.patches).path \in DOMAIN texts
  /\ LET path == Head(job.patches).path
     IN backups' = IF \E b \in DOMAIN backups : b[2] = path THEN backups ELSE Saved(backups, <<clock, path>>, texts[path])
  /\ Goto("read")
  /\ UNCHANGED <<texts, clock, edits, overwritten, clobbered>>
\* BackupManager.backup: a copy of the same second is replaced.
Backup ==
  /\ At("apply") /\ job.patches # <<>> /\ Head(job.patches).path \in DOMAIN texts
  /\ LET path == Head(job.patches).path
         name == <<clock, path>>
     IN /\ backups' = Saved(backups, name, texts[path])
        /\ clobbered' = IF name \in DOMAIN backups THEN clobbered \cup {<<path, backups[name]>>} ELSE clobbered
  /\ Goto("read")
  /\ UNCHANGED <<texts, clock, edits, overwritten>>
\* A missing key leaves the patches before this one applied.
Operated ==
  /\ At("read")
  /\ LET patch == Head(job.patches)
     IN IF Raises(patch.ops) THEN Goto("raised")
        ELSE job' = [job EXCEPT !.text = Patched(texts[patch.path], patch.ops), !.at = "write"]
  /\ ProjectUnchanged
Write ==
  /\ At("write")
  /\ LET path == Head(job.patches).path
     IN /\ texts' = Saved(texts, path, job.text)
        /\ overwritten' = overwritten \cup {<<path, texts[path]>>}
        /\ job' = [job EXCEPT !.patches = Tail(@), !.at = "apply", !.modified = Append(@, path)]
  /\ UNCHANGED <<clock, backups, edits, clobbered>>
Applied ==
  /\ At("apply") /\ job.patches = <<>>
  /\ job' = [job EXCEPT !.round = @ + 1,
                        !.at = CASE job.kind # "fix" -> "done"
                                 [] job.kind = "fix" /\ job.round + 1 < MaxIterations -> "test"
                                 [] OTHER -> "given up"]
  /\ ProjectUnchanged

-----------------------------------------------------------------------------
(***************************************************************************)
(* The others: time passes, somebody writes a file.                        *)
(***************************************************************************)
Tick == clock < MaxSeconds /\ clock' = clock + 1 /\ UNCHANGED <<texts, backups, job, edits, overwritten, clobbered>>
Edit ==
  /\ edits < MaxEdits
  /\ \E path \in Files : texts' = Saved(texts, path, Edited)
  /\ edits' = edits + 1
  /\ UNCHANGED <<clock, backups, job, overwritten, clobbered>>
=============================================================================
