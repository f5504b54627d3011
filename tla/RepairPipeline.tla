--------------------------- MODULE RepairPipeline ---------------------------
(***************************************************************************)
(* One AutonomousExecutor.run: the self-repair engine goes round its loop  *)
(* of strategy, development pipeline, tests and diagnosis until the tests  *)
(* pass, and the executor then applies the edits of the last plan with     *)
(* CodeEditor.  The language model, the test command and whoever else      *)
(* edits the project meanwhile are the environment.                        *)
(***************************************************************************)
EXTENDS Diffing

CONSTANTS MaxIterations,   \* the largest max_iterations of a request
          Proposals,       \* the lists of [file, new] a model may propose
          TestRuns,        \* what the test command may leave
          Projects,        \* the projects a run may start from
          ForeignTexts,    \* what another program leaves in a file it edits
          MaxForeign       \* how often another program edits the project

ASSUME IterationsAssumption == MaxIterations \in Nat \ {0}
ASSUME ForeignAssumption == MaxForeign \in Nat /\ ForeignTexts \subseteq Contents
\* A write that fails leaves the empty text.
ASSUME ProjectsAssumption == Projects \subseteq [Files -> Contents] /\ Blank \in Texts
ASSUME ProposalsAssumption == Proposals \subseteq Seq([file : Files, new : Texts])
ASSUME TestRunsAssumption ==
  \A out \in TestRuns :
    /\ out.returncode \in Int /\ out.text \in BOOLEAN
    /\ out.lines \in Seq([case : STRING, items : Seq(STRING \X Nat), words : BOOLEAN])

VARIABLES
  pc,          \* where the run is
  query,       \* target_query
  maxIter,     \* max_iterations
  iterations,  \* the iterations appended so far
  instruction, \* what the round was told: the original text, refined or not
  snapshot,    \* the patch planner's analysis of the project
  context,     \* what it retrieved from it
  plan,        \* the patch plan: none yet, an error, or its operations
  patches,     \* the patches generated for the plan
  dev,         \* the development result of the round
  tests,       \* the test result of the round
  causes,      \* the diagnosis of the round
  applied,     \* how many operations the editor was given
  modified,    \* modified_files
  recorded,      \* what it recorded in the engineering memory
  outcome,     \* the summary of the execution result
  tree,        \* the project's files
  foreign,     \* the files another program edited
  foreignEdits

round == <<snapshot, context, plan, patches, dev>>
request == <<query, maxIter>>
world == <<tree, foreign, foreignEdits>>
result == <<applied, modified, recorded, outcome>>
vars == <<pc, request, iterations, instruction, round, tests, causes, result, world>>

NoPlan == [success |-> FALSE, ops |-> <<>>]
NoDev == [success |-> FALSE, planned |-> FALSE, ops |-> <<>>]
NoTests == [success |-> FALSE, total |-> 0, failed |-> 0, errors |-> 0]
NoSnapshot == [files |-> <<>>, modules |-> <<>>]
NoContext == [files |-> <<>>, symbols |-> {}]

Original == [refined |-> FALSE, causes |-> {}]
RefinedBy(cs) == [refined |-> TRUE, causes |-> cs]

Init ==
  /\ pc = "decide"
  /\ query \in Queries
  /\ maxIter \in 1..MaxIterations
  /\ iterations = <<>>
  /\ instruction = Original
  /\ snapshot = NoSnapshot /\ context = NoContext /\ plan = NoPlan /\ patches = <<>> /\ dev = NoDev
  /\ tests = NoTests /\ causes = {}
  /\ applied = 0 /\ modified = <<>> /\ recorded = <<>> /\ outcome = "none"
  /\ tree \in Projects /\ foreign = {} /\ foreignEdits = 0

-----------------------------------------------------------------------------
\* Mutant: the instruction is never refined.
DecideOnce ==
  /\ pc = "decide"
  /\ instruction' = Original
  /\ snapshot' = NoSnapshot /\ context' = NoContext /\ plan' = NoPlan /\ patches' = <<>>
  /\ dev' = NoDev
  /\ pc' = "plan"
  /\ UNCHANGED <<request, iterations, tests, causes, result, world>>

\* RepairStrategy.decide: the original instruction, or that one refined by the
\* causes of the round before.
Decide ==
  /\ pc = "decide"
  /\ instruction' = IF iterations = <<>> THEN Original ELSE RefinedBy(causes)
  /\ snapshot' = NoSnapshot /\ context' = NoContext /\ plan' = NoPlan /\ patches' = <<>>
  /\ dev' = NoDev
  /\ pc' = "plan"
  /\ UNCHANGED <<request, iterations, tests, causes, result, world>>

\* DevelopmentPipeline.run ends: every failure, an exception too, is a result
\* that carries the plan if there is one, and the tests run all the same.
Developed(ok, carried) ==
  /\ dev' = [success |-> ok, planned |-> carried.success, ops |-> carried.ops]
  /\ pc' = "test"

\* LLMPlanner.create_plan: an unusable answer is a failed plan, never an exception.
CreatePlan ==
  /\ pc = "plan"
  /\ pc' = "analyze"
  /\ UNCHANGED <<request, iterations, instruction, round, tests, causes, result, world>>
PlanningFails ==
  /\ pc = "plan"
  /\ Developed(FALSE, NoPlan)
  /\ UNCHANGED <<request, iterations, instruction, snapshot, context, plan, patches, tests,
                 causes, result, world>>

\* The pipeline's own analysis, whose result only the trace sees.
Analyze ==
  /\ pc = "analyze"
  /\ IF RetrieveRaises(analyze(tree)) THEN Developed(FALSE, NoPlan) ELSE pc' = "prepare" /\ UNCHANGED dev
  /\ UNCHANGED <<request, iterations, instruction, snapshot, context, plan, patches, tests,
                 causes, result, world>>

\* PatchPlanner.plan up to its question: it analyses the project once more and
\* gives up when nothing in it resembles the query.
Prepare ==
  /\ pc = "prepare"
  /\ snapshot' = analyze(tree)
  /\ IF RetrieveRaises(snapshot') \/ retrieve(snapshot', query).files = <<>>
     THEN Developed(FALSE, NoPlan) /\ UNCHANGED context
     ELSE context' = retrieve(snapshot', query) /\ pc' = "propose" /\ UNCHANGED dev
  /\ UNCHANGED <<request, iterations, instruction, plan, patches, tests, causes, result, world>>

\* The model may name any file of the snapshot, a file twice too; each is read
\* once the answer is there.
Known(ops) == \A i \in DOMAIN ops : ops[i].file \in ToSet(snapshot.files)
Readable(ops) == \A i \in DOMAIN ops : tree[ops[i].file] \notin {Missing, Binary}
Propose ==
  /\ pc = "propose"
  /\ \E ops \in Proposals :
       /\ Known(ops) /\ Readable(ops)
       /\ plan' = [success |-> TRUE,
                   ops |-> [i \in DOMAIN ops |->
                     [file |-> ops[i].file, original |-> tree[ops[i].file], new |-> ops[i].new]]]
  /\ pc' = "generate"
  /\ UNCHANGED <<request, iterations, instruction, snapshot, context, patches, dev, tests,
                 causes, result, world>>

\* The provider raises, its answer does not parse, it names a file that is not
\* in the snapshot, or one that cannot be read any more.
ProposalFails ==
  /\ pc = "propose"
  /\ Developed(FALSE, NoPlan)
  /\ UNCHANGED <<request, iterations, instruction, snapshot, context, plan, patches, tests,
                 causes, result, world>>

Generate ==
  /\ pc = "generate"
  /\ LET per == [i \in DOMAIN plan.ops |-> generate(plan.ops[i])]
         bad == {i \in DOMAIN per : per[i] = <<>>}
     IN IF bad # {}
        THEN Developed(FALSE, plan) /\ patches' = FlattenSeq(SubSeq(per, 1, Min(bad) - 1))
        ELSE patches' = FlattenSeq(per) /\ pc' = "validate" /\ UNCHANGED dev
  /\ UNCHANGED <<request, iterations, instruction, snapshot, context, plan, tests, causes,
                 result, world>>

\* SelfVerifier.verify: the validator, then the rules, each on the disk as it is.
Validate ==
  /\ pc = "validate"
  /\ IF \A i \in DOMAIN patches : validate(tree, patches[i])
     THEN pc' = "rules" /\ UNCHANGED dev ELSE Developed(FALSE, plan)
  /\ UNCHANGED <<request, iterations, instruction, snapshot, context, plan, patches, tests,
                 causes, result, world>>
RunRules ==
  /\ pc = "rules"
  /\ Developed(verify(tree, patches), plan)
  /\ UNCHANGED <<request, iterations, instruction, snapshot, context, plan, patches, tests,
                 causes, result, world>>

-----------------------------------------------------------------------------
\* An execution ends: AutonomousExecutor records it, unless the memory raises.
End(how, ok, edited) ==
  /\ pc' = "finished"
  /\ outcome' = how
  /\ \/ recorded' = Append(recorded, [success |-> ok, files |-> edited,
                                  causes |-> Last(iterations').causes])
     \/ UNCHANGED recorded

\* The tests, the diagnosis and the end of the round.  No step of the round has
\* written to the project: what the tests judge is the project without the plan.
Test ==
  /\ pc = "test"
  /\ \E out \in TestRuns :
       /\ tests' = parse(out)
       /\ causes' = diagnose(out, parse(out))
  /\ iterations' = Append(iterations, [told |-> instruction, dev |-> dev, success |-> tests'.success,
                                       causes |-> causes'])
  /\ CASE tests'.success -> pc' = "apply" /\ UNCHANGED <<outcome, recorded>>
       [] ~tests'.success /\ Len(iterations') < maxIter -> pc' = "decide" /\ UNCHANGED <<outcome, recorded>>
       [] OTHER -> End("self-repair failed", FALSE, <<>>)
  /\ UNCHANGED <<request, instruction, round, applied, modified, world>>

-----------------------------------------------------------------------------
Operation == dev.ops[applied + 1]

\* EditValidator.validate.
ValidOperation ==
  /\ tree[Operation.file] = Operation.original
  /\ Operation.new # Blank /\ Operation.new # Operation.original

\* CodeEditor.apply, first half.  The plan of a round whose verification failed
\* is applied like any other.
ValidateEdit ==
  /\ pc = "apply" /\ applied < Len(dev.ops)
  /\ IF ValidOperation
     THEN pc' = "write" /\ UNCHANGED <<outcome, recorded, iterations, applied>>
     ELSE applied' = applied + 1 /\ UNCHANGED iterations /\ End("edit failed", FALSE, modified)
  /\ UNCHANGED <<request, instruction, round, tests, causes, modified, world>>

\* Mutant: the file is not listed.
WriteUnlisted ==
  /\ pc = "write" /\ tree[Operation.file] \notin {Missing, Binary}
  /\ tree' = [tree EXCEPT ![Operation.file] = Operation.new]
  /\ applied' = applied + 1
  /\ pc' = "apply"
  /\ UNCHANGED <<request, iterations, instruction, round, tests, causes, modified, recorded, outcome,
                 foreign, foreignEdits>>

\* EditApplier.apply: the file is replaced in place.
Write ==
  /\ pc = "write"
  /\ tree[Operation.file] \notin {Missing, Binary}
  /\ tree' = [tree EXCEPT ![Operation.file] = Operation.new]
  /\ applied' = applied + 1
  /\ modified' = Append(modified, Operation.file)
  /\ pc' = "apply"
  /\ UNCHANGED <<request, iterations, instruction, round, tests, causes, recorded, outcome,
                 foreign, foreignEdits>>

\* Opened for writing and then not written: the file is empty.  The edits made
\* before stay.
WriteFails ==
  /\ pc = "write"
  /\ applied' = applied + 1
  /\ tree' = IF tree[Operation.file] \in {Missing, Binary} THEN tree
             ELSE [tree EXCEPT ![Operation.file] = Blank]
  /\ UNCHANGED iterations
  /\ End("edit failed", FALSE, modified)
  /\ UNCHANGED <<request, instruction, round, tests, causes, modified, foreign, foreignEdits>>

\* Mutant: a plan without operations is waited for.
CompleteEdited ==
  /\ pc = "apply" /\ applied = Len(dev.ops) /\ modified # <<>>
  /\ UNCHANGED iterations
  /\ End("completed", TRUE, modified)
  /\ UNCHANGED <<request, instruction, round, tests, causes, applied, modified, world>>

\* A run that applied everything, or had nothing to apply.
Complete ==
  /\ pc = "apply" /\ applied = Len(dev.ops)
  /\ UNCHANGED iterations
  /\ End("completed", TRUE, modified)
  /\ UNCHANGED <<request, instruction, round, tests, causes, applied, modified, world>>

\* Somebody else edits, creates or deletes a file.
ForeignEdit ==
  /\ pc # "finished" /\ foreignEdits < MaxForeign
  /\ \E f \in Files, t \in ForeignTexts :
       /\ t # tree[f]
       /\ tree' = [tree EXCEPT ![f] = t]
       /\ foreign' = foreign \cup {<<f, pc>>}
  /\ foreignEdits' = foreignEdits + 1
  /\ UNCHANGED <<pc, request, iterations, instruction, round, tests, causes, result>>

Develop == Decide \/ CreatePlan \/ PlanningFails \/ Analyze \/ Prepare \/ Propose \/ ProposalFails
             \/ Generate \/ Validate \/ RunRules
Execute == Test \/ ValidateEdit \/ Write \/ WriteFails \/ Complete
Next == Develop \/ Execute \/ ForeignEdit

Spec == Init /\ [][Next]_vars

\* One thread; nobody waits for the other editor.
FairSpec == Spec /\ WF_vars(Develop \/ Execute)
-----------------------------------------------------------------------------
Anywhere == {"decide", "plan", "analyze", "prepare", "propose", "generate", "validate", "rules",
             "test", "apply", "write"}
Edits == Seq([file : Files, original : Texts, new : Texts])
Recognised == UNION {out.known : out \in TestRuns}
Causes == Recognised \cup {"errors occurred", "tests failed"}
Instructions == [refined : BOOLEAN, causes : SUBSET Causes]
Developments == [success : BOOLEAN, planned : BOOLEAN, ops : Edits]
Iterations == [told : Instructions, dev : Developments, success : BOOLEAN, causes : SUBSET Causes]

TypeOK ==
  /\ pc \in Anywhere \cup {"finished"}
  /\ query \in Queries /\ maxIter \in 1..MaxIterations
  /\ iterations \in Seq(Iterations) /\ Len(iterations) <= maxIter
  /\ instruction \in Instructions /\ causes \in SUBSET Causes
  /\ plan \in [success : BOOLEAN, ops : Edits] /\ dev \in Developments
  /\ tests \in [success : BOOLEAN, total : Nat, failed : Nat, errors : Nat]
  /\ tests.failed + tests.errors <= Max({tests.total, 1})
  /\ applied \in 0..Len(dev.ops)
  /\ modified \in Seq(Files) /\ Len(modified) <= applied
  /\ tree \in [Files -> Contents]
  /\ foreign \in SUBSET (Files \X Anywhere) /\ foreignEdits \in 0..MaxForeign
  /\ outcome \in {"none", "self-repair failed", "edit failed", "completed"}

Disturbed(f, when) == \E e \in foreign : e[1] = f /\ e[2] \in when

\* The patches put in from the last to the first, each in place of what it names.
PutBack(lines, ps) ==
  LET after[k \in 0..Len(ps)] ==
        IF k = 0 THEN lines
        ELSE LET p == ps[Len(ps) + 1 - k]
             IN SubSeq(after[k - 1], 1, p.start - 1) \o p.replacement
                  \o SubSeq(after[k - 1], p.end + 1, Len(after[k - 1]))
  IN after[Len(ps)]

\* The patches of an operation put in give the lines of the new text, whatever the two
\* texts: the opcodes cover every difference and the line numbers are right.  Only of a
\* single empty line that is put in does a patch not tell it from nothing.
PatchesRebuild ==
  pc = "validate" =>
    \A i \in DOMAIN plan.ops :
      LET op == plan.ops[i]
      IN \/ PutBack(op.original.lines, generate(op)) = op.new.lines
         \/ \E c \in ToSet(get_opcodes[op.original][op.new]) : SubSeq(op.new.lines, c[3], c[4] - 1) = <<"">>

\* A plan is refused only because an operation changes no line, because a file it
\* edits was changed meanwhile, or because a patch is about a single empty line,
\* which looks like an insertion to the validator.
RefusalsAreJustified ==
  pc = "test" /\ plan.success /\ ~dev.success =>
    \/ \E i \in DOMAIN plan.ops : generate(plan.ops[i]) = <<>>
    \/ \E i \in DOMAIN plan.ops : Disturbed(plan.ops[i].file, {"generate", "validate", "rules"})
    \/ \E i \in DOMAIN patches : patches[i].original = <<>>
         /\ (patches[i].end >= patches[i].start \/ patches[i].replacement = <<>>)

\* Generated patches turn the one text into the other, and a plan of them is refused only
\* for a reason that is there.
PatchesAreRight == PatchesRebuild /\ RefusalsAreJustified

\* The patches of a round are its plan's, which is of the files as they are or as somebody
\* changed them since.
PatchesInv ==
  /\ pc \in {"plan", "analyze", "prepare", "propose"} => ~plan.success
  /\ pc \in {"generate", "validate", "rules"} =>
       \A i \in DOMAIN plan.ops :
         LET op == plan.ops[i]
         IN tree[op.file] = op.original \/ Disturbed(op.file, {"generate", "validate", "rules"})
  /\ pc \in {"validate", "rules"} =>
       \A p \in ToSet(patches) : \E i \in DOMAIN plan.ops : p \in ToSet(generate(plan.ops[i]))
  /\ RefusalsAreJustified

\* The files shown to the model are those scanned whose path resembles the
\* query, each once; the symbols are all that carry its name, methods too.
ContextIsExact ==
  pc = "propose" =>
    /\ ToSet(context.files) = {f \in ToSet(snapshot.files) : Matching[f][query] # "none"}
    /\ IsInjective(context.files)
    /\ \A f \in DOMAIN snapshot.modules :
         LET named == \/ query \in snapshot.modules[f].functions \cup snapshot.modules[f].classes
                      \/ \E m \in snapshot.modules[f].methods : m.name = query
         IN named => \E s \in context.symbols : s.file = f /\ s.name = query /\ s.kind # "module"

\* What a round is told is refined by the diagnosis of the round just before it,
\* and by nothing older; the first is told the instruction as it came.
FeedbackIsFresh ==
  \A i \in DOMAIN iterations :
    iterations[i].told = IF i = 1 THEN Original ELSE RefinedBy(iterations[i - 1].causes)

\* A failed run leaves the strategy without a cause only when its output speaks
\* of passed or skipped tests alone.
FailureHasACause ==
  iterations # <<>> /\ ~tests.success /\ causes = {} =>
    tests.total > 0 /\ tests.failed = 0 /\ tests.errors = 0

\* The project is edited only after a round whose tests passed, the last of the
\* rounds; without one every round allowed was made.
EditsFollowPassingTests ==
  /\ applied > 0 \/ pc \in {"apply", "write"} =>
       /\ Last(iterations).success
       /\ \A i \in 1..(Len(iterations) - 1) : ~iterations[i].success
  /\ outcome = "self-repair failed" => Len(iterations) = maxIter /\ modified = <<>>

\* The rounds before are the ones that failed, and what is known of the last is what the
\* next is told.
RoundIsTheNext ==
  /\ iterations # <<>> => causes = Last(iterations).causes /\ tests.success = Last(iterations).success
  /\ pc \in Anywhere \ {"apply", "write"} =>
       /\ Len(iterations) < maxIter /\ applied = 0 /\ modified = <<>>
       /\ \A i \in DOMAIN iterations : ~iterations[i].success
       /\ pc # "decide" =>
            instruction = IF iterations = <<>> THEN Original ELSE RefinedBy(Last(iterations).causes)

\* A round works on what is so: the context is the project's, the feedback the last
\* round's, a failure has its cause, and only a round that passed leads to edits.
RoundsAreInformed ==
  /\ TypeOK /\ RoundIsTheNext
  /\ ContextIsExact /\ FeedbackIsFresh /\ FailureHasACause /\ EditsFollowPassingTests

\* When an execution reports success its plan is what the project holds, the
\* later edits of others apart.
CompletedIsOnDisk ==
  outcome = "completed" =>
    \A i \in DOMAIN dev.ops :
      Disturbed(dev.ops[i].file, {"apply", "write"}) \/ tree[dev.ops[i].file] = dev.ops[i].new

\* A plan that edits a file twice never completes by itself: the second operation
\* still expects the content both were planned on.
CompletedTouchesAFileOnce ==
  outcome = "completed" =>
    \A i, j \in DOMAIN dev.ops :
      i # j /\ dev.ops[i].file = dev.ops[j].file => Disturbed(dev.ops[i].file, {"apply", "write"})

\* There is no rollback, but the record of an execution lists every file it
\* changed, except the one file a failed write emptied.
RecordNamesTheEdits ==
  recorded # <<>> =>
    /\ recorded[1].success = (outcome = "completed")
    /\ \A i \in DOMAIN dev.ops :
         LET f == dev.ops[i].file
         IN \/ f \in ToSet(recorded[1].files)
            \/ Disturbed(f, Anywhere)
            \/ outcome = "self-repair failed"
            \/ tree[f] = dev.ops[i].original
            \/ outcome = "edit failed" /\ f = dev.ops[applied].file /\ tree[f] = Blank

\* An edit of somebody else is overwritten only when it falls between the
\* editor's comparison of the file and its write.
ForeignEditsSurvive ==
  [][\A f \in Files :
       pc = "write" /\ tree'[f] # tree[f] /\ foreignEdits' = foreignEdits
         => tree[f] = Operation.original \/ Disturbed(f, {"write"})]_vars

\* What a plan says of a file was so when it was read: until the execution is over the
\* file is as it was, or listed, or somebody edited it.
PlansAreOfTheTree ==
  \A ops \in {plan.ops, dev.ops} : \A i \in DOMAIN ops :
    LET f == ops[i].file
    IN /\ \A j \in DOMAIN ops : ops[j].file = f => ops[j].original = ops[i].original
       /\ pc # "finished" =>
            f \in ToSet(modified) \/ Disturbed(f, Anywhere) \/ tree[f] = ops[i].original

\* An edit is there until another one is made; the one about to be made was compared
\* with the file, and that finds an edit before it of the same file.
EditsAreAccounted ==
  /\ pc # "finished" => recorded = <<>> /\ outcome = "none"
  /\ pc \in {"apply", "write"} \/ outcome = "completed" =>
       \A i \in 1..applied :
         /\ dev.ops[i].new # dev.ops[i].original
         /\ Disturbed(dev.ops[i].file, {"apply", "write"}) \/ tree[dev.ops[i].file] = dev.ops[i].new
         /\ \A j \in 1..applied : j # i /\ dev.ops[j].file = dev.ops[i].file
                                    => Disturbed(dev.ops[i].file, {"apply", "write"})
  /\ pc = "write" =>
       /\ applied < Len(dev.ops)
       /\ Operation.new # Operation.original
       /\ tree[Operation.file] = Operation.original \/ Disturbed(Operation.file, {"write"})
       /\ \A i \in 1..applied : dev.ops[i].file = Operation.file
                                => Disturbed(Operation.file, {"apply", "write"})

\* The inductive invariant.
RepairInv ==
  /\ RoundsAreInformed /\ PlansAreOfTheTree /\ EditsAreAccounted
  /\ CompletedIsOnDisk /\ CompletedTouchesAFileOnce /\ RecordNamesTheEdits

\* What an execution reports and records is what became of the project, the edits of
\* others included.
OutcomesAreTrue ==
  /\ [](/\ PlansAreOfTheTree /\ EditsAreAccounted
        /\ CompletedIsOnDisk /\ CompletedTouchesAFileOnce /\ RecordNamesTheEdits)
  /\ ForeignEditsSurvive

\* Whatever the model, the tests and the disk do, an execution ends.
ExecutionEnds == <>(pc = "finished")
=============================================================================
