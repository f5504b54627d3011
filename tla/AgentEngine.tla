---------------------------- MODULE AgentEngine ----------------------------
(***************************************************************************)
(* One pass of the agent engine (agent/agent_engine.py) over the project:  *)
(* its context, the model's reply (llm/llm_executor.py), what of it is an  *)
(* action (parser/response_parser.py), and its tool                        *)
(* (tools/tool_executor.py).  Nothing of it raises: what goes wrong is a   *)
(* result without success.  A reply says whether there is anything in it,  *)
(* the type and the fields of the object it is, "none" when it is none; a  *)
(* tool works, refuses, raises, is not there, or fails in a form of its    *)
(* own.                                                                    *)
(***************************************************************************)
EXTENDS Patching

CONSTANTS Asked,        \* [mission, open, instruction]: what the pass is given, is each there?
          Replies,      \* [type, fields, named, typed]
          Tools         \* what tools may do

ASSUME ToolsAssumption == Tools \subseteq {"works", "refuses", "raises", "is not there", "fails its own way"}

PassAt(place) == job.kind = "pass" /\ At(place) /\ ProjectUnchanged
Result(success, error, action, ran) == [success |-> success, error |-> error, action |-> action, ran |-> ran]
Failed == Result(FALSE, TRUE, FALSE, "nothing")
Return(result) == job' = [job EXCEPT !.at = "answered", !.shown = NoContext, !.result = result]

\* What is missing is said at once, an open project least of all: get_tree raises.
StartPass(asked) ==
  /\ job.kind = "none" /\ ProjectUnchanged
  /\ job' = [NoJob EXCEPT !.kind = "pass", !.at = IF asked.mission /\ asked.open /\ asked.instruction
                                                THEN "look" ELSE "refuse"]
Refuse == PassAt("refuse") /\ Return(Failed)
Look ==
  /\ PassAt("look")
  /\ \E objective \in Objectives :
       job' = [job EXCEPT !.at = "reply",
                          !.shown = [about |-> objective, dirs |-> FoldersFor(texts, objective),
                                     blocks |-> incremental_build(texts, objective)]]
\* The prompt or the provider fails.
ModelFails == PassAt("reply") /\ Return(Failed)

\* ResponseParser.parse: the one type there is needs a tool by name and its arguments.
IsAction(reply) ==
  /\ reply.type = "tool" /\ {"tool", "arguments"} \subseteq reply.fields
  /\ reply.named /\ reply.typed
\* Prose is an answer, and so is an action nobody can read.
Speaks ==
  /\ PassAt("reply")
  /\ \E reply \in Replies : ~IsAction(reply)
  /\ Return(Result(TRUE, FALSE, FALSE, "nothing"))
Acts ==
  /\ PassAt("reply")
  /\ \E reply \in Replies : IsAction(reply)
  /\ job' = [job EXCEPT !.at = "act", !.shown = NoContext]

\* ToolExecutor: of a tool that does not keep to the form of results anything it returns is
\* a success, its own account of a failure too.
Worked(tool) == tool \in {"works", "fails its own way"}
\* A tool may refuse without a word, and an exception may have none.
Errors(tool) == IF Worked(tool) THEN {FALSE} ELSE IF tool = "is not there" THEN {TRUE} ELSE BOOLEAN
RunTool ==
  /\ PassAt("act")
  /\ \E tool \in Tools : \E error \in Errors(tool) : Return(Result(Worked(tool), error, TRUE, tool))

\* A pass never answers with success and an error both; it runs one tool at most, and one only
\* for an action; what raised, refused or was not there is no success, and what failed has its
\* error said, unless it is a tool's own to say (AgentEngine.execute).
PassTellsWhatItDid ==
  job.at = "answered" =>
    LET r == job.result
    IN /\ ~(r.success /\ r.error)
       /\ r.action <=> r.ran # "nothing"
       /\ r.ran \in {"raises", "refuses", "is not there"} => ~r.success
       /\ r.success \/ r.error \/ r.ran \in {"raises", "refuses"}

PassStep == (\E asked \in Asked : StartPass(asked)) \/ Refuse \/ Look \/ ModelFails \/ Speaks \/ Acts \/ RunTool
=============================================================================
