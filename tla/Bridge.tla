------------------------------- MODULE Bridge -------------------------------
(***************************************************************************)
(* BridgeService.consult: participants that answer in any order on threads *)
(* of a pool, a judge and what stands in for it (bridge/bridge_service.py);*)
(* and CognitionSupervisor.supervise, which keeps every debate in a file   *)
(* of its own, in an index that is read, extended and written back without *)
(* a lock, and as a line of learning.jsonl (api/bridge_api.py).            *)
(* A prompt is the set of words that the rules look for.                   *)
(***************************************************************************)
EXTENDS Requests

CONSTANTS Names,       \* what a participant may be called
          Questions,   \* what clients ask: [op, text, panel], the words and the
                       \* participants they name, roles in a sequence, or none
          Judgements   \* what a judge may answer: [winner, tool, confidence, answer], or NoJudge

ASSUME BridgeAssumption ==
  /\ {"planner", "coder", "reviewer"} \subseteq Names
  /\ \A q \in Questions : q.op \in {"consult", "supervise"} /\ q.panel \in Seq(Names)

VARIABLES kept,        \* the workspace files: whole or truncated, per debate
          index,       \* _index.json
          learning,    \* learning.jsonl: its lines, each the entries run together in it
          unended,     \* the last line lacks its newline
          recorded,    \* the debates whose entry was appended
          overlaps,    \* the debates whose indexing overlapped another's
          forgotten    \* some debate found the index torn and started another
bridgeVars == <<kept, index, learning, unended, recorded, overlaps, forgotten>>

-----------------------------------------------------------------------------
(***************************************************************************)
(* Rules, in their order.                                                  *)
(***************************************************************************)
Tools == {"chat", "verify", "implement", "queue", "memory", "planning", "git", "filesystem", "search"}
Rules == <<"implement", "verify", "git", "planning", "memory", "filesystem", "search", "queue">>
\* The words of a rule that the questions here may have; "sequence" is the sequencia of the
\* code, with its accent.
Words(rule) ==
  CASE rule = "implement" -> {"implement", "feature", "code"}
    [] rule = "verify" -> {"test", "bug"}
    [] rule = "planning" -> {"roadmap", "queue"}
    [] rule = "queue" -> {"queue", "pipeline", "sequence"}
    [] OTHER -> {rule}
FirstRule(hits) == IF hits = {} THEN "chat" ELSE Rules[Min(hits)]
\* The words that the service looks for and the supervisor's classifier does not.
ServiceOnly == {"implement", "sequence"}
HeuristicTool(text) == FirstRule({i \in DOMAIN Rules : Words(Rules[i]) \cap text # {}})
classify(text) == FirstRule({i \in DOMAIN Rules : (Words(Rules[i]) \ ServiceOnly) \cap text # {}})

-----------------------------------------------------------------------------
(***************************************************************************)
(* The decision, from the participants' results in the order they were     *)
(* asked: [role, said], said is the length of the content, 0 for an error. *)
(***************************************************************************)
Heard(results) == {i \in DOMAIN results : results[i].said > 0}
Longest(results) == {i \in Heard(results) : \A j \in Heard(results) : results[j].said <= results[i].said}
BestRole(results) ==
  IF Heard(results) = {} THEN "default"
  ELSE IF \E i \in Heard(results) : results[i].role = "reviewer" THEN "reviewer"
  ELSE results[Min(Longest(results))].role

\* Mutant: the first participant that said something is quoted.
FallbackFirst(results) ==
  IF Heard(results) = {} THEN "apology" ELSE results[Min(Heard(results))].role
\* _fallback_answer: what the last participant to say something said.
FallbackAnswer(results) ==
  IF Heard(results) = {} THEN "apology" ELSE results[Max(Heard(results))].role

NoJudge == [winner |-> "absent", tool |-> {"absent"}, confidence |-> "absent", answer |-> "absent"]
NormalizeTool(text) ==
  IF \E tool \in Tools : text = {tool} THEN CHOOSE tool \in Tools : text = {tool}
  ELSE HeuristicTool(text)
\* Not a number is neither below the range nor above it.
CoerceConfidence(c) ==
  CASE c \in {"absent", "text"} -> "half" [] c = "below" -> "zero" [] c = "above" -> "one" [] OTHER -> c

\* What the judge leaves out, or leaves empty, is filled in; the source is the judge
\* even where there was none.
Decision(question, results, judge) ==
  [winner |-> IF judge.winner \in {"absent", ""} THEN BestRole(results) ELSE judge.winner,
   tool |-> IF judge.tool \in {{"absent"}, {}} THEN HeuristicTool(question) ELSE NormalizeTool(judge.tool),
   confidence |-> CoerceConfidence(judge.confidence),
   answer |-> IF judge.answer \in {"absent", ""} THEN FallbackAnswer(results) ELSE judge.answer,
   source |-> "judge"]

-----------------------------------------------------------------------------
(***************************************************************************)
(* consult.                                                                *)
(***************************************************************************)
DefaultPanel == <<"planner", "coder", "reviewer">>
RoleKey(role) == IF role \in {"planner", "coder", "reviewer"} THEN role ELSE "default"

RequestDebate(t) ==
  /\ \E q \in Questions :
       Begin(t, [pc |-> IF q.text = {} THEN "refuse" ELSE "debate", op |-> q.op, question |-> q.text,
                 panel |-> IF q.panel = <<>> THEN DefaultPanel ELSE q.panel,
                 debate |-> began + 1, said |-> [i \in {} |-> 0]])
  /\ UNCHANGED bridgeVars
\* An empty prompt is a 400.
Refuse(t) == At(t, "refuse") /\ Reply(t, 400) /\ UNCHANGED bridgeVars

\* One participant answers, at some length, or fails; their order is anybody's guess.
Participant(t) ==
  /\ At(t, "debate")
  /\ \E i \in DOMAIN thread[t].panel \ DOMAIN thread[t].said, said \in 0..2 :
       Become(t, [thread[t] EXCEPT !.said = [j \in DOMAIN @ \cup {i} |-> IF j = i THEN said ELSE @[j]]])
  /\ UNCHANGED bridgeVars
Results(t) ==
  [i \in DOMAIN thread[t].panel |-> [role |-> RoleKey(thread[t].panel[i]), said |-> thread[t].said[i]]]
\* With all of them there the judge is asked, who may answer anything.
Judge(t) ==
  /\ At(t, "debate")
  /\ DOMAIN thread[t].said = DOMAIN thread[t].panel
  /\ \E j \in Judgements \cup {NoJudge} :
       Become(t, [pc |-> "decided", op |-> thread[t].op, debate |-> thread[t].debate,
                  question |-> thread[t].question, judge |-> j, results |-> Results(t),
                  decision |-> Decision(thread[t].question, Results(t), j)])
  /\ UNCHANGED bridgeVars
Decided(t) ==
  /\ At(t, "decided")
  /\ Become(t, [pc |-> IF thread[t].op = "consult" THEN "serve" ELSE "truncate debate", op |-> thread[t].op,
                debate |-> thread[t].debate, confidence |-> thread[t].decision.confidence])
  /\ UNCHANGED bridgeVars
\* A response with a number that is none cannot be rendered (external).
Serve(t) ==
  /\ At(t, "serve")
  /\ Reply(t, IF thread[t].confidence = "nan" THEN 500 ELSE 200)
  /\ UNCHANGED bridgeVars

-----------------------------------------------------------------------------
(***************************************************************************)
(* supervise: the file of the debate, the index, the line of learning.     *)
(***************************************************************************)
TruncateDebate(t) ==
  /\ At(t, "truncate debate")
  /\ kept' = [kept EXCEPT ![thread[t].debate] = "truncated"]
  /\ Goto(t, "write debate")
  /\ UNCHANGED <<index, learning, unended, recorded, overlaps, forgotten>>
WriteDebate(t) ==
  /\ At(t, "write debate")
  /\ kept' = [kept EXCEPT ![thread[t].debate] = "whole"]
  /\ Goto(t, "read index")
  /\ UNCHANGED <<index, learning, unended, recorded, overlaps, forgotten>>

Indexing == {t \in Threads : thread[t].pc \in {"truncate index", "write index"}}
Debates(ts) == {thread[t].debate : t \in ts}
\* An index that cannot be read is an empty one.
ReadIndex(t) ==
  /\ At(t, "read index")
  /\ thread' = [thread EXCEPT ![t] = [pc |-> "truncate index", op |-> "supervise", debate |-> @.debate,
                                      entries |-> index.entries, confidence |-> @.confidence]]
  /\ overlaps' = IF Indexing = {} THEN overlaps ELSE overlaps \cup Debates(Indexing \cup {t})
  /\ forgotten' = (forgotten \/ index.torn)
  /\ UNCHANGED <<began, crashes, traffic, kept, index, learning, unended, recorded>>
TruncateIndex(t) ==
  /\ At(t, "truncate index")
  /\ index' = [torn |-> TRUE, entries |-> {}]
  /\ Goto(t, "write index")
  /\ UNCHANGED <<kept, learning, unended, recorded, overlaps, forgotten>>
WriteIndex(t) ==
  /\ At(t, "write index")
  /\ index' = [torn |-> FALSE, entries |-> thread[t].entries \cup {thread[t].debate}]
  /\ Goto(t, "learn")
  /\ UNCHANGED <<kept, learning, unended, recorded, overlaps, forgotten>>

\* record_learning appends a line, to what is left of one if the last was cut off.
Learn(t) ==
  LET n == thread[t].debate
  IN /\ At(t, "learn")
     /\ learning' = IF unended THEN [learning EXCEPT ![Len(learning)] = Append(@, n)]
                    ELSE Append(learning, <<n>>)
     /\ unended' = FALSE
     /\ recorded' = recorded \cup {n}
     /\ Goto(t, "serve")
     /\ UNCHANGED <<kept, index, overlaps, forgotten>>

\* list_learning: a line that is not one entry is skipped.
Listed == {Head(l) : l \in {m \in ToSet(learning) : Len(m) = 1 /\ m # <<0>>}}

\* The server dies, perhaps in the middle of a line.
BridgeDies ==
  /\ IF \E t \in Threads : At(t, "learn")
     THEN \/ learning' = Append(learning, <<0>>) /\ unended' = TRUE /\ ~unended
          \/ UNCHANGED <<learning, unended>>
     ELSE UNCHANGED <<learning, unended>>
  /\ UNCHANGED <<kept, index, recorded, overlaps, forgotten>>

BridgeInit ==
  /\ kept = [n \in 1..MaxRequests |-> "none"]
  /\ index = [torn |-> FALSE, entries |-> {}]
  /\ learning = <<>> /\ unended = FALSE
  /\ recorded = {} /\ overlaps = {} /\ forgotten = FALSE
BridgeStep(t) ==
  \/ Refuse(t) \/ Participant(t) \/ Judge(t) \/ Decided(t) \/ Serve(t)
  \/ TruncateDebate(t) \/ WriteDebate(t) \/ ReadIndex(t) \/ TruncateIndex(t) \/ WriteIndex(t) \/ Learn(t)
=============================================================================
