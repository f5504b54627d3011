-------------------------------- MODULE Chat --------------------------------
(***************************************************************************)
(* A chat request (chat/chat_service.py): the prompt is built, with a file *)
(* or a folder it points to or the current workspace, the model or the     *)
(* agent answers (external here: AgentRuntime is a module of its own), and *)
(* the note the answer asks to remember is added to the memory file, which *)
(* is read, extended and written back without a lock (memory/memory.py).   *)
(***************************************************************************)
EXTENDS Workspaces

CONSTANTS Prompts,     \* [hint, target, at, size]: what of it decides
          Uploads,     \* [kind, size]: the file that comes with it, or none
          MaxPrompt,   \* max_prompt_chars, in thousands
          MaxExcerpt   \* max_excerpt_chars, in thousands

\* An excerpt is shorter than the prompt: 4000 and 8000 characters, unless told otherwise.
ASSUME ChatAssumption ==
  /\ MaxPrompt \in Nat /\ MaxExcerpt \in Nat /\ MaxExcerpt < MaxPrompt
  /\ {"own", "outside"} \cap Roots = {}
  /\ \A p \in Prompts :
       /\ p.size \in Nat /\ p.target \in {"none", "file", "folder"}
       /\ p.at \in Roots \cup {"own", "outside"}
  /\ \A u \in Uploads : u.size \in Nat

VARIABLES memoryFile,  \* general.json: the notes, or Torn
          reported,    \* the notes a client was told are saved
          overlapped   \* the notes whose addition overlapped another's
chatVars == <<memoryFile, reported, overlapped>>

-----------------------------------------------------------------------------
(***************************************************************************)
(* PromptBuilder: how much of what is in the prompt, in thousands.         *)
(***************************************************************************)
Clip(size, limit) == Min({size, limit})
FilePart(upload) == IF upload.kind = "document" THEN Clip(upload.size, MaxExcerpt) ELSE 0
\* An excerpt of a file, or a tree, of at most 30 names, for which somebody looked up
\* what was current.
ContextPart(shown, seen) == IF shown = "none" \/ seen # "none" THEN 0 ELSE MaxExcerpt
\* build: the question comes last, and what is too long is cut at the end.
Question(prompt, upload, shown, seen) ==
  Clip(prompt.size, Max({0, MaxPrompt - FilePart(upload) - ContextPart(shown, seen)}))

-----------------------------------------------------------------------------
(***************************************************************************)
(* The request.                                                            *)
(***************************************************************************)
RequestChat(t) ==
  /\ \E p \in Prompts, u \in Uploads :
       Begin(t, [pc |-> "prepare", op |-> IF u.kind = "none" THEN "chat" ELSE "upload", prompt |-> p, upload |-> u, note |-> began + 1,
                 id |-> "none", root |-> "none", pointed |-> "none", seen |-> "none", shown |-> "none"])
  /\ moved' = moved \ {t}
  /\ UNCHANGED <<workspaces, lock, clock, stateFile, dirs, files, clobbered, chatVars>>

\* _build_workspace_context: only a prompt with a word for it has one, and only a
\* workspace whose folder is there.
Prepare(t) ==
  LET w == Current(workspaces)
  IN /\ At(t, "prepare")
     /\ lock = "free"
     /\ Become(t, IF thread[t].prompt.hint /\ w.root \in dirs
                  THEN [thread[t] EXCEPT !.pc = "context", !.id = w.id, !.root = w.root]
                  ELSE [thread[t] EXCEPT !.pc = "model"])
     /\ UNCHANGED <<workspaceVars, chatVars>>

\* _resolve_workspace_target: a token of the prompt is joined to the root, which leaves an
\* absolute one, or one that goes up, wherever it points.
Target(t) == IF thread[t].prompt.at = "own" THEN thread[t].root ELSE thread[t].prompt.at
There(folder) == folder = "outside" \/ folder \in dirs
Points(t, target) == thread[t].prompt.target = target /\ There(Target(t))

\* A file that is there is read, unless it is empty.
ShowFile(t) ==
  /\ At(t, "context")
  /\ Points(t, "file")
  /\ Become(t, [thread[t] EXCEPT !.pc = "model", !.pointed = Target(t), !.shown = Target(t)])
  /\ UNCHANGED <<workspaceVars, chatVars>>
\* Otherwise a tree is made of the folder that is there, or of the workspace:
\* _build_tree_summary looks up what is current by then,
AskTree(t) ==
  /\ At(t, "context")
  /\ lock = "free"
  /\ Become(t, [thread[t] EXCEPT !.pc = "tree",
                                 !.pointed = IF Points(t, "folder") THEN Target(t) ELSE thread[t].root,
                                 !.seen = Current(workspaces).root])
  /\ UNCHANGED <<workspaceVars, chatVars>>
\* and asks the manager for the path relative to that, the absolute path when it is
\* elsewhere, under the id of the workspace of before, which refuses what is not in it;
\* without an answer, or for an empty one, it lists the folder itself.
Asked(id, pointed, seen) ==
  IF Known(id) /\ pointed \in {seen, RootOf(id)} /\ RootOf(id) \in dirs THEN RootOf(id) ELSE "none"
\* Mutant: it asks under no id, which is for the current workspace.
TreeOfCurrent(t) ==
  /\ At(t, "tree")
  /\ lock = "free"
  /\ Become(t, [thread[t] EXCEPT !.pc = "model", !.shown = Asked("none", thread[t].pointed, thread[t].seen)])
  /\ UNCHANGED <<workspaceVars, chatVars>>
Tree(t) ==
  LET pointed == thread[t].pointed
      asked == Asked(thread[t].id, pointed, thread[t].seen)
      itself == IF There(pointed) THEN pointed ELSE "none"
  IN /\ At(t, "tree")
     /\ lock = "free"
     /\ \E answer \in {asked, "none"} :
          Become(t, [thread[t] EXCEPT !.pc = "model",
                                      !.shown = IF answer # "none" THEN answer ELSE itself])
     /\ UNCHANGED <<workspaceVars, chatVars>>

\* What the client gets: a text route answers every exception, an upload's does not.
Answered(t, ok, remembered) ==
  Become(t, [pc |-> "replied", op |-> thread[t].op, answered |-> ok, note |-> thread[t].note,
             status |-> IF ok \/ thread[t].op = "chat" THEN 200 ELSE 500,
             remembered |-> remembered, root |-> thread[t].root, pointed |-> thread[t].pointed,
             seen |-> thread[t].seen, shown |-> thread[t].shown, asked |-> thread[t].prompt.size,
             question |-> Question(thread[t].prompt, thread[t].upload, thread[t].shown, thread[t].seen)])
\* The model answers, with a note, with none or with one that lacks a part, or raises.
Model(t) ==
  /\ At(t, "model")
  /\ \/ Goto(t, "load memory")
     \/ Answered(t, TRUE, FALSE)
     \/ Answered(t, FALSE, FALSE)
  /\ UNCHANGED <<workspaceVars, chatVars>>

\* Memory.add.  The requests between its reading and its writing:
Adding == {t \in Threads : thread[t].pc \in {"add note", "write memory"}}
NotesOf(ts) == {thread[t].note : t \in ts}

\* A file that cannot be read makes the request fail, whatever the model said.
LoadMemory(t) ==
  /\ At(t, "load memory")
  /\ IF memoryFile.torn THEN Answered(t, FALSE, FALSE) /\ UNCHANGED overlapped
     ELSE /\ Become(t, [x \in DOMAIN thread[t] \cup {"data"} |->
                          IF x = "data" THEN memoryFile.list
                          ELSE IF x = "pc" THEN "add note" ELSE thread[t][x]])
          /\ overlapped' = IF Adding = {} THEN overlapped ELSE overlapped \cup NotesOf(Adding \cup {t})
  /\ UNCHANGED <<workspaceVars, memoryFile, reported>>
TruncateMemory(t) ==
  /\ At(t, "add note")
  /\ memoryFile' = Torn
  /\ Goto(t, "write memory")
  /\ UNCHANGED <<workspaceVars, reported, overlapped>>
WriteMemory(t) ==
  /\ At(t, "write memory")
  /\ memoryFile' = Stored(Append(thread[t].data, thread[t].note))
  /\ reported' = reported \cup {thread[t].note}
  /\ Answered(t, TRUE, TRUE)
  /\ UNCHANGED <<workspaceVars, overlapped>>

ChatInit == memoryFile = Stored(<<>>) /\ reported = {} /\ overlapped = {}
ChatStep(t) ==
  \/ Prepare(t) \/ ShowFile(t) \/ AskTree(t) \/ Tree(t)
  \/ Model(t) \/ LoadMemory(t) \/ TruncateMemory(t) \/ WriteMemory(t)
=============================================================================
