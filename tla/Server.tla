------------------------------- MODULE Server -------------------------------
(***************************************************************************)
(* The server as a whole: the routes of workspaces, verification, chat and *)
(* bridge on the same threads, over the same process and the same files.   *)
(***************************************************************************)
EXTENDS Verification, Chat, Bridge

serverVars == <<requestVars, workspaceVars, verifyVars, chatVars, bridgeVars>>

Init == RequestsInit /\ WorkspacesInit /\ VerifyInit /\ ChatInit /\ BridgeInit

ServeWorkspaces(t) == (WorkspacesRequest(t) \/ WorkspacesStep(t)) /\ UNCHANGED <<verifyVars, chatVars, bridgeVars>>
ServeVerify(t) == (RequestVerify(t) \/ VerifyStep(t)) /\ UNCHANGED <<chatVars, bridgeVars>>
ServeChat(t) == (RequestChat(t) \/ ChatStep(t)) /\ UNCHANGED <<verifyVars, bridgeVars>>
ServeBridge(t) == (RequestDebate(t) \/ BridgeStep(t)) /\ UNCHANGED <<workspaceVars, verifyVars, chatVars>>

FolderRemoved ==
  /\ {"open", "save"} \cap traffic.routes # {}
  /\ RemoveFolder
  /\ UNCHANGED <<verifyVars, chatVars, bridgeVars>>
ServerRestart == Restart /\ BridgeDies /\ UNCHANGED <<verifyVars, chatVars>>

Next ==
  \/ \E t \in Threads : ServeWorkspaces(t) \/ ServeVerify(t) \/ ServeChat(t) \/ ServeBridge(t)
  \/ FolderRemoved \/ ServerRestart
Spec == Init /\ [][Next]_serverVars

-----------------------------------------------------------------------------
(***************************************************************************)
(* Properties.                                                             *)
(***************************************************************************)
Replied(op) == {t \in Threads : At(t, "replied") /\ thread[t].op = op}

\* The manager's list is never empty, holds an id and a folder once and has at most one
\* workspace active, whatever is opened, selected and closed at once; and unless somebody
\* put the default list over a file caught half written, or the last writing of it failed,
\* a restart brings back exactly the workspaces the list holds whenever nobody writes it.
WorkspacesSound ==
  /\ workspaces # <<>> /\ Cardinality(Active(workspaces)) <= 1
  /\ \A i, j \in DOMAIN workspaces :
       workspaces[i].id = workspaces[j].id \/ workspaces[i].root = workspaces[j].root => i = j
  /\ lock = "free" <=> \A t \in Threads : ~At(t, "dump")
  /\ lock = "free" /\ ~clobbered =>
       /\ ~stateFile.torn
       /\ {w.root : w \in ToSet(stateFile.list)} = {w.root : w \in ToSet(workspaces)}

\* A save that is answered has its file in the folder of the workspace it names, and one
\* that was asked for no workspace names another than it wrote to, or fails with the file
\* written, only if the selection moved meanwhile (save_file looks it up three times).
FolderOf(id) == IF id = "default" THEN "home" ELSE id
GoesWhereAsked(t) ==
  LET r == thread[t]
  IN "asked" \in DOMAIN r =>
       /\ r.asked # "none" => FolderOf(r.asked) = r.root
       /\ r.status = 200 /\ (r.asked # "none" \/ t \notin moved) /\ r.named # "none" =>
            FolderOf(r.named) = r.root
       /\ r.status = 500 /\ r.asked = "none" => t \in moved
SavesGoWhereAsked == \A t \in Replied("save") \cup Replied("tree") : GoesWhereAsked(t)

\* The list of workspaces is sound, on disk too, and requests act on the one they name.
WorkspacesHoldTogether == WorkspacesSound /\ SavesGoWhereAsked

\* The verdict of a verification that ran alone is that of the report it shows, unless it
\* ended before it had written one; then it failed, and the report is an earlier run's.
AnswersItsRun(t) ==
  LET data == thread[t].data
  IN IF data.by = thread[t].run THEN thread[t].success <=> data.status = "PASS"
     ELSE ~thread[t].success /\ data.by < thread[t].run /\ (data.status = "torn" => crashes > 0)
VerifyAnswersItsRun == \A t \in Replied("verify") : thread[t].run \in disturbed \/ AnswersItsRun(t)

\* A note a client was told is saved is in the memory file, unless its addition
\* overlapped another's: a file that is torn, or could not be read, loses none.  What a
\* chat shows the model is what its prompt points to, although the tree is asked of a
\* manager that may have another workspace by then: only for the folder of a workspace
\* that became current meanwhile does it show the one it began with, and never what
\* merely became current.  And some of the question is in the prompt unless an upload and
\* an excerpt fill it.
ChatIsTrue(t) ==
  /\ thread[t].remembered => thread[t].note \in reported
  /\ \/ thread[t].shown \in {thread[t].pointed, "none"}
     \/ thread[t].shown = thread[t].root /\ thread[t].pointed = thread[t].seen
  /\ thread[t].asked > 0 /\ thread[t].shown = "none" => thread[t].question > 0
ChatsHoldTogether ==
  /\ ~memoryFile.torn => reported \ overlapped \subseteq ToSet(memoryFile.list)
  /\ \A t \in Replied("chat") \cup Replied("upload") : ChatIsTrue(t)

\* A debate is answered by what the judge or the last participant asked that said
\* anything said, in the order asked whatever the order of the answers; its tool is one
\* of the tools and its winner spoke, unless nobody did or the judge names somebody else.
\* Where the judge names no tool it is the one the supervisor classifies the question
\* under, unless a word of the question is one of the two that only the service looks for.
IsHeard(d, j, rs, q) ==
  LET heard == {i \in DOMAIN rs : rs[i].said > 0}
  IN /\ d.tool \in Tools
     /\ j.winner \in {"absent", ""} /\ heard # {} => \E i \in heard : rs[i].role = d.winner
     /\ j.answer \in {"absent", ""} /\ heard # {} =>
          \E i \in heard : d.answer = rs[i].role /\ \A k \in heard : k <= i
     /\ d.answer \notin {"absent", ""}
     /\ j.tool \in {{"absent"}, {}} /\ ServiceOnly \cap q = {} => d.tool = classify(q)
DebatesAreHeard ==
  \A t \in Threads : thread[t].pc = "decided" =>
    IsHeard(thread[t].decision, thread[t].judge, thread[t].results, thread[t].question)

\* Whatever the index lists has its file whole; a debate that is done is in the index
\* unless its indexing overlapped another's, or somebody found the index half written,
\* in a restart or under another's hands, and took it for an empty one; and of the
\* entries of learning a restart costs at most one.
DebatesAreKept ==
  /\ \A n \in index.entries : kept[n] = "whole"
  /\ ~forgotten /\ ~index.torn => recorded \ overlaps \subseteq index.entries
  /\ Cardinality(recorded \ Listed) <= crashes

\* A debate decides by what was heard, and what it decided is kept.
DebatesHoldTogether == DebatesAreHeard /\ DebatesAreKept

-----------------------------------------------------------------------------
(***************************************************************************)
(* The inductive invariant behind these four properties.  The step a   *)
(* thread is at tells whose request it serves, and what its record has.    *)
(***************************************************************************)
WorkspacePC == {"change", "missing", "dump", "current", "listing", "map", "resolve", "write", "relative", "named"}
VerifyPC == {"build", "load", "rewrite", "check", "report", "write report", "read"}
ChatPC == {"prepare", "context", "tree", "model", "load memory", "add note", "write memory"}
BridgePC == {"refuse", "debate", "decided", "serve", "truncate debate", "write debate", "read index",
             "truncate index", "write index", "learn"}
WorkspaceOps == {"open", "select", "close", "list", "save", "tree"}

ThreadsInv ==
  /\ DOMAIN thread = Threads
  /\ traffic \in Traffics /\ began \in 0..traffic.requests /\ crashes \in Nat
  /\ \A t \in Threads :
       /\ "pc" \in DOMAIN thread[t]
       /\ thread[t].pc \in {"idle", "replied"} \cup WorkspacePC \cup VerifyPC \cup ChatPC \cup BridgePC
       /\ thread[t].pc \in WorkspacePC => "op" \in DOMAIN thread[t] /\ thread[t].op \in WorkspaceOps

\* A list of workspaces as the manager keeps it, on disk and in the verifier's copy too:
\* the file is that of the list whenever nobody is writing it.
Workspace == [id : Roots \cup {"default"}, root : Roots, active : BOOLEAN, opened : Nat]
Sound(list) ==
  /\ list \in Seq(Workspace) /\ list # <<>>
  /\ \A i, j \in Active(list) : i = j
  /\ \A i, j \in DOMAIN list : list[i].id = list[j].id \/ list[i].root = list[j].root => i = j
  /\ \A i \in DOMAIN list : list[i].root = FolderOf(list[i].id)
Folders(list) == {list[i].root : i \in DOMAIN list}
ManagerInv ==
  /\ Sound(workspaces) /\ clock \in Nat
  /\ ~stateFile.torn => Sound(stateFile.list)
  /\ lock \in Threads \cup {"free"} /\ \A t \in Threads : At(t, "dump") <=> lock = t
  /\ lock = "free" /\ ~clobbered => ~stateFile.torn /\ Folders(stateFile.list) = Folders(workspaces)

\* A request for no workspace acts on the current one, unless that moved.
RouteOf(t) ==
  LET r == thread[t]
  IN /\ r.pc = "change" => r.op \in {"open", "select", "close"} /\ (r.op = "open" => r.arg \in Roots)
     /\ r.pc \in {"resolve", "write", "relative", "named"} => {"op", "arg", "root"} \subseteq DOMAIN r
     /\ r.pc \in {"write", "relative", "named"} =>
          IF r.arg # "none" THEN FolderOf(r.arg) = r.root
          ELSE t \in moved \/ Current(workspaces).root = r.root
     /\ r.pc \in {"rewrite", "check"} => "list" \in DOMAIN r /\ Sound(r.list)
WorkspacesInv == ManagerInv /\ SavesGoWhereAsked /\ \A t \in Threads : RouteOf(t)

\* While a run that nobody disturbs has not written its report, the report is of before.
RunOf(t) ==
  LET r == thread[t]
  IN /\ {"op", "run"} \subseteq DOMAIN r /\ r.op = "verify" /\ r.run \in 1..began
     /\ r.pc \in {"load", "rewrite", "check", "report", "write report"} => "ok" \in DOMAIN r
     /\ r.pc = "read" => "rc" \in DOMAIN r
     /\ r.run \notin disturbed =>
          /\ r.pc \in {"build", "load", "rewrite", "check", "report"} => report.by < r.run
          /\ r.pc = "read" =>
               IF report.by = r.run THEN (r.rc = 0 <=> report.status = "PASS")
               ELSE r.rc # 0 /\ report.by < r.run
VerifyInv ==
  /\ report.by \in 0..began
  /\ report.status = "torn" => crashes > 0 \/ \E t \in Threads : At(t, "write report")
  /\ \A t \in Threads : thread[t].pc \in VerifyPC => RunOf(t)
  /\ \A t, o \in Threads :
       t # o /\ thread[t].pc \in VerifyPC /\ thread[o].pc \in VerifyPC => thread[t].run \in disturbed
  /\ VerifyAnswersItsRun

\* Whoever is about to write the memory file has read all that nobody overlapped.
NoteOf(t) ==
  LET r == thread[t]
  IN /\ {"op", "prompt", "upload", "note", "id", "root", "pointed", "seen", "shown"} \subseteq DOMAIN r
     /\ r.op \in {"chat", "upload"} /\ r.prompt \in Prompts /\ r.upload \in Uploads /\ r.note \in Nat
     /\ r.shown \in {r.pointed, "none"} \/ (r.shown = r.root /\ r.pointed = r.seen)
     /\ r.pc \in {"prepare", "context", "tree"} => r.shown = "none"
     /\ r.pc \in {"context", "tree"} => r.id # "none" /\ FolderOf(r.id) = r.root
     /\ r.pc \in {"add note", "write memory"} =>
          /\ "data" \in DOMAIN r /\ r.data \in Seq(Nat)
          /\ reported \ overlapped \subseteq ToSet(r.data)
ChatInv ==
  /\ memoryFile.list \in Seq(Nat)
  /\ \A t \in Threads : thread[t].pc \in ChatPC => NoteOf(t)
  /\ \A t, o \in Adding : t # o => thread[t].note \in overlapped
  /\ ChatsHoldTogether

\* Debates that are whole and nobody's to write again; those that are in the index or
\* were, and those who are about to write the index know them.
Settled(ns) ==
  \A n \in ns :
    /\ n \in 1..began /\ kept[n] = "whole"
    /\ \A t \in Threads :
         thread[t].pc \in {"refuse", "debate", "decided", "truncate debate", "write debate"} => thread[t].debate # n
Indexed == recorded \cup {thread[t].debate : t \in {o \in Threads : At(o, "learn")}}
DebateOf(t) ==
  LET r == thread[t]
  IN /\ {"op", "debate"} \subseteq DOMAIN r /\ r.op \in {"consult", "supervise"} /\ r.debate \in 1..began
     /\ r.pc = "debate" =>
          /\ {"question", "panel", "said"} \subseteq DOMAIN r
          /\ r.panel \in Seq(Names) /\ DOMAIN r.said \subseteq DOMAIN r.panel
          /\ \A i \in DOMAIN r.said : r.said[i] \in 0..2
     /\ r.pc \in {"read index", "truncate index", "write index", "learn"} => kept[r.debate] = "whole"
     /\ r.pc \in {"truncate index", "write index"} =>
          /\ "entries" \in DOMAIN r /\ Settled(r.entries)
          /\ ~forgotten => Indexed \ overlaps \subseteq r.entries
IndexInv ==
  /\ Settled(index.entries)
  /\ \A t, o \in Indexing : t # o => thread[t].debate \in overlaps
  /\ ~forgotten /\ ~index.torn => Indexed \ overlaps \subseteq index.entries
LearningInv ==
  /\ recorded \subseteq 1..began /\ learning \in Seq(Seq(Nat)) /\ unended \in BOOLEAN
  /\ unended => learning # <<>> /\ Last(learning) = <<0>>
  /\ Cardinality(recorded \ Listed) + (IF unended THEN 1 ELSE 0) <= crashes
BridgeInv ==
  /\ DOMAIN kept = 1..MaxRequests
  /\ \A t \in Threads : thread[t].pc \in BridgePC => DebateOf(t)
  /\ \A t, o \in Threads :
       t # o /\ thread[t].pc \in BridgePC /\ thread[o].pc \in BridgePC => thread[t].debate # thread[o].debate
  /\ IndexInv /\ LearningInv /\ DebatesAreHeard

IInv == ThreadsInv /\ WorkspacesInv /\ VerifyInv /\ ChatInv /\ BridgeInv
=============================================================================
