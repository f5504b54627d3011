----------------------------- MODULE Workspaces -----------------------------
(***************************************************************************)
(* The server process and its workspaces: FastAPI runs every route on a    *)
(* thread of its own, WorkspaceManager keeps the list in memory under a    *)
(* lock and rewrites workspaces.json in place (workspaces/manager.py and   *)
(* the routes of api.py).  A route calls the manager several times and     *)
(* holds the lock for none of the time between.                            *)
(***************************************************************************)
EXTENDS Requests

CONSTANT Roots         \* folders somebody may open; "home" is the repository's own

\* A workspace has for its id a hash of its folder, and "default" the repository's own:
\* the two words are no folders, and the lock is held by threads.
ASSUME WorkspacesAssumption ==
  "home" \in Roots /\ {"default", "none"} \cap Roots = {} /\ "free" \notin Threads

VARIABLES workspaces,  \* _workspaces: [id, root, active, opened], in its order
          lock,        \* _lock: its holder, or "free"
          clock,       \* what _now() returns next
          stateFile,   \* workspaces.json: a list, or Torn between truncation and write
          dirs,        \* the folders that are there
          files,       \* who wrote the file the routes save, per folder
          clobbered,   \* the file was last written by another process, or in vain
          moved        \* the threads under whose request the current workspace changed
workspaceVars == <<workspaces, lock, clock, stateFile, dirs, files, clobbered, moved>>

Torn == [torn |-> TRUE, list |-> <<>>]
Stored(list) == [torn |-> FALSE, list |-> list]

-----------------------------------------------------------------------------
(***************************************************************************)
(* The list.                                                               *)
(***************************************************************************)
Default == <<[id |-> "default", root |-> "home", active |-> TRUE, opened |-> 0]>>
Positions(list, Test(_)) == {i \in DOMAIN list : Test(list[i])}
WithId(list, id) == Positions(list, LAMBDA w : w.id = id)
WithRoot(list, root) == Positions(list, LAMBDA w : w.root = root)
Active(list) == Positions(list, LAMBDA w : w.active)

\* current(): the first that is active, or the first of all.
Current(list) == list[IF Active(list) = {} THEN 1 ELSE Min(Active(list))]

\* What a fresh manager makes of the file, and whether it rewrites it.
FromFile(file) == IF file.torn \/ file.list = <<>> THEN Default ELSE file.list
FirstActive(list) == IF Active(list) = {} THEN [list EXCEPT ![1].active = TRUE] ELSE list
Loaded(file) == FirstActive(FromFile(file))
Rewrites(file) == file.torn \/ Loaded(file) # file.list

\* _activate, whose caller gets a KeyError when no workspace has the id: by then none
\* of them is active.
Activated(list, id) == [i \in DOMAIN list |-> [list[i] EXCEPT !.active = list[i].id = id]]

\* open_workspace: the id of a folder is a hash of its path.
Opened(list, root) ==
  IF WithRoot(list, root) # {}
  THEN LET k == Min(WithRoot(list, root))
       IN [Activated(list, list[k].id) EXCEPT ![k].opened = clock]
  ELSE Append([i \in DOMAIN list |-> [list[i] EXCEPT !.active = FALSE]],
              [id |-> root, root |-> root, active |-> TRUE, opened |-> clock])
Selected(list, id) ==
  LET k == Min(WithId(list, id)) IN [Activated(list, id) EXCEPT ![k].opened = clock]
Closed(list, id) == FirstActive(RemoveAt(list, Min(WithId(list, id))))

\* list_workspaces sorts in place: the active one first, then the least recently opened,
\* then as they were.
Sortings(list) ==
  LET first(i, j) ==
        IF list[i].active # list[j].active THEN list[i].active
        ELSE list[i].opened < list[j].opened \/ (list[i].opened = list[j].opened /\ i < j)
      orders == {o \in Bijection(DOMAIN list, DOMAIN list) :
                   \A i, j \in DOMAIN list : i < j => first(o[i], o[j])}
  IN {[i \in DOMAIN list |-> list[order[i]]] : order \in orders}

\* The requests that see another workspace become the current one.
Moves(list) ==
  moved' = IF Current(list).id = Current(workspaces).id THEN moved
           ELSE moved \cup {t \in Threads : Busy(t)}

-----------------------------------------------------------------------------
(***************************************************************************)
(* The routes that change the list: the change and the truncation of the   *)
(* file happen with the lock held, the lock goes when the file is written. *)
(***************************************************************************)
RequestOpen(t, root) ==
  Begin(t, [pc |-> IF root \in dirs THEN "change" ELSE "missing", op |-> "open", arg |-> root])
RequestSelect(t, id) == Begin(t, [pc |-> "change", op |-> "select", arg |-> id])
RequestClose(t, id) == Begin(t, [pc |-> "change", op |-> "close", arg |-> id])
RequestList(t) == Begin(t, [pc |-> "current", op |-> "list", arg |-> ""])
Request(t) ==
  /\ \/ \E r \in Roots : RequestOpen(t, r)
     \/ \E id \in Roots \cup {"default"} : RequestSelect(t, id) \/ RequestClose(t, id)
     \/ RequestList(t)
  /\ moved' = moved \ {t}
  /\ UNCHANGED <<workspaces, lock, clock, stateFile, dirs, files, clobbered>>

OpenMissing(t) ==
  /\ At(t, "missing")
  /\ Reply(t, 400)
  /\ UNCHANGED workspaceVars

\* What the request makes of the list, and whether it saves it: a select of an id that
\* is not there has deactivated them all before it raises.
Found(op, id) == op = "open" \/ WithId(workspaces, id) # {}
Changed(op, arg) ==
  CASE op = "open" -> Opened(workspaces, arg)
    [] op = "select" /\ Found(op, arg) -> Selected(workspaces, arg)
    [] op = "select" /\ ~Found(op, arg) -> Activated(workspaces, arg)
    [] op = "close" -> Closed(workspaces, arg)

Change(t) ==
  LET op == thread[t].op  arg == thread[t].arg
  IN /\ At(t, "change")
     /\ lock = "free"
     /\ Found(op, arg)
     /\ op = "close" => Len(workspaces) > 1
     /\ workspaces' = Changed(op, arg)
     /\ Moves(Changed(op, arg))
     /\ clock' = clock + (IF op = "close" THEN 0 ELSE 1)
     /\ lock' = t
     /\ stateFile' = Torn
     /\ Goto(t, "dump")
     /\ UNCHANGED <<dirs, files, clobbered>>
Dump(t) ==
  /\ At(t, "dump")
  /\ lock = t
  /\ stateFile' = Stored(workspaces)
  /\ clobbered' = FALSE
  /\ lock' = "free"
  /\ Goto(t, "current")
  /\ UNCHANGED <<workspaces, clock, dirs, files, moved>>

\* The write raises: the lock is released, the list is as it was changed and the file as
\* it was left, truncated.
DumpFails(t) ==
  /\ At(t, "dump")
  /\ lock = t
  /\ clobbered' = TRUE
  /\ lock' = "free"
  /\ Reply(t, 500)
  /\ UNCHANGED <<workspaces, clock, stateFile, dirs, files, moved>>

\* close_workspace of the last one, or of none, changes nothing and is answered.
CloseRefused(t) ==
  /\ At(t, "change") /\ thread[t].op = "close"
  /\ lock = "free"
  /\ Len(workspaces) = 1 \/ ~Found("close", thread[t].arg)
  /\ Goto(t, "current")
  /\ UNCHANGED workspaceVars
SelectUnknown(t) ==
  /\ At(t, "change") /\ thread[t].op = "select"
  /\ lock = "free"
  /\ ~Found("select", thread[t].arg)
  /\ workspaces' = Changed("select", thread[t].arg)
  /\ Moves(workspaces')
  /\ Reply(t, 404)
  /\ UNCHANGED <<lock, clock, stateFile, dirs, files, clobbered>>

\* summary(), with which they all end: current, the list, and the map of the project of
\* what was current, for which it has to be there still.
SummaryCurrent(t) ==
  /\ At(t, "current")
  /\ lock = "free"
  /\ Become(t, [pc |-> "listing", op |-> thread[t].op, arg |-> Current(workspaces).id])
  /\ UNCHANGED workspaceVars
SummaryList(t) ==
  /\ At(t, "listing")
  /\ lock = "free"
  /\ workspaces' \in Sortings(workspaces)
  /\ Moves(workspaces')
  /\ Goto(t, "map")
  /\ UNCHANGED <<lock, clock, stateFile, dirs, files, clobbered>>
SummaryMap(t) ==
  /\ At(t, "map")
  /\ lock = "free"
  /\ Reply(t, IF WithId(workspaces, thread[t].arg) # {} THEN 200
              ELSE IF thread[t].op = "select" THEN 404 ELSE 500)
  /\ UNCHANGED workspaceVars

-----------------------------------------------------------------------------
(***************************************************************************)
(* save_file and tree: the workspace is looked up once to find the file    *)
(* and again for every path of the answer.                                 *)
(***************************************************************************)
RequestFile(t) ==
  /\ \E op \in {"save", "tree"}, id \in Roots \cup {"default", "none"} :
       Begin(t, [pc |-> "resolve", op |-> op, arg |-> id, root |-> "none"])
  /\ moved' = moved \ {t}
  /\ UNCHANGED <<workspaces, lock, clock, stateFile, dirs, files, clobbered>>

\* active_root(workspace_id).
Known(id) == id = "none" \/ WithId(workspaces, id) # {}
RootOf(id) == IF id = "none" THEN Current(workspaces).root
              ELSE workspaces[Min(WithId(workspaces, id))].root
\* Mutant: the file is written wherever the current workspace is by then.
ResolveLate(t) ==
  /\ At(t, "resolve")
  /\ lock = "free"
  /\ IF Known(thread[t].arg)
     THEN Become(t, [thread[t] EXCEPT !.pc = IF thread[t].op = "tree" THEN "relative" ELSE "write",
                                      !.root = Current(workspaces).root])
     ELSE Reply(t, 500)
  /\ UNCHANGED workspaceVars
Resolve(t) ==
  /\ At(t, "resolve")
  /\ lock = "free"
  /\ IF Known(thread[t].arg)
     THEN Become(t, [thread[t] EXCEPT !.pc = IF thread[t].op = "tree" THEN "relative" ELSE "write",
                                      !.root = RootOf(thread[t].arg)])
     ELSE Reply(t, 500)
  /\ UNCHANGED workspaceVars
\* A folder that is gone is made again.
WriteFile(t) ==
  /\ At(t, "write")
  /\ files' = [files EXCEPT ![thread[t].root] = t]
  /\ dirs' = dirs \cup {thread[t].root}
  /\ Goto(t, "relative")
  /\ UNCHANGED <<workspaces, lock, clock, stateFile, clobbered, moved>>
Answer(t, status, id) ==
  Become(t, [pc |-> "replied", op |-> thread[t].op, status |-> status, root |-> thread[t].root,
             asked |-> thread[t].arg, named |-> id])
\* relative_to raises when the workspace is another one by now; so does get when it is
\* closed.  A folder that is gone has no tree.
Relative(t) ==
  LET id == thread[t].arg
  IN /\ At(t, "relative")
     /\ lock = "free"
     /\ IF thread[t].op = "tree" /\ thread[t].root \notin dirs THEN Answer(t, 404, "none")
        ELSE IF ~Known(id) \/ RootOf(id) # thread[t].root THEN Answer(t, 500, "none")
        ELSE IF thread[t].op = "tree" THEN Answer(t, 200, id)
        ELSE Goto(t, "named")
     /\ UNCHANGED workspaceVars
\* The answer of save_file names the workspace asked for, or the one current by now.
Named(t) ==
  /\ At(t, "named")
  /\ lock = "free"
  /\ LET id == IF thread[t].arg = "none" THEN Current(workspaces).id ELSE thread[t].arg
     IN Answer(t, 200, id)
  /\ UNCHANGED workspaceVars

\* Somebody removes a folder (external).
RemoveFolder ==
  /\ \E r \in dirs \ {"home"} : dirs' = dirs \ {r} /\ files' = [files EXCEPT ![r] = "nobody"]
  /\ UNCHANGED <<requestVars, workspaces, lock, clock, stateFile, clobbered, moved>>

\* The server dies and starts again: the file is all there is, and a torn one is
\* replaced by the default list before anything else.
Restart ==
  LET list == Loaded(stateFile)
  IN /\ Die
     /\ workspaces' = list
     /\ lock' = "free"
     /\ stateFile' = Stored(list)
     /\ clobbered' = (clobbered \/ stateFile.torn)
     /\ moved' = {}
     /\ UNCHANGED <<clock, dirs, files>>

WorkspacesInit ==
  /\ \E other \in Roots \ {"home"} :
       workspaces \in {Default, Append(Default, [id |-> other, root |-> other, active |-> FALSE, opened |-> 0])}
  /\ lock = "free" /\ clock = 1
  /\ stateFile = Stored(workspaces) /\ clobbered = FALSE
  /\ dirs = Roots /\ files = [r \in Roots |-> "nobody"] /\ moved = {}

WorkspacesRequest(t) == Request(t) \/ RequestFile(t)
WorkspacesStep(t) ==
  \/ OpenMissing(t) \/ Change(t) \/ Dump(t) \/ DumpFails(t) \/ CloseRefused(t) \/ SelectUnknown(t)
  \/ SummaryCurrent(t) \/ SummaryList(t) \/ SummaryMap(t)
  \/ Resolve(t) \/ WriteFile(t) \/ Relative(t) \/ Named(t)
=============================================================================
