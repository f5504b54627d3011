--------------------------- MODULE FilesystemTool ---------------------------
(***************************************************************************)
(* The filesystem tool of the agent runtime                                *)
(* (clawai/tools/filesystem_tool.py) and the way a call reaches it: the    *)
(* provider manager picks a provider, the provider its tool, the tool the  *)
(* method.  Every method catches its own exceptions and answers            *)
(* [ok, tree, bytes]: whether it succeeded, the tree it leaves, and        *)
(* whether the value it returns is a bytes object.  execute is the call    *)
(* the operating system lets finish, Interrupted the answers of one it     *)
(* fails on the way.                                                       *)
(*                                                                         *)
(* The tree is a function from paths, the sequences of names below the     *)
(* working directory that the instance knows, to nodes.  What a file holds *)
(* is a sequence of chunks.                                                *)
(***************************************************************************)
EXTENDS Naturals, Sequences, SequencesExt

CONSTANTS Paths,     \* the paths calls may name
          Chunks,    \* what a write puts in a file
          MaxChunks  \* bound on the chunks append_file leaves in a file

ASSUME PathsAssumption ==
  \A p \in Paths : p \in Seq(STRING) /\ Len(p) > 0 /\ (Len(p) > 1 => Front(p) \in Paths)
ASSUME ChunksAssumption == MaxChunks \in Nat \ {0}

Absent    == [kind |-> "absent", data |-> <<>>]
Directory == [kind |-> "dir",    data |-> <<>>]
File(d)   == [kind |-> "file",   data |-> d]

\* What a write that was cut short has put in the file: not all it was given.
Part == "part"

Node == {Absent, Directory} \cup {File(d) : d \in BoundedSeq(Chunks \cup {Part}, MaxChunks)}

Tree == [Paths -> Node]

Root == <<>>         \* the working directory, which always exists

At(t, p)      == IF p = Root THEN Directory ELSE t[p]
Exists(t, p)  == At(t, p).kind # "absent"
IsDir(t, p)   == At(t, p).kind = "dir"
IsPlain(t, p) == At(t, p).kind = "file"
Dirname(p)    == Front(p)
Below(p, q)   == p # q /\ IsPrefix(p, q)
Children(t, p) == {q \in Paths : Exists(t, q) /\ Dirname(q) = p}

\* Everything that exists hangs from a directory.
WellFormed(t) == \A p \in Paths : Exists(t, p) => IsDir(t, Dirname(p))

-----------------------------------------------------------------------------
(***************************************************************************)
(* A call is a record: the action, its path (src for copy and move), its   *)
(* dst, the content, and whether the arguments fit the method, leave one   *)
(* out or clash with a parameter of provider.execute.                      *)
(***************************************************************************)
Reading == {"read_file", "read_text", "exists", "list_dir", "search"}
Writing == {"write_file", "append_file"}
Methods == Reading \cup Writing \cup {"delete_file", "mkdir", "copy", "move"}

\* What may stand where a name is expected: the program's own and any other string.
Names == Methods \cup {"filesystem", "tool", "none"} \cup STRING
Calls ==
  {c \in [action : Names, path : Paths \cup {Root}, dst : Paths \cup {Root},
          data : Chunks \cup {"none"}, fit : {"fits", "lacks", "clashes"}] :
     c.action \in Writing => c.data \in Chunks}

Answer(ok, t, bytes) == [ok |-> ok, tree |-> t, bytes |-> bytes]
Fails(t) == Answer(FALSE, t, FALSE)
Done(t)  == Answer(TRUE, t, FALSE)

\* Path.mkdir(parents=True, exist_ok=True): every missing ancestor is made,
\* or nothing is, when a file stands in the way.
Blocked(t, p) == \E q \in Paths : IsPrefix(q, p) /\ IsPlain(t, q)
WithDirs(t, p) ==
  [q \in Paths |-> IF IsPrefix(q, p) /\ t[q] = Absent THEN Directory ELSE t[q]]

read_file(t, c) == Answer(IsPlain(t, c.path), t, IsPlain(t, c.path))

read_text(t, c) == Answer(IsPlain(t, c.path), t, FALSE)

exists(t, c) == Done(t)

mkdir(t, c) == IF Blocked(t, c.path) THEN Fails(t) ELSE Done(WithDirs(t, c.path))

write_file(t, c) ==
  LET parent == WithDirs(t, Dirname(c.path)) IN
  IF Blocked(t, Dirname(c.path)) \/ IsDir(t, c.path) THEN Fails(t)
  ELSE Done([parent EXCEPT ![c.path] = File(<<c.data>>)])

append_file(t, c) ==
  LET parent == WithDirs(t, Dirname(c.path)) IN
  IF Blocked(t, Dirname(c.path)) \/ IsDir(t, c.path) THEN Fails(t)
  ELSE Done([parent EXCEPT ![c.path] = File(Append(@.data, c.data))])

\* Path.unlink refuses a directory.
delete_file(t, c) ==
  IF IsPlain(t, c.path) THEN Done([t EXCEPT ![c.path] = Absent]) ELSE Fails(t)

list_dir(t, c) == Answer(IsDir(t, c.path), t, FALSE)

\* rglob over an existing directory; the instance has no ignore engine.
search(t, c) == Answer(IsDir(t, c.path), t, FALSE)

\* shutil.copy2 puts the copy inside dst when dst is a directory.  The parents
\* of dst are made before the source is looked at.
CopyTarget(t, c) == IF IsDir(t, c.dst) THEN Append(c.dst, Last(c.path)) ELSE c.dst
\* Mutant: an old copy is removed before the source is looked at.
copyOverwriting(t, c) ==
  LET made    == WithDirs(t, Dirname(c.dst))
      target  == CopyTarget(made, c)
      cleared == [made EXCEPT ![target] = IF IsPlain(made, target) THEN Absent ELSE @]
  IN CASE Blocked(t, Dirname(c.dst)) -> Fails(t)
       [] ~Blocked(t, Dirname(c.dst))
          /\ (~IsPlain(t, c.path) \/ target = c.path \/ IsDir(made, target)) -> Fails(cleared)
       [] OTHER -> Done([made EXCEPT ![target] = t[c.path]])

copy(t, c) ==
  LET made   == WithDirs(t, Dirname(c.dst))
      target == CopyTarget(made, c)
  IN CASE Blocked(t, Dirname(c.dst)) -> Fails(t)
       [] ~Blocked(t, Dirname(c.dst))
          /\ (~IsPlain(t, c.path) \/ target = c.path \/ IsDir(made, target)) -> Fails(made)
       [] OTHER -> Done([made EXCEPT ![target] = t[c.path]])

\* Path.rename, after the parents of dst are made: a file replaces a file, a
\* directory only an empty directory, and nothing moves below itself.
MoveWorks(t, src, dst) ==
  \/ src = dst /\ Exists(t, src)
  \/ IsPlain(t, src) /\ ~IsDir(t, dst)
  \/ /\ IsDir(t, src) /\ ~Below(src, dst)
     /\ \/ ~Exists(t, dst)
        \/ IsDir(t, dst) /\ Children(t, dst) = {}

Moved(t, src, dst) ==
  [p \in Paths |->
     CASE src = dst -> t[p]
       [] src # dst /\ IsPrefix(dst, p) ->
            LET q == src \o SubSeq(p, Len(dst) + 1, Len(p)) IN
            IF q \in Paths THEN t[q] ELSE Absent
       [] src # dst /\ ~IsPrefix(dst, p) /\ IsPrefix(src, p) -> Absent
       [] OTHER -> t[p]]
move(t, c) ==
  LET made == WithDirs(t, Dirname(c.dst)) IN
  IF Blocked(t, Dirname(c.dst)) THEN Fails(t)
  ELSE IF MoveWorks(made, c.path, c.dst) THEN Done(Moved(made, c.path, c.dst)) ELSE Fails(made)

-----------------------------------------------------------------------------
\* FilesystemTool.execute: the method named by "action"; an unknown action and
\* arguments the method does not take are failures too.
execute(t, c) ==
  IF c.fit # "fits" THEN Fails(t)
  ELSE CASE c.action = "read_file"   -> read_file(t, c)
         [] c.action = "write_file"  -> write_file(t, c)
         [] c.action = "append_file" -> append_file(t, c)
         [] c.action = "delete_file" -> delete_file(t, c)
         [] c.action = "exists"      -> exists(t, c)
         [] c.action = "mkdir"       -> mkdir(t, c)
         [] c.action = "list_dir"    -> list_dir(t, c)
         [] c.action = "copy"        -> copy(t, c)
         [] c.action = "move"        -> move(t, c)
         [] c.action = "search"      -> search(t, c)
         [] c.action = "read_text"   -> read_text(t, c)
         [] OTHER                    -> Fails(t)

(***************************************************************************)
(* The operating system can fail a call at each of its steps, and a text   *)
(* can turn out not to be encodable: the method catches the exception and  *)
(* leaves what it has done.                                                *)
(***************************************************************************)
\* The directory a call makes, with those above it, before anything else.
Parent(c) ==
  CASE c.action \in Writing -> Dirname(c.path)
    [] c.action \in {"copy", "move"} -> Dirname(c.dst)
    [] c.action = "mkdir" -> c.path
    [] OTHER -> Root

\* Refused before it opens, renames or unlinks: some of the directories are made.
Refused(t, c) ==
  {Fails(WithDirs(t, q)) : q \in {q \in Paths \cup {Root} : IsPrefix(q, Parent(c))}}

\* The file a call opens to write, which empties it unless it is to append.
Target(t, c) == IF c.action = "copy" THEN CopyTarget(WithDirs(t, Parent(c)), c) ELSE c.path
Opens(t, c) ==
  /\ c.action \in Writing \cup {"copy"}
  /\ ~IsDir(WithDirs(t, Parent(c)), Target(t, c))
  /\ c.action = "copy" => IsPlain(t, c.path) /\ Target(t, c) # c.path

\* Failed once the file is open: nothing, a part or (its times cannot be copied, the
\* file not be closed) all of the content is in it.  The text of an append is written
\* when the file object goes away, which tells nobody: that call reports success.
Kept(t, c)    == IF c.action = "append_file" THEN At(t, c.path).data ELSE <<>>
Content(t, c) == IF c.action = "copy" THEN t[c.path].data ELSE <<c.data>>
Cut(t, c, ok, written) ==
  Answer(ok, [WithDirs(t, Parent(c)) EXCEPT ![Target(t, c)] = File(Kept(t, c) \o written)], FALSE)
Verdicts(c)   == IF c.action = "append_file" THEN BOOLEAN ELSE {FALSE}
Written(t, c) == {<<>>, <<Part>>, Content(t, c)}
Cuts(t, c)    == {Cut(t, c, ok, written) : ok \in Verdicts(c), written \in Written(t, c)}

Interrupted(t, c) ==
  IF c.fit # "fits" \/ Blocked(t, Parent(c)) THEN {}
  ELSE Refused(t, c) \cup (IF Opens(t, c) THEN Cuts(t, c) ELSE {})

\* The answers a call may have.
Answers(t, c) == {execute(t, c)} \cup Interrupted(t, c)

\* The calls whose effect stays inside the instance's paths and bounds.
Representable(t, c) ==
  /\ c.action = "append_file" => Len(At(t, c.path).data) < MaxChunks
  /\ c.action = "copy" => CopyTarget(WithDirs(t, Dirname(c.dst)), c) \in Paths
  /\ c.action = "move" =>
       \A p \in Paths : IsPrefix(c.path, p) /\ Exists(t, p)
                          => c.dst \o SubSeq(p, Len(c.path) + 1, Len(p)) \in Paths
=============================================================================
