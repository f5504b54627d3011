------------------------------ MODULE Context ------------------------------
(***************************************************************************)
(* What the patch agent shows the model of a project: the files that are   *)
(* not ignored (workspace/ignore.py, scanner.py), of the directories the   *)
(* objective is about, best first, until the context is full               *)
(* (context/context_builder.py, workspace/workspace.py).  A path is a      *)
(* sequence of names, an objective a set of words, texts the text of every *)
(* file there is; a text and a context are as long as they have words.     *)
(***************************************************************************)
EXTENDS SequencesExt, FiniteSetsExt, Ordering

CONSTANTS ProjectRoot, \* the path of the project itself
          PartOf,      \* <<word, name>>: the word is a part of the name
          Hidden,      \* the names that begin with a dot
          Indexable,   \* the names whose extension is one of _extensions
          Sources,     \* the names of the extensions .py, .md, .toml and .json
          Binary,      \* the paths whose content is not text
          PathOrder,   \* every path there may be, as their strings are ordered, and on the disk
          Gitignore,   \* the patterns: [kind, of, negated], of a name or a path
          MaxChars, MaxFiles, HeaderSize

ASSUME ContextAssumption ==
  /\ ProjectRoot \in Seq(STRING) /\ PathOrder \in Seq(Seq(STRING)) /\ MaxChars \in Nat /\ MaxFiles \in Nat /\ HeaderSize \in Nat
  /\ DOMAIN Gitignore = 1..Len(Gitignore) /\ Len(Gitignore) \in Nat
  /\ \A i \in DOMAIN Gitignore : Gitignore[i].negated \in BOOLEAN

-----------------------------------------------------------------------------
(***************************************************************************)
(* IgnoreEngine and Scanner.                                               *)
(***************************************************************************)
Internal(path) ==
  \/ ToSet(path) \cap {"__pycache__", ".pytest_cache", ".mypy_cache"} # {}
  \/ Head(path) \in {"node_modules", ".venv", "dist", "build"}

\* A pattern that ends in a slash says something of directories alone: nothing of the
\* files in them.
Matches(rule, path, isDir) ==
  CASE rule.kind = "dir" -> isDir /\ IsPrefix(rule.of, path)
    [] rule.kind = "name" -> Last(path) = rule.of
    [] rule.kind = "path" -> path = rule.of
\* The last pattern to match decides.
is_ignored(path, isDir) ==
  \/ Internal(path)
  \/ LET hits == {i \in DOMAIN Gitignore : Matches(Gitignore[i], path, isDir)}
     IN hits # {} /\ ~Gitignore[Max(hits)].negated
list_files(texts) == {p \in DOMAIN texts : Last(p) \notin Hidden /\ ~is_ignored(p, FALSE)}

\* Workspace.get_tree: of which the builder wants the directories of the root.
TopDirs(texts) ==
  {d \in {Head(p) : p \in {q \in DOMAIN texts : Len(q) > 1}} : d \notin Hidden /\ ~is_ignored(<<d>>, TRUE)}

\* FileReader.read_text.
ReadText(texts, path, limit) == IF path \in Binary THEN 0 ELSE Min({Len(texts[path]), limit})

-----------------------------------------------------------------------------
(***************************************************************************)
(* ContextBuilder.                                                         *)
(***************************************************************************)
In(word, name) == word = name \/ <<word, name>> \in PartOf
InPath(word, path) == \E k \in DOMAIN path : In(word, path[k])
AnyIn(words, path) == \E w \in words : InPath(w, path)

DocumentTopic == [words |-> {"pdf", "document", "reader", "parser", "ocr"}, boost |-> 8]
GitTopic == [words |-> {"git", "repository", "composio", "github"}, boost |-> 7]
GameTopic == [words |-> {"dofus", "game", "bot", "automation"}, boost |-> 7]
PatchTopic == [words |-> {"patch", "replace", "operations", "context"}, boost |-> 6]
Topics == {DocumentTopic, GitTopic, GameTopic, PatchTopic}
Detected(t, objective) == \E w \in objective : \E k \in t.words : In(k, w)
detect_topics(objective) == {t \in Topics : Detected(t, objective)}

Preferred == {"agents", "core", "workspace", "tools", "tests", "docs"}
\* _select_relevant_dir_names (its limits of six and eight are above what a project here
\* has; of the last resort any two directories may be the first).
RelevantDirs(texts, objective) ==
  LET dirs == TopDirs(texts)
      onTopic == {d \in dirs : \E t \in detect_topics(objective) : AnyIn(t.words, <<d>>)}
      named == {d \in dirs : AnyIn(objective, <<d>>)}
  IN IF dirs = {} THEN {IF objective = {} THEN Preferred ELSE objective}
     ELSE IF onTopic # {} THEN {onTopic}
     ELSE IF named # {} THEN {named}
     ELSE IF dirs \cap Preferred # {} THEN {dirs \cap Preferred}
     ELSE kSubset(Min({2, Cardinality(dirs)}), dirs)

\* A directory counts wherever in the path its name is.
FilesIn(texts, dirs) ==
  {p \in list_files(texts) : Last(p) \in Indexable /\ ToSet(p) \cap dirs # {}}

\* What is scored is the path from the root of the disk on: what the project's own path says
\* of the objective counts for every file alike.
Absolute(p) == ProjectRoot \o p
Boost(t, objective, p) == IF Detected(t, objective) /\ AnyIn(t.words, Absolute(p)) THEN t.boost ELSE 0
ScorePath(objective, p) ==
  Boost(DocumentTopic, objective, p) + Boost(GitTopic, objective, p)
  + Boost(GameTopic, objective, p) + Boost(PatchTopic, objective, p)
  + 5 * Cardinality({w \in objective : InPath(w, Absolute(p))})
  + 1 + (IF Last(p) \in {"readme.md", "main.py"} THEN 2 ELSE 0)
Place(p) == CHOOSE k \in DOMAIN PathOrder : PathOrder[k] = p
Better(objective, p, q) ==
  LET more == ScorePath(objective, p)
      less == ScorePath(objective, q)
  IN more > less \/ (more = less /\ Place(p) > Place(q))
rank_candidates(objective, ps) == InOrder(ps, [p \in ps |-> {q \in ps : Better(objective, q, p)}])
Best(ranked) == SubSeq(ranked, 1, Min({MaxFiles, Len(ranked)}))

\* Mutant: what is used already is not subtracted.
AddWhole(texts, acc, path) ==
  LET size == HeaderSize + ReadText(texts, path, MaxChars)
  IN [acc EXCEPT !.used = @ + size, !.blocks = Append(@, [path |-> path, size |-> size])]
\* A block is read for what is left, and what then is too long is cut: the last.
AddBlock(texts, acc, path) ==
  LET remaining == MaxChars - acc.used
      content == ReadText(texts, path, remaining)
      size == HeaderSize + content
      block(n) == [path |-> path, size |-> n]
  IN IF acc.full \/ remaining <= 0 THEN [acc EXCEPT !.full = TRUE]
     ELSE IF content = 0 THEN acc
     ELSE IF size > remaining
          THEN [used |-> MaxChars, full |-> TRUE, blocks |-> Append(acc.blocks, block(remaining))]
          ELSE [used |-> acc.used + size, full |-> FALSE, blocks |-> Append(acc.blocks, block(size))]
NoBlocks == [used |-> 0, full |-> FALSE, blocks |-> <<>>]
BlocksOf(texts, paths) ==
  LET after[k \in 0..Len(paths)] == IF k = 0 THEN NoBlocks ELSE AddBlock(texts, after[k - 1], paths[k])
  IN after[Len(paths)].blocks
build(texts, objective, dirs) == BlocksOf(texts, Best(rank_candidates(objective, FilesIn(texts, dirs))))

-----------------------------------------------------------------------------
(***************************************************************************)
(* incremental_build, for the agent engine: no pattern is asked for, a     *)
(* picture is read as a text, and a file with nothing in it has its block. *)
(***************************************************************************)
Keywords == {"agent", "agents", "router", "prompt", "workspace", "tools", "tests", "core", "providers",
             "application", "orchestrator", "rag", "memory", "indexing", "projects", "docs", "api"}
Aliases == Keywords \cup {"prompts", "ai", "index"}
Usual == {"clawai", "core", "workspace", "agents", "ai", "prompts", "providers", "tools", "tests", "projects"}
NeverRead == {".git", ".venv", "__pycache__", ".pytest_cache", ".mypy_cache"}
\* As soon as anything is asked every folder of the usual names is looked at.
FoldersFor(texts, objective) ==
  LET folders == {Head(p) : p \in {q \in DOMAIN texts : Len(q) > 1}} \ Hidden
      matched == {d \in folders : AnyIn(objective, <<d>>) \/ d \in Aliases \/ AnyIn(Keywords, <<d>>)}
      usual == folders \cap Usual
      core == usual \ {"providers", "tools", "projects"}
  IN IF objective # {} /\ matched # {} THEN matched
     ELSE IF objective # {} /\ usual # {} THEN usual
     ELSE IF objective = {} /\ core # {} THEN core ELSE folders
FilesUnder(texts, folders) ==
  {p \in DOMAIN texts : /\ Len(p) > 1 /\ Head(p) \in folders /\ Last(p) \in Indexable
                        /\ ToSet(Absolute(p)) \cap NeverRead = {}}
ScoreFor(objective, p) ==
  5 * Cardinality({w \in objective : InPath(w, Absolute(p))})
  + (IF Last(p) \in {"readme.md", "main.py"} THEN 2 ELSE 0) + (IF Last(p) \in Sources THEN 1 ELSE 0)
AddFile(texts, acc, path) ==
  LET size == Min({HeaderSize + Len(texts[path]), MaxChars - acc.used})
  IN IF acc.full \/ acc.used >= MaxChars THEN [acc EXCEPT !.full = TRUE]
     ELSE [used |-> acc.used + size, full |-> size < HeaderSize + Len(texts[path]),
           blocks |-> Append(acc.blocks, [path |-> path, size |-> size])]
WholeFiles(texts, paths) ==
  LET after[k \in 0..Len(paths)] == IF k = 0 THEN NoBlocks ELSE AddFile(texts, after[k - 1], paths[k])
  IN after[Len(paths)].blocks
Above(objective, p, q) ==
  LET more == ScoreFor(objective, p)
      less == ScoreFor(objective, q)
  IN more > less \/ (more = less /\ Place(p) < Place(q))
incremental_build(texts, objective) ==
  LET under == FilesUnder(texts, FoldersFor(texts, objective))
  IN WholeFiles(texts, Best(InOrder(under, [p \in under |-> {q \in under : Above(objective, q, p)}])))

\* The blocks are joined by a newline each, which nothing has counted.
ContextLength(blocks) ==
  LET sizes[k \in 0..Len(blocks)] == IF k = 0 THEN 0 ELSE sizes[k - 1] + blocks[k].size
  IN sizes[Len(blocks)] + Max({0, Len(blocks) - 1})
=============================================================================
