---------------------------- MODULE CodeContext ----------------------------
(***************************************************************************)
(* What the repair pipeline learns of a project without running it: which  *)
(* files are in it (codebase), what they define, and which of them, and    *)
(* which symbols, a query is about (retrieval).  All of it is a function   *)
(* of the files on disk.                                                   *)
(***************************************************************************)
EXTENDS Ordering, SequencesExt, FiniteSetsExt

CONSTANTS
  Files,      \* the paths a project may have
  Texts,      \* what a file may hold
  Queries,    \* the target queries
  About,      \* About[f]: what scanning sees of a path and ranking compares
  Matching,   \* Matching[f][q]: how the path of f resembles the query
  Parsed      \* Parsed[t]: what ast.parse finds in a text

Missing == [gone |-> TRUE]     \* no such file
Binary == [utf8 |-> FALSE]     \* a file that is no UTF-8
Contents == Texts \cup {Missing, Binary}

ASSUME FilesAssumption == IsFiniteSet(Files)
ASSUME AboutAssumption ==
  About \in [Files -> [ext : {"py", "other"}, init : BOOLEAN, ignored : BOOLEAN,
                       outside : BOOLEAN, base_len : Nat, path_len : Nat, order : Nat, stem : STRING]]
ASSUME MatchingAssumption ==
  Matching \in [Files -> [Queries -> {"equality", "prefix", "suffix", "contains", "none"}]]
ASSUME OrderAssumption == \A f, g \in Files : About[f].order = About[g].order => f = g

\* FileScanner.scan: the files under the root that no ignored directory holds,
\* by path.
scan(tree) ==
  LET found == {f \in Files : tree[f] # Missing /\ ~About[f].ignored}
  IN InOrder(found, [f \in found |-> {g \in found : About[g].order < About[f].order}])

\* SymbolExtractor.extract: a text that cannot be read or parsed defines nothing.
NoModule == [functions |-> {}, classes |-> {}, methods |-> {}, error |-> TRUE]
extract(tree, f) == IF tree[f] \in {Missing, Binary} THEN NoModule ELSE Parsed[tree[f]]

\* CodeAnalyzer.analyze: the modules of the Python files, __init__.py excepted,
\* and for each what it defines, methods left out (DependencyGraph.build).
analyze(tree) ==
  LET found == scan(tree)
      sources == {f \in ToSet(found) : About[f].ext = "py" /\ ~About[f].init}
  IN [files |-> found, modules |-> [f \in sources |-> extract(tree, f)]]
build(snapshot) ==
  [f \in DOMAIN snapshot.modules |-> snapshot.modules[f].functions \cup snapshot.modules[f].classes]

\* PathMatcher.match: every file the query resembles, the closest resemblance
\* first, Python first, then the short name, the long path, the path.
Score(f, q) ==
  CASE Matching[f][q] = "equality" -> 100
    [] Matching[f][q] = "prefix" -> 80
    [] Matching[f][q] = "suffix" -> 70
    [] Matching[f][q] = "contains" -> 50
    [] OTHER -> 0
SortKey(f, q) ==
  <<-Score(f, q), IF About[f].ext = "py" THEN 0 ELSE 1, About[f].base_len,
    -About[f].path_len, About[f].order>>
match(files, q) ==
  LET alike == {f \in ToSet(files) : Score(f, q) > 0}
  IN InOrder(alike, [f \in alike |-> {g \in alike : Before(SortKey(g, q), SortKey(f, q))}])

\* SymbolIndex: a method is [class, name], indexed under its own name.
SymbolIndex(snapshot) ==
  UNION {{[kind |-> "class", name |-> c, file |-> f] : c \in snapshot.modules[f].classes}
         \cup {[kind |-> "method", name |-> m.name, file |-> f] : m \in snapshot.modules[f].methods}
         \cup {[kind |-> "function", name |-> n, file |-> f] : n \in snapshot.modules[f].functions}
         : f \in DOMAIN snapshot.modules}

\* A module answers only when nothing in it or elsewhere has the name.
find_symbol(snapshot, name) ==
  LET defined == {s \in SymbolIndex(snapshot) : s.name = name}
  IN IF defined # {} THEN defined
     ELSE {[kind |-> "module", name |-> name, file |-> f] : f \in {g \in DOMAIN snapshot.modules : About[g].stem = name}}

\* ContextRetriever.retrieve raises when a link leads out of the root.
RetrieveRaises(snapshot) == \E i \in DOMAIN snapshot.files : About[snapshot.files[i]].outside
retrieve(snapshot, q) == [files |-> match(snapshot.files, q), symbols |-> find_symbol(snapshot, q)]
=============================================================================
