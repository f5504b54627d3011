------------------------------ MODULE Diffing ------------------------------
(***************************************************************************)
(* Patches between two texts (diffing), the rules they are verified by     *)
(* (verification), and the verdict read off a test run (testing).  A text  *)
(* is its lines and whether the last one is terminated; the empty line     *)
(* is "".                                                                  *)
(***************************************************************************)
EXTENDS CodeContext

ASSUME TextsAssumption ==
  \A t \in Texts : /\ t \in [lines : Seq(STRING), nl : BOOLEAN]
                   /\ t.lines = <<>> => ~t.nl
                   /\ t.lines # <<>> /\ Last(t.lines) = "" => t.nl
Blank == [lines |-> <<>>, nl |-> FALSE]

\* difflib's longest common block of a[alo..ahi-1] and b[blo..bhi-1], the first
\* one in a, then in b.
Common(a, alo, ahi, b, blo, bhi) ==
  LET same(i, j, k) == i + k <= ahi /\ j + k <= bhi /\ SubSeq(a, i, i + k - 1) = SubSeq(b, j, j + k - 1)
      longest == Max({k \in 0..(ahi - alo) : \E i \in alo..ahi, j \in blo..bhi : same(i, j, k)})
      first == Min({i \in alo..ahi : \E j \in blo..bhi : same(i, j, longest)})
  IN <<first, Min({j \in blo..bhi : same(first, j, longest)}), longest>>

\* SequenceMatcher.get_opcodes without the equal ones: what lies between the
\* common blocks.
Opcodes(a, b) ==
  LET In(s) == 1..(Len(s) + 1)
      ranges == {r \in In(a) \X In(a) \X In(b) \X In(b) : r[1] <= r[2] /\ r[3] <= r[4]}
      between[r \in ranges] ==
        LET m == Common(a, r[1], r[2], b, r[3], r[4])
        IN IF m[3] = 0
           THEN IF r[1] = r[2] /\ r[3] = r[4] THEN <<>> ELSE <<r>>
           ELSE between[<<r[1], m[1], r[3], m[2]>>] \o between[<<m[1] + m[3], r[2], m[2] + m[3], r[4]>>]
  IN between[<<1, Len(a) + 1, 1, Len(b) + 1>>]

\* The opcodes of every pair of texts.
get_opcodes == [t \in Texts |-> [u \in Texts |-> Opcodes(t.lines, u.lines)]]

\* "\n".join: one empty line and no line at all give the same string.
Join(lines) == IF lines = <<"">> THEN <<>> ELSE lines

\* Mutant: end_line is one too far.
generateInclusive(op) ==
  LET a == op.original.lines
      b == op.new.lines
      patch(c) == [file |-> op.file, original |-> Join(SubSeq(a, c[1], c[2] - 1)),
                   replacement |-> Join(SubSeq(b, c[3], c[4] - 1)),
                   start |-> c[1], end |-> c[2]]
      codes == get_opcodes[op.original][op.new]
  IN [i \in DOMAIN codes |-> patch(codes[i])]

\* PatchGenerator.generate: nothing when the texts differ in no line.
generate(op) ==
  LET a == op.original.lines
      b == op.new.lines
      patch(c) == [file |-> op.file, original |-> Join(SubSeq(a, c[1], c[2] - 1)),
                   replacement |-> Join(SubSeq(b, c[3], c[4] - 1)),
                   start |-> c[1], end |-> c[2] - 1]
      codes == get_opcodes[op.original][op.new]
  IN [i \in DOMAIN codes |-> patch(codes[i])]

Structured(p) ==
  /\ p.start >= 1
  /\ IF p.original = <<>> THEN p.end = p.start - 1 ELSE p.end >= p.start
Changes(p) == p.replacement # p.original

\* The lines the patch names hold what it replaces.  No patch that replaces or
\* removes a single empty line is structured: its original joins to nothing.
Consistent(tree, p) ==
  /\ tree[p.file] \notin {Missing, Binary}
  /\ LET lines == tree[p.file].lines
     IN p.end <= Len(lines) /\ Join(SubSeq(lines, p.start, p.end)) = p.original

\* PatchValidator.validate; inserting a single empty line is an empty patch.
validate(tree, p) ==
  /\ Structured(p) /\ Consistent(tree, p)
  /\ p.original # <<>> \/ p.replacement # <<>>
  /\ Changes(p)

\* SelfVerifier.default_rules, with their severities.
default_rules(tree, p) ==
  <<[severity |-> "error", ok |-> Structured(p)], [severity |-> "error", ok |-> Changes(p)],
    [severity |-> "warning", ok |-> Structured(p)], [severity |-> "error", ok |-> Consistent(tree, p)]>>

\* RuleEngine.verify: the first failure of an error rule ends it.
verify(tree, patches) ==
  \A i \in DOMAIN patches :
    \A r \in ToSet(default_rules(tree, patches[i])) : r.severity = "error" => r.ok

-----------------------------------------------------------------------------
(***************************************************************************)
(* A test run: [returncode, text, lines, known], where text says whether   *)
(* its output is text and not the bytes a timeout leaves, and known is the *)
(* causes its wording gives away.  A line: [case, items, words].           *)
(***************************************************************************)
Kinds == <<"failed", "passed", "skipped", "errors">>

\* _COUNT_RE matches where a line begins, perhaps nothing at all: the counts in
\* the order of Kinds, up to the first that is of another kind or out of order.
Counted(items) ==
  LET place(i) == SelectInSeq(Kinds, LAMBDA k : k = items[i][1])
      good == {n \in 0..Len(items) : \A i \in 1..n : place(i) > IF i = 1 THEN 0 ELSE place(i - 1)}
  IN SubSeq(items, 1, Max(good))

\* TestParser.parse: the counts of the last line that speaks of counts, or else
\* those of the case lines; without any a failed command counts as an error.
parse(out) ==
  LET spoken == {i \in DOMAIN out.lines : out.lines[i].words}
      counts == IF spoken = {} THEN <<>> ELSE Counted(out.lines[Max(spoken)].items)
      Of(kind) == IF counts = <<>>
                  THEN Cardinality({i \in DOMAIN out.lines : out.lines[i].case = kind})
                  ELSE IF \A i \in DOMAIN counts : counts[i][1] # kind THEN 0
                  ELSE counts[CHOOSE i \in DOMAIN counts : counts[i][1] = kind][2]
      total == Of("failed") + Of("passed") + Of("skipped") + Of("errors")
  IN IF ~out.text
     THEN [success |-> out.returncode = 0, total |-> 0, failed |-> 0,
           errors |-> IF out.returncode = 0 THEN 0 ELSE 1]
     ELSE [success |-> out.returncode = 0 /\ Of("failed") = 0 /\ Of("errors") = 0, total |-> total,
           failed |-> Of("failed"),
           errors |-> IF total = 0 /\ out.returncode # 0 THEN Max({Of("errors"), 1}) ELSE Of("errors")]

\* TestDiagnosis.diagnose.
diagnose(out, result) ==
  IF out.known # {} \/ result.success THEN out.known
  ELSE IF result.errors > 0 THEN {"errors occurred"}
  ELSE IF result.failed > 0 THEN {"tests failed"} ELSE {}
=============================================================================
