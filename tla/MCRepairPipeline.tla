-------------------------- MODULE MCRepairPipeline --------------------------
EXTENDS RepairPipeline

T(ls, nl) == [lines |-> ls, nl |-> nl]
U == T(<<"u">>, TRUE)
Uv == T(<<"u", "v">>, TRUE)
Ublank == T(<<"u", "", "v">>, TRUE)
Unl == T(<<"u">>, FALSE)
Vu == T(<<"v", "w", "u", "v">>, TRUE)
MCTexts == {Blank, U, Uv, Ublank, Unl, Vu}

MCFiles == {"a", "b", "l"}
MCAttr(ext, out, n, s) == [ext |-> ext, init |-> FALSE, ignored |-> FALSE, outside |-> out,
                           base_len |-> 4, path_len |-> 4, order |-> n, stem |-> s]
MCAbout == [f \in MCFiles |-> CASE f = "a" -> MCAttr("py", FALSE, 1, "a")
                                [] f = "b" -> MCAttr("other", FALSE, 2, "b")
                                [] f = "l" -> MCAttr("py", TRUE, 3, "l")]
MCMatching == [f \in MCFiles |-> [q \in {"a", "m"} |->
                 CASE f = "a" /\ q = "a" -> "prefix" [] f = "b" -> "contains" [] OTHER -> "none"]]
MCParsed == [t \in MCTexts |->
  [functions |-> IF t = Uv THEN {"a"} ELSE {}, classes |-> IF t = Ublank THEN {"k"} ELSE {},
   methods |-> IF t = Ublank THEN {[class |-> "k", name |-> "m"]} ELSE {}, error |-> FALSE]]

MCOp(f, t) == [file |-> f, new |-> t]
MCProposals == {<<>>, <<MCOp("a", Uv)>>, <<MCOp("a", Unl)>>, <<MCOp("a", Vu), MCOp("b", Ublank)>>,
                <<MCOp("a", Vu), MCOp("a", Uv)>>, <<MCOp("b", Blank)>>, <<MCOp("b", Vu), MCOp("a", Uv)>>}

MCLine(c, items, w) == [case |-> c, items |-> items, words |-> w]
MCOut(rc, ls, k) == [returncode |-> rc, text |-> TRUE, lines |-> ls, known |-> k]
MCTestRuns ==
  {MCOut(0, <<MCLine("none", <<<<"passed", 2>>>>, TRUE)>>, {}),
   MCOut(1, <<MCLine("none", <<<<"failed", 1>>, <<"passed", 1>>>>, TRUE)>>, {"assertion"}),
   MCOut(1, <<MCLine("none", <<<<"passed", 1>>, <<"warnings", 1>>, <<"errors", 1>>>>, TRUE)>>, {}),
   MCOut(1, <<>>, {}),
   [MCOut(124, <<>>, {}) EXCEPT !.text = FALSE]}

MCProjects == {[f \in MCFiles |-> CASE f = "a" -> U [] f = "b" -> Uv [] OTHER -> Missing],
               [f \in MCFiles |-> CASE f = "a" -> Ublank [] f = "b" -> Uv [] OTHER -> Missing],
               [f \in MCFiles |-> CASE f = "a" -> Binary [] f = "b" -> Ublank [] OTHER -> Missing]}

MCForeignTexts == {Missing, Uv}
=============================================================================
