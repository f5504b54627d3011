--------------------------- MODULE MCAgentRuntime ---------------------------
EXTENDS AgentRuntime

MCPaths == {<<"a">>, <<"d">>} \cup ({"a", "d"} \X {"a", "d"})

MCTrees ==
  {[p \in MCPaths |-> CASE p = <<"a">> -> File(<<"c">>)
                       [] p = <<"d">> -> Directory
                       [] OTHER -> Absent]}

MCRequest(v, e, i) == [visual |-> v, engineering |-> e, intent |-> i, file |-> <<"a">>]
MCRequests == {MCRequest(TRUE, TRUE, "none"), MCRequest(FALSE, FALSE, "read"),
               MCRequest(FALSE, TRUE, "read"), MCRequest(FALSE, TRUE, "none")}

MCRaw(tool, name, id, call) ==
  [dict |-> TRUE, tool |-> tool, name |-> name, id |-> id, type |-> "tool", args |-> call]
MCFs(call) == MCRaw("filesystem", "none", "none", call)

MCWrite  == MCFs(Call("write_file", <<"d", "d">>, Root, "c"))
MCAppend == MCFs(Call("append_file", <<"d", "d">>, Root, "c"))
MCMkdir  == MCFs(Call("mkdir", <<"d", "a">>, Root, "none"))
MCCopy   == MCFs(Call("copy", <<"a">>, <<"d">>, "none"))
MCMove   == MCFs(Call("move", <<"d">>, <<"a">>, "none"))
MCRename == MCFs(Call("move", <<"d", "d">>, <<"d", "a">>, "none"))
MCDelete == MCRaw("filesystem", "none", "x", Call("delete_file", <<"a">>, Root, "none"))
MCClash  == MCRaw("filesystem", "none", "x", [Call("exists", <<"a">>, Root, "none") EXCEPT !.fit = "clashes"])
MCLegacy == MCRaw("none", "read_file", "none", Call("none", <<"a">>, Root, "none"))
MCBogus  == MCRaw("none", "bogus", "none", NoArgs)
MCShell  == [MCRaw("filesystem", "none", "x", NoArgs) EXCEPT !.type = "shell"]
MCUnknown == MCRaw("mystery", "none", "none", NoArgs)

\* Every action on its own, and the lists whose actions bear on each other.
MCReplies ==
  {<<r>> : r \in {MCWrite, MCAppend, MCMkdir, MCCopy, MCMove, MCRename, MCDelete, MCLegacy,
                  MCBogus, MCUnknown}}
  \cup {<<>>, <<MCDelete, MCClash>>, <<MCClash, MCDelete>>, <<MCShell, MCCopy>>, <<MCShell, MCDelete>>,
        <<MCDelete, MCMove>>, <<MCDelete, MCCopy>>, <<MCAppend, MCRename>>, <<MCMkdir, MCCopy>>, <<MCBogus, MCLegacy>>}
=============================================================================
