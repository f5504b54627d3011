----------------------------- MODULE MCMission -----------------------------
EXTENDS Mission

\* A project of which the path itself says git.  In it a source among tools, one among tests,
\* its text in a build directory, a picture, one of a directory and one of a name the
\* patterns say to leave out, one that is hidden, one that is no text and an empty one.
MCProjectRoot == <<"git", "app">>
App == <<"tools", "git.py">>
Other == <<"tests", "main.py">>
Built == <<"dist", "git.py">>
Log == <<"logs", "git.md">>
Noted == <<"tools", "notes.md">>
Kept == <<"tools", ".git.md">>
Void == <<"tools", "void.py">>
ZipFile == <<"tools", "zip.json">>
MCEdited == <<"bug", "z">>
MCFiles == {App}
MCStart == App :> <<"bug", "x">> @@ Other :> <<"x">> @@ Built :> <<"x">> @@ Log :> <<"x", "x", "x">> @@ Noted :> <<"x">>
           @@ Kept :> <<"x">> @@ Void :> <<>> @@ ZipFile :> <<"x", "x">>
MCPathOrder == <<Built, Log, Other, Kept, App, Noted, Void, ZipFile>>
MCPartOf == {<<"git", "git.py">>, <<"git", "git.md">>, <<"git", ".git.md">>, <<"tool", "tools">>}
MCHidden == {".env", ".git.md"}
MCIndexable == {"git.py", "main.py", "git.md", "notes.md", ".git.md", "void.py", "zip.json"}
MCBinary == {ZipFile}
MCSources == MCIndexable
MCGitignore == <<[kind |-> "dir", of |-> <<"logs">>, negated |-> FALSE],
                 [kind |-> "name", of |-> "notes.md", negated |-> FALSE]>>
MCObjectives == {{"git"}, {"tool"}}

Op(type, search, text) == [type |-> type, search |-> search, text |-> text]
MCAnswers ==
  {<<[path |-> App, ops |-> <<Op("replace", "bug", "x")>>]>>,
   <<[path |-> App, ops |-> <<Op("delete", "x", "")>>], [path |-> Other, ops |-> <<Op("insert_before", "x", "bug")>>]>>,
   <<[path |-> Other, ops |-> <<Op("insert_after", "x", "y"), Op("delete", "y", "")>>],
     [path |-> <<"gone.py">>, ops |-> <<>>], [path |-> App, ops |-> <<Op("keyless", "", "")>>]>>}

Agent(name, kind, cost, priority) == [name |-> name, kind |-> kind, cost |-> cost, priority |-> priority]
Patcher == Agent("patch", "patch", 1, 10)
Absent == Agent("research", "unavailable", 0, 0)
MCRegistries ==
  {<<Absent>>, <<Absent, Patcher>>,
   <<Agent("big", "other", 6, 10), Agent("small", "other", 1, 10), Patcher>>,
   <<Agent("patch", "other", 3, 12), Patcher>>}
MCMissions ==
  {[objective |-> {"tool"}, length |-> 100, priority |-> 0, project |-> TRUE, steps |-> 2],
   [objective |-> {"git"}, length |-> 5000, priority |-> 2, project |-> FALSE, steps |-> 0]}
MCHosts ==
  {[listed |-> FALSE, quoted |-> FALSE, processes |-> {}, disk |-> 94],
   [listed |-> TRUE, quoted |-> FALSE, processes |-> {<<"ankama", "launcher.exe">>}, disk |-> Unknown],
   [listed |-> TRUE, quoted |-> TRUE, processes |-> {<<"ankama", "launcher.exe">>}, disk |-> Unknown],
   [listed |-> TRUE, quoted |-> FALSE, processes |-> {<<"ninja.exe">>}, disk |-> Unknown],
   [listed |-> TRUE, quoted |-> FALSE, processes |-> {<<"bash">>}, disk |-> 95]}
MCAsked == {[mission |-> TRUE, open |-> TRUE, instruction |-> TRUE], [mission |-> TRUE, open |-> FALSE, instruction |-> TRUE]}
Reply(type, fields, named, typed) == [type |-> type, fields |-> fields, named |-> named, typed |-> typed]
MCReplies == {Reply("none", {}, FALSE, FALSE), Reply("tool", {"tool"}, TRUE, TRUE), Reply("tool", {"tool", "arguments"}, TRUE, TRUE)}
=============================================================================
