------------------------------ MODULE MCServer ------------------------------
(***************************************************************************)
(* Two threads, the repository's folder and another; what clients ask of   *)
(* the server in a run is the routes of workspaces with a verification, or *)
(* with chats, or the bridge.                                              *)
(***************************************************************************)
EXTENDS Server

CONSTANTS t1, t2
MCThreads == {t1, t2}
Symmetry == Permutations(MCThreads)

MCTraffics ==
  {[routes |-> {"open", "select", "close", "save", "list"}, requests |-> 3],
   [routes |-> {"open", "select", "tree"}, requests |-> 3],
   [routes |-> {"close", "tree"}, requests |-> 3],
   [routes |-> {"open", "verify"}, requests |-> 2],
   [routes |-> {"verify"}, requests |-> 3],
   [routes |-> {"select", "chat"}, requests |-> 3],
   [routes |-> {"select", "close", "chat", "upload"}, requests |-> 2],
   [routes |-> {"consult"}, requests |-> 1],
   [routes |-> {"supervise"}, requests |-> 3]}
MCSummaries ==
  {[rc |-> 0, passed |-> 2, failed |-> 0, teardown |-> FALSE],
   [rc |-> 1, passed |-> 1, failed |-> 1, teardown |-> FALSE],
   [rc |-> 1, passed |-> 1, failed |-> 0, teardown |-> TRUE]}
MCPrompts ==
  {[hint |-> FALSE, target |-> "none", at |-> "own", size |-> 1],
   [hint |-> TRUE, target |-> "file", at |-> "outside", size |-> 9],
   [hint |-> TRUE, target |-> "folder", at |-> "proj", size |-> 1]}
MCUploads ==
  {[kind |-> "none", size |-> 0], [kind |-> "document", size |-> 6]}
MCQuestions ==
  [op : {"consult"}, text : {{}, {"pipeline"}, {"sequence"}, {"implement", "queue"}}, panel : {<<>>, <<"poet", "coder">>}]
    \cup [op : {"supervise"}, text : {{"queue"}}, panel : {<<"poet">>}]
MCJudgements ==
  {[winner |-> "coder", tool |-> {"git"}, confidence |-> "above", answer |-> "verdict"],
   [winner |-> "", tool |-> {"bug", "pipeline"}, confidence |-> "nan", answer |-> ""],
   [winner |-> "nobody", tool |-> {}, confidence |-> "text", answer |-> "absent"]}
=============================================================================
