SPECIFICATION FairSpec
CONSTANTS
  Paths <- MCPaths
  Chunks = {"c"}
  MaxChunks = 5
  MaxIterations = 2
  MaxCalls = 3
  Replies <- MCReplies
  Requests <- MCRequests
  Trees <- MCTrees
INVARIANTS BudgetIsKept RoundsAreAccountedFor
PROPERTIES FilesAreKept RequestEnds
CHECK_DEADLOCK FALSE
