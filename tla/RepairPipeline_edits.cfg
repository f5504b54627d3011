SPECIFICATION FairSpec
CONSTANTS
  Files <- MCFiles
  Texts <- MCTexts
  Queries = {"a", "m"}
  About <- MCAbout
  Matching <- MCMatching
  Parsed <- MCParsed
  MaxIterations = 2
  Proposals <- MCProposals
  TestRuns <- MCTestRuns
  Projects <- MCProjects
  MaxForeign = 1
  ForeignTexts <- MCForeignTexts
INVARIANTS PatchesAreRight RoundsAreInformed
PROPERTIES OutcomesAreTrue ExecutionEnds
CHECK_DEADLOCK FALSE
