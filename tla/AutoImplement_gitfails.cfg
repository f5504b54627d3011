\* Every git command may fail; one run has a blank test command. Every call ends.
SPECIFICATION FairSpec
CONSTANTS
  Runs = {r1, r2}
  a = a
  n = n
  Tracked = {a}
  New = {n}
  Malformed = Malformed
  Proposals <- OneProposal
  BlankTests = {r2}
  NoOne = NoOne
  MaxIterations = 2
  MaxSaves = 0
  GitFails = TRUE
  VerifierDies = FALSE
INVARIANTS RunsCleanUp
PROPERTIES HeadMovesForward SessionsFinish
CHECK_DEADLOCK FALSE
