\* Git works; a verifier may die and the user may save during a run.
SPECIFICATION Spec
CONSTANTS
  Runs = {r1, r2}
  a = a
  n = n
  Tracked = {a}
  New = {n}
  Malformed = Malformed
  Proposals <- SomeProposals
  BlankTests = {}
  NoOne = NoOne
  MaxIterations = 2
  MaxSaves = 1
  GitFails = FALSE
  VerifierDies = TRUE
SYMMETRY Symmetry
INVARIANTS CommitsAreEarned OverwritesAreBackedUp
CHECK_DEADLOCK FALSE
