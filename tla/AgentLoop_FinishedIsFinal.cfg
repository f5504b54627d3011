SPECIFICATION Spec
CONSTANTS
  g = g
  h = h
  Titles = {g, h}
  Plans <- TwoGoals
  RetryLimits = {1}
  ReviewLimit = 3
  GoalLimits = {0}
  AutoReplan = TRUE
  MaxSessions = 1
  HandlersRaise = FALSE
INVARIANT FinishedIsFinal
CHECK_DEADLOCK FALSE
