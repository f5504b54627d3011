\* Two sessions of one loop, memory records, and subscribers that raise. (The
\* reviewer's own limit, 3 in the code, is scaled down with max_retries.)
SPECIFICATION FairSpec
CONSTANTS
  g = g
  h = h
  Titles = {g, h}
  Plans <- SomePlans
  RetryLimits = {0, 2}
  ReviewLimit = 1
  GoalLimits = {0, 1}
  AutoReplan = TRUE
  MaxSessions = 2
  HandlersRaise = TRUE
INVARIANTS GoalsAreAccountedFor WorkIsBounded CancelledIsNotCompleted
PROPERTY SessionsEnd
CHECK_DEADLOCK FALSE
