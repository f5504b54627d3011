SPECIFICATION GoalsSpec
CONSTANTS
  Offered <- MCOffered
  Objectives <- MCObjectives
  Titles <- MCTitles
  Priorities = {0, 9}
  MaxRecords = 2
  MaxCalls = 5
INVARIANTS RepositoryIsTold BacklogIsCurrent PlanningIsSound
PROPERTY MergeIsCautious
CHECK_DEADLOCK FALSE
