SPECIFICATION Spec
CONSTANTS
  t1 = t1
  t2 = t2
  Threads <- MCThreads
  Traffics <- MCTraffics
  MaxRequests = 3
  MaxCrashes = 1
  Roots = {"home", "proj"}
  Summaries <- MCSummaries
  Prompts <- MCPrompts
  Uploads <- MCUploads
  MaxPrompt = 8
  MaxExcerpt = 4
  Names = {"planner", "coder", "reviewer", "poet"}
  Questions <- MCQuestions
  Judgements <- MCJudgements
SYMMETRY Symmetry
INVARIANTS WorkspacesHoldTogether VerifyAnswersItsRun ChatsHoldTogether DebatesHoldTogether
CHECK_DEADLOCK FALSE
