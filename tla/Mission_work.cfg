SPECIFICATION Spec
CONSTANTS
  Files <- MCFiles
  Start <- MCStart
  PathOrder <- MCPathOrder
  PartOf <- MCPartOf
  Hidden <- MCHidden
  Indexable <- MCIndexable
  Binary <- MCBinary
  ProjectRoot <- MCProjectRoot
  Sources <- MCSources
  Asked <- MCAsked
  Replies <- MCReplies
  Tools = {"works", "refuses", "raises", "is not there", "fails its own way"}
  Gitignore <- MCGitignore
  Objectives <- MCObjectives
  Answers <- MCAnswers
  Registries <- MCRegistries
  Missions <- MCMissions
  Hosts <- MCHosts
  Bug = "bug"
  Edited <- MCEdited
  Jobs = {"fix", "apply", "preview"}
  MaxChars = 7
  MaxFiles = 3
  HeaderSize = 2
  MaxIterations = 2
  MaxSeconds = 1
  MaxEdits = 1
  MaxRuns = 2
INVARIANTS RoutingIsJustified ContextFits PatchesAreRecoverable ReportsAreTrue
CHECK_DEADLOCK FALSE
