SPECIFICATION IdSpec
CONSTANTS
  Runs <- TwoRuns
  NumTasks = 2
  Shared = FALSE
  MaxResumes = 1
PROPERTY IdsIdentify
