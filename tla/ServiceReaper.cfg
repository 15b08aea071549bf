SPECIFICATION ServiceSpec
CONSTANTS
  c1 = c1
  c2 = c2
  Callers <- Callers2
  ReaperInterval = 1
  MaxCalls = 3
INVARIANTS ServiceTypeOK NothingLeftAfterClose
PROPERTIES StoppedReaperNotWoken ClosesReturn
