SPECIFICATION ContextSpec
CONSTANTS
  Settings <- AllSettings
  Forever = 1000
  Overtime = 2
  Grace = 1
  DefaultMin = 2
  DefaultMax = 6
  LibraryMin = 1
  LibraryMax = 4
INVARIANTS ReturnsInTime WaitsDouble OverrunIsBounded
PROPERTIES FirstTimeoutCounts CallReturns
