SPECIFICATION FairSpec
CONSTANTS
  Tasks <- Tasks4
  Pipelines <- Diamonds
  Outcomes = {"value", "error", "panic", "pending"}
INVARIANTS
  SingleInstance
  WaitingCountsInFlight
  NoStrayGoroutines
  RetryBudget
  LastAttemptWins
PROPERTY
  EventuallyOver
