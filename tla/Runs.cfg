SPECIFICATION FairRunSpec
CONSTANTS
  Tasks <- Tasks3
  Pipelines <- Pipelines3
  Outcomes = {"value", "error", "panic", "pending"}
  MaxCalls = 3
INVARIANTS
  RecordIsTrue
  ResumedRunSeesFinalResults
PROPERTIES
  PlainResumeKeepsFinished
  CallsReturn
