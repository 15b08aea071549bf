SPECIFICATION RunSpec
CONSTANTS
  Tasks <- Tasks3
  Pipelines <- JoinPipelines
  Outcomes = {"value", "error", "pending"}
  MaxCalls = 2
PROPERTIES
  ResumeKeepsFinished
