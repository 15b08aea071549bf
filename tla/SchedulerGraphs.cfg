SPECIFICATION FairSpec
CONSTANTS
  Tasks <- Tasks3
  Pipelines <- Pipelines3
  Outcomes = {"value", "error", "pending"}
INVARIANTS
  TypeOK
  DependencyCount
  StartedAfterInputs
  InstanceSeesFinalResults
  NothingForgotten
PROPERTIES
  ConsumedResultsFrozen
  ImplementsDataflow
