SPECIFICATION Spec
CONSTANTS
  Tasks <- Tasks4
  Pipelines <- Diamonds
  Outcomes = {"value", "error"}
INVARIANTS
  NoMapRace
