SPECIFICATION HeapSpec
CONSTANTS
  TaskRuns <- Runs2
  Given <- Given3
  Programs <- AllPrograms
INVARIANT InterpolatedAll
PROPERTY VariablesAreFrozen
