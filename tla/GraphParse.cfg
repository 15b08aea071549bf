SPECIFICATION GraphSpec
CONSTANTS
  Nodes <- Nodes3
  Sources <- Documents
INVARIANTS
  DependenciesAreDeclaredOrNamed
  LinksAreOrdered
  RejectedForAReason
  YieldsPipeline
