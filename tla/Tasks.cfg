SPECIFICATION Spec
CONSTANTS
  IntLimit = 8
  MaxExp = 2
  Cases <- AllCases
  Statuses <- Statuses4
  SizeLimit = 1
  Params <- AllParams
  Limit8 = 2
  Limit16 = 4
  Limit32 = 8
  Limit64 = 32
  Values <- AllValues
INVARIANTS
  IntegersAreExact
  
  ErrorsAreNotUsed
  ResultsAreComplete
  PanicsAreKnown
  ExchangesAreWhole
