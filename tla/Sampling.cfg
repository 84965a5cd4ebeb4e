CONSTANTS
  Lengths <- ShortEqualLong
  TraceSize = 3
  Period = 3
  HalfInt = 5
  MaxInsts = 9
  MaxAccesses = 1
  Cycles <- OneCycle
  None = None
SPECIFICATION Spec
INVARIANTS AnalyzerExclusive RecordsOwnEvents UpdateMatchesAnalysis EveryPeriodUpdates
PROPERTY JoinReturns
