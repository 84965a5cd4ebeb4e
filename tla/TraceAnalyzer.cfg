CONSTANTS
  RobCapacity = 3
  FrontendWidth = 2
  BackendWidth = 2
  IqSize = 2
  LdqSize = 1
  StqSize = 1
  IntAluUnits = 1
  IntMultDivUnits = 1
  Ul2Latency = 2
  TraceCapacity = 8
  SampleLength = 3
  Codes <- Mixed
  Addrs <- OneAddr
  NoInst = NoInst
  NumSamples = 2
  MaxCycle = 60
  PoolSize = 2
SPECIFICATION LinkSpec
INVARIANTS
  QueuesMirrorRob UnitsBalance CountsBalance DrainedBetweenSamples
  ResultInRange LinksHoldTheQueues
PROPERTIES OperandsReadyUnwrapped AccessesOrderedUnwrapped AnalysisEnds
