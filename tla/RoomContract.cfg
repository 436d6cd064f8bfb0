SPECIFICATION TickerSpec
CONSTANTS
  Sids <- MCTwoSids
  Clients = {c1}
  Engines = {e1}
  AlsoCapacityAware = TRUE
  StrategyRate = 1
  StrategyBurst = 1
  NoBucket = NoBucket
  BindFingerprint = TRUE
  Capacity = 2
  Rate = 3
  Burst = 1
  TokenUnit = 2
  Second = 1
  QueuedTtl = 1
  Grace = 1
  AdmittedTtl = 1
  BucketLinger = 0
  MaxBatch = 2
  MaxLag = 0
  MaxTime = 2
INVARIANTS TypeOK RateNeverOvershot EngineKeepsItsRate
PROPERTIES KeepsContract
