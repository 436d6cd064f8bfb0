SPECIFICATION OperatorSpec
CONSTANTS
  Sids <- MCTwoSids
  Clients = {c1}
  FailClosed = TRUE
  NoBucket = NoBucket
  BindFingerprint = TRUE
  Capacity = 1
  Rate = 0
  Burst = 0
  TokenUnit = 1
  Second = 1
  QueuedTtl = 1
  Grace = 1
  AdmittedTtl = 1
  BucketLinger = 0
  MaxBatch = 2
  MaxLag = 0
  MaxTime = 2
INVARIANTS CapacityRespected FlushTakesTheOld
PROPERTIES FifoAdmission KillSwitchHolds
