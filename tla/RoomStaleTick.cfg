SPECIFICATION MeteredSpec
CONSTANTS
  Sids <- MCTwoSids
  Clients = {c1}
  NoBucket = NoBucket
  BindFingerprint = TRUE
  Capacity = 2
  Rate = 1
  Burst = 1
  TokenUnit = 2
  Second = 1
  QueuedTtl = 2
  Grace = 1
  AdmittedTtl = 2
  BucketLinger = 0
  MaxBatch = 2
  MaxLag = 1
  MaxTime = 4
INVARIANTS RateNeverOvershot

