SPECIFICATION Spec
CONSTANTS
  Sids <- MCTwoSids
  Clients = {c1}
  NoBucket = NoBucket
  BindFingerprint = TRUE
  Capacity = 1
  Rate = 0
  Burst = 0
  TokenUnit = 1
  Second = 2
  QueuedTtl = 4
  Grace = 2
  AdmittedTtl = 2
  BucketLinger = 0
  MaxBatch = 2
  MaxLag = 1
  MaxTime = 5
INVARIANTS LineIsTracked TicketableHoldsSlot HolderCanComeBack MetadataOutlivesSilence
PROPERTIES PlaceIsStable LiveWaiterKeepsPlace SlotKeptToDeadline
