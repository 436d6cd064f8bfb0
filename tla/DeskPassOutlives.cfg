SPECIFICATION DeskSpec
CONSTANTS
  Sids <- MCSids
  Clients = {c1}
  NoBucket = NoBucket
  BindFingerprint = TRUE
  Capacity = 1
  Rate = 0
  Burst = 0
  TokenUnit = 1
  Second = 2
  QueuedTtl = 4
  Grace = 2
  AdmittedTtl = 2
  BucketLinger = 0
  MaxBatch = 1
  MaxLag = 0
  MaxTime = 5
  Workers = {w1, w2}
  FailOpen = TRUE
  TicketTtl = 2
  MaxTickets = 1
SYMMETRY MCSymmetry
PROPERTIES SlotHeldForPassLifetime
