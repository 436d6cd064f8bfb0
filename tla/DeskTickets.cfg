SPECIFICATION DeskSpec
CONSTANTS
  Sids <- MCSids
  Clients = {c1}
  NoBucket = NoBucket
  BindFingerprint = TRUE
  Capacity = 1
  Rate = 0
  Burst = 0
  TokenUnit = 1
  Second = 3
  QueuedTtl = 3
  Grace = 3
  AdmittedTtl = 3
  BucketLinger = 0
  MaxBatch = 1
  MaxLag = 0
  MaxTime = 5
  Workers = {w1, w2}
  FailOpen = TRUE
  TicketTtl = 3
  MaxTickets = 2
SYMMETRY MCSymmetry
INVARIANTS DeskTypeOK OnePassPerTicket
PROPERTIES PromisedSlotKept
