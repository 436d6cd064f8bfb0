SPECIFICATION DeskSpec
CONSTANTS
  Sids <- MCSids
  Clients = {c1}
  NoBucket = NoBucket
  BindFingerprint = TRUE
  Capacity = 1
  Rate = 0
  Burst = 0
  TokenUnit = 1
  Second = 4
  QueuedTtl = 4
  Grace = 4
  AdmittedTtl = 4
  BucketLinger = 0
  MaxBatch = 1
  MaxLag = 3
  MaxTime = 6
  Workers = {w1, w2}
  FailOpen = TRUE
  TicketTtl = 4
  MaxTickets = 1
SYMMETRY MCSymmetry
INVARIANT OnePassPerTicket
