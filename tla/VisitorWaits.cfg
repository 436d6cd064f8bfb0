SPECIFICATION VisitorSpec
CONSTANTS
  Sids <- MCSids
  Clients = {b1, b2}
  Pages = {b1, b2}
  BrowserOf <- MCBrowserOf
  NoBucket = NoBucket
  BindFingerprint = TRUE
  Capacity = 1
  Rate = 1
  Burst = 0
  TokenUnit = 3
  Second = 1
  QueuedTtl = 6
  Grace = 3
  AdmittedTtl = 4
  BucketLinger = 1
  MaxBatch = 2
  MaxLag = 0
  MaxTime = 0
  FailOpen = TRUE
  Injected = "none"
  TicketTtl = 4
  MaxFaults = 1
  MaxVisits = 3
INVARIANTS VisitorTypeOK PassHasSlot
PROPERTIES TurnIsKept VisitorGetsIn
