SPECIFICATION VisitorSpec
CONSTANTS
  Sids <- MCSids
  Clients = {b1, b2}
  Pages = {b1, b2}
  BrowserOf <- MCBrowserOf
  NoBucket = NoBucket
  BindFingerprint = TRUE
  Capacity = 1
  Rate = 0
  Burst = 0
  TokenUnit = 1
  Second = 1
  QueuedTtl = 4
  Grace = 3
  AdmittedTtl = 4
  BucketLinger = 0
  MaxBatch = 2
  MaxLag = 0
  MaxTime = 0
  FailOpen = TRUE
  Injected = "none"
  TicketTtl = 4
  MaxFaults = 0
  MaxVisits = 2

PROPERTIES ActivePageKeepsPlace
