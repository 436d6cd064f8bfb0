SPECIFICATION DoorSpec
CONSTANTS
  Sids <- MCTwoSids
  Threads = {t1, t2}
  Clients <- MCClients
  SettingsRead <- MCSettingsRead
  Served <- MCServed
  Main = "main"
  Requests <- MCRequests
  Proxies = 1
  Limit = 1
  Window = 1
  NoBucket = NoBucket
  BindFingerprint = TRUE
  Capacity = 1
  Rate = 0
  Burst = 0
  TokenUnit = 1
  Second = 1
  QueuedTtl = 1
  Grace = 1
  AdmittedTtl = 1
  BucketLinger = 0
  MaxBatch = 2
  MaxLag = 0
  MaxTime = 2
SYMMETRY MCThreads
CHECK_DEADLOCK FALSE
INVARIANTS ServedRoomsAreSound SenderIsKnown ProtectedIsGuarded PlacesWithinLimit RefusedNotForLong
PROPERTIES OwnerIsFixed
