CONSTANTS
  Telemetry = {"load"}
  MaxQueued = 2
  MaxBatch = 2
  NormalInterval = 7
  UrgentInterval = 1
  BackoffInitial = 6
  BackoffMax = 10
  Statuses = {404, 503}
  Faults = {"refuse", "partial", "defer", "forget", "saveState", "saveSpool"}
  Orders = {"command", "resynchronize", "accepted-types", "unsubscribed"}
  InitialID = 0
  MaxFaults = 2
  MaxOrders = 2
  MaxTelemetry = 1
SPECIFICATION Spec
INVARIANTS
  TypeOK
  NoResultSleeps
  NothingInvented
  ResultsKept
  SpoolBounded
  BoundIsTheLoop
PROPERTIES
  DeliversOnceInOrder
