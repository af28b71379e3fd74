CONSTANTS
  Telemetry = {"load"}
  MaxQueued = 1
  MaxBatch = 2
  NormalInterval = 7
  UrgentInterval = 1
  BackoffInitial = 6
  BackoffMax = 10
  Statuses = {503}
  Faults = {"lostReply"}
  Orders = {"command"}
  InitialID = 1
  MaxFaults = 1
  MaxOrders = 2
  MaxTelemetry = 2
SPECIFICATION Spec
INVARIANTS
  ResultsKept
