CONSTANTS
  Telemetry = {"load"}
  MaxQueued = 8
  MaxBatch = 2
  NormalInterval = 7
  UrgentInterval = 1
  BackoffInitial = 6
  BackoffMax = 10
  Statuses = {503}
  Faults = {"stop", "refuse", "overrun", "forget", "defer"}
  Orders = {"command"}
  InitialID = 0
  MaxFaults = 2
  MaxOrders = 1
  MaxTelemetry = 0
SPECIFICATION FairSpec
INVARIANTS
  ShutdownSpoolsQueue
PROPERTIES
  ShutdownCompletes
  Registers
