CONSTANTS
  Telemetry = {"load"}
  MaxQueued = 8
  MaxBatch = 2
  NormalInterval = 7
  UrgentInterval = 1
  BackoffInitial = 6
  BackoffMax = 10
  Statuses = {503}
  Faults = {"refuse", "lostReply", "late", "partial"}
  Orders = {"command"}
  InitialID = 1
  MaxFaults = 3
  MaxOrders = 2
  MaxTelemetry = 0
SPECIFICATION FairSpec
INVARIANTS
  CommandsInOrder
  TimerHonoursBackoff
PROPERTIES
  DeliversOnceInOrder
  DeliversEventually
  CommandsAnswered
  QueueDrains
