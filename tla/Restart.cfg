CONSTANTS
  Telemetry = {"load"}
  MaxQueued = 2
  MaxBatch = 2
  NormalInterval = 7
  UrgentInterval = 1
  BackoffInitial = 6
  BackoffMax = 10
  Statuses = {503}
  Faults = {"crash", "garble", "marshal", "loadState", "loadSpool", "lostReply", "saveState"}
  Orders = {"command"}
  InitialID = 0
  MaxFaults = 2
  MaxOrders = 2
  MaxTelemetry = 1
SPECIFICATION Spec
INVARIANTS
  Positions
  NoCommandSkipped
