CONSTANTS
  Ifaces = {"eth0", "wwan0"}
  Wide = {"wwan0"}
  Wrap = 8
  Threshold = 6
  Window = 2
  Amounts = {1, 2}
  Uptime = {0, 5, 6}
  MaxTraffic = 5
  MaxFaults = 2
SPECIFICATION Spec
INVARIANT TrafficAccounted
PROPERTY PointsLeaveInTime
CHECK_DEADLOCK FALSE
