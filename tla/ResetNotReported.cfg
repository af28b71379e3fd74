CONSTANTS
  Hashed = {"snap-services"}
  Diffed = {"users"}
  Scanned = {"processes"}
  Facts = {"x"}
  Faults = {"reset"}
  MaxChanges = 1
  MaxFaults = 1
SPECIFICATION MCFairSpec
PROPERTY ResetReportsAnew
CHECK_DEADLOCK FALSE
