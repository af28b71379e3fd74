CONSTANTS
  Hashed = {"snap-services"}
  Diffed = {"users"}
  Scanned = {"processes"}
  Facts = {"x"}
  Faults = {"crash", "panic", "save", "refuse", "reset", "corrupt"}
  MaxChanges = 1
  MaxFaults = 1
SPECIFICATION MCSpec
INVARIANT TypeOK
 
INVARIANT DiffsRebuild
PROPERTY NobodyClobbers
PROPERTY CrashesAreSafe
CHECK_DEADLOCK FALSE
