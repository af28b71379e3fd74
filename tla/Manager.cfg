CONSTANTS
  a = a
  b = b
  NoName = NoName
  Snaps = {a, b}
  Preinstalled = {b}
  Plans <- MCPlans
  Limit = 2
  Faults = {"panic", "request", "poll", "change", "list", "logind", "interpreter", "files", "attachment", "exit", "stop"}
  MaxFaults = 1
SPECIFICATION FairSpec
INVARIANTS
  TypeOK
  NothingLeaks
  OneVerdict
  SucceededMeansDone
  
PROPERTIES
  HandlersReport
  CancelHeeded
  OnlyHungScriptsBlock
  SnapListConverges
CHECK_DEADLOCK FALSE
