CONSTANTS
  Plugins <- MCShort
  Interval <- MCShortInterval
  SilentFirst <- MCNone
  Hanging <- MCShort
  MaxWork <- MCShortWork
  Stagger <- MCShortStagger
  BackoffInitial = 1
  BackoffMax = 6
  HealthyWindow = 2
  MinThreshold = 4
  WatchdogInterval = 2
SPECIFICATION FairSpec
PROPERTY WedgeEndsDaemon
CHECK_DEADLOCK FALSE
