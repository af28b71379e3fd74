CONSTANTS
  Plugins <- MCPlugins
  Interval <- MCInterval
  SilentFirst <- MCSilentFirst
  Hanging <- MCHanging
  MaxWork <- MCWork
  Stagger <- MCStagger
  BackoffInitial = 1
  BackoffMax = 4
  HealthyWindow = 1
  MinThreshold = 4
  WatchdogInterval = 1
SPECIFICATION FairSpec
INVARIANT TypeOK
INVARIANT StaleHasCause
INVARIANT ExitCodeTells
PROPERTY FailureEndsDaemon
PROPERTY WedgeDetected
PROPERTY ShutdownBounded
CHECK_DEADLOCK FALSE
