SPECIFICATION Spec
CONSTANTS
  Minutes = {0, 1, 2, 3}
  Prices = {1, 2}
  Interval = 2
  MaxMessages = 3
  MaxCrashes = 2
  MaxFailures = 1
  MaxHour = 1
INVARIANTS ArchiveIsComplete ArchiveOnceUntilReplay CandleNeverOverstates RollupAgrees
CHECK_DEADLOCK FALSE
