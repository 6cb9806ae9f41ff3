SPECIFICATION MCSpec
CONSTANTS
  Awards <- MCAwards
  Timers <- MCTimers
  MaxAwards = 3
  Grace = 4
  MaxLate = 8
  MaxPending = 3
  Levels <- AllLevels
INVARIANTS
  TimerAsDocumented
CHECK_DEADLOCK FALSE
