\* The timer stops at the end of its stage: no check for deadlock.
SPECIFICATION MCSpec
CONSTANTS
  Awards <- MCAwards
  Timers <- MCTimers
  MaxAwards = 3
  Grace = 4
  MaxLate = 8
  MaxPending = 3
  Levels <- FewLevels
INVARIANTS
  PlayedScoresAreDecimal
  OnscreenTracksTimer
PROPERTIES
  AwardIsDecimalSum
  TimeOutIsFinal
CHECK_DEADLOCK FALSE
