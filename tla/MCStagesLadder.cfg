SPECIFICATION MCSpec
CONSTANTS
  p1 = p1
  p2 = p2
  t1 = t1
  t2 = t2
  Platforms <- ElevatorPlatforms
  Shaft <- ElevatorShaft
  SpawnDelay = 52
  StartSide <- ElevatorSide
  StartRow <- ElevatorRow
  QuadrantMoves = 24
  PauseMoves = 16
  Start <- SecretStart
  Triggers = {t1, t2}
  CageBars = 2
  MaxWalkOffs = 1
  Turn = 0
  StartDelay = 16
  UpDelay = 128
  Prizes = {p1, p2}
  Rivets = 2
  DisplayTime = 8
  None = None
  NumSlots = 3
  Timer = 12
  Pause = 6
INVARIANTS
  ClimbStaysOnLadder
