\* All parts, with the program's coordinates and sides of the diamond, but 2
\* prizes, 2 triggers of 4, 2 rivets of 8, awards shown for 8 frames of 64,
\* 3 barrels of 10, a timer of 12 ticks of 50 .. 80, barrels at least 6 frames
\* apart of 24.
SPECIFICATION MCSpec
CONSTANTS
  p1 = p1
  p2 = p2
  t1 = t1
  t2 = t2
  Platforms <- ElevatorPlatforms
  Shaft <- ElevatorShaft
  SpawnDelay = 52
  StartSide <- ElevatorSide
  StartRow <- ElevatorRow
  QuadrantMoves = 24
  PauseMoves = 16
  Start <- SecretStart
  Triggers = {t1, t2}
  CageBars = 2
  MaxWalkOffs = 1
  Turn = 0
  StartDelay = 16
  UpDelay = 128
  Prizes = {p1, p2}
  Rivets = 2
  DisplayTime = 8
  None = None
  NumSlots = 3
  Timer = 12
  Pause = 6
INVARIANTS
  EvenlySpaced
  RidesOnTop
  StaysOnDiamond
  BarsMatchTriggers
  OnlyDrawnMissEnds
  OwedIsPending
  PrizePaidOnce
  HoldsOneBarrel
  WithinDifficulty
PROPERTIES
  SpawnsInTime
  KillSettled
  OilMissedOnlyWhenFull
  EveryBarrelThrown
