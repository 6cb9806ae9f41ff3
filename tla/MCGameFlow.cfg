SPECIFICATION Spec
CONSTANTS
  NumLives = 3
  ByteSize = 8
  Cabinets <- Cocktail
  Starts <- AnyGame
  MaxLevel <- SixOrOne
INVARIANTS
  LevelMatchesOrder
  LivesConserved
  BonusEarned
  GameOverIsFinal
  TurnsAlternate
  SelectorsAgree
  RegistersOwnEntry
PROPERTIES
  GameEnds
  WaitingPlayerPlays
