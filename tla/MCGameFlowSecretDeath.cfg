SPECIFICATION Spec
CONSTANTS
  NumLives = 2
  ByteSize = 8
  Cabinets <- AnyCabinet
  Starts <- TwoPlayers
  MaxLevel <- Two
INVARIANTS
  HeightIsStageNumber
