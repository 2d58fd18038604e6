CONSTANTS
  HalfSize = 9
  RefillLag = 1
  ByteRadix = 3
  MaxOCR = 25
  MultNum = 3
  MultDen = 2
  Files <- MCFiles
  InitialBr = {0, 1}
  ShortReads = {0, 4}
  MotorStops = TRUE
  Commands = {"select", "abort"}
  InvertSignal = TRUE
SPECIFICATION FairSpec
INVARIANTS
  TypeOK
  BufferHoldsUnplayed
  SignalFaithful
PROPERTIES
  NoUnderrun
  DeckSpec
  DrainEnds
  PlaybackEnds
CHECK_DEADLOCK FALSE
