CONSTANTS
  HalfSize = 6
  RefillLag = 2
  ByteRadix = 3
  MaxOCR = 25
  MultNum = 3
  MultDen = 2
  Files <- MCFiles01
  InitialBr = {0, 1}
  ShortReads = {}
  MotorStops = TRUE
  Commands = {"select", "abort"}
  InvertSignal = FALSE
SPECIFICATION Spec
INVARIANT
  DrainHasRest
