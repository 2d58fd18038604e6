CONSTANTS
  HalfSize = 5
  FlushLag = 0
  MaxLate = 4
  ByteRadix = 3
  TimerSpan = 81
  TickDiv = 2
  MultNum = 3
  MultDen = 2
  Counts <- MCCounts
  MaxOverflow = 1
  MaxBytes = 12
  CardErrors = FALSE
  AutoFinalize = TRUE
  FinalizeTime = 2
SPECIFICATION Spec
INVARIANT
  HeaderMatchesData
CHECK_DEADLOCK FALSE
