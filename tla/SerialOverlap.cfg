CONSTANTS
  BUFFER_SIZE = 2
  Bytes = {1, 2}
  MaxBytes = 3
SPECIFICATION Spec
INVARIANT
  SentAsWritten
CHECK_DEADLOCK FALSE
