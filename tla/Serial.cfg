CONSTANTS
  BUFFER_SIZE = 2
  Bytes = {1, 2}
  MaxBytes = 3
SPECIFICATION FairSpec
INVARIANTS
  TypeOK
PROPERTIES
  TxQueueSpec
  RxQueueSpec
  AllSent
  WritesReturn
CHECK_DEADLOCK FALSE
