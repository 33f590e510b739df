SPECIFICATION Spec
CONSTANTS
  BUF_LEN = 3
  RxDepth = 2
  TxDepth = 1
  RxNear = 0
  TxNear = 0
  Numbers = 6
  MaxCount = 2
  MaxTyped = 3
  Timeout = 1
INVARIANTS StreamsWhole NoLostWakeup
PROPERTIES WriteReturns
