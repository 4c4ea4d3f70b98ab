SPECIFICATION FairSpec
CONSTANTS
  BufLen = 3
  RxDepth = 2
  TxDepth = 2
  WriteThreshold = 1
  DefaultTimeout = 3
  IntMax = 5
  Requests <- MCRequests
  Timeouts = {}
  Traffic <- MCWrites
PROPERTY WriteFailsOnTimeout
CHECK_DEADLOCK FALSE
