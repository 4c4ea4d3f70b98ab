SPECIFICATION FairSpec
CONSTANTS
  BufLen = 3
  RxDepth = 1
  TxDepth = 1
  WriteThreshold = 0
  DefaultTimeout = 2
  IntMax = 5
  Requests <- MCRequests
  Timeouts = {}
  Traffic <- MCReturns
PROPERTY CallsReturn
PROPERTY AcceptedIsTransmitted
PROPERTY SentIsReceived
CHECK_DEADLOCK FALSE
