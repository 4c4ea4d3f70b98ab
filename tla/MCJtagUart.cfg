SPECIFICATION Spec
CONSTANTS
  BufLen = 3
  RxDepth = 2
  TxDepth = 2
  WriteThreshold = 1
  DefaultTimeout = 2
  IntMax = 5
  Requests <- MCRequests
  Timeouts = {1}
  Traffic <- MCStreams
INVARIANT TypeOK
INVARIANT ReceiveArmed
INVARIANT TransmitArmed
INVARIANT WaiterArmed
PROPERTY ReadFailsOnTimeout
PROPERTY ReceiveIsStream
PROPERTY TransmitIsStream
CHECK_DEADLOCK FALSE
