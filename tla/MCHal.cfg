SPECIFICATION HalSpec
CONSTANTS
  Alarms = {a, b, c}
  ListHead = head
  W = 2
  Intervals = {0, 2}
  Periods = {0, 1, 3}
  Stoppable <- MCStoppable
  MaxFd = 6
  Devices = {jtag_uart, null}
  Null = null
  Draining = {jtag_uart}
  Absent = absent
  NoDev = no_dev
  Stdio <- MCStdio
  RxDepth = 2
  TxDepth = 2
  Requests = {0, 1, 3}
  MaxChars = 4
  WordBits = 5
  US = 6
  Rates = {2, 3}
  Times <- MCTimes
  SetUntil = 10
  MaxTicks = 20
  Callees = {work, leaf}
  Callers = {main, work}
  Align = 2
  EntrySize = 2
  SlabSize = 4
  Samples = 2
  HeapSize = 12
  Increments = {1, 40}
  MaxCalls = 3
  MaxRequests = 1
INVARIANT HalTypeOK
INVARIANT ListIsRegistered
INVARIANT NoneMissed
INVARIANT LockHolderUnique
INVARIANT WallClock
INVARIANT BlocksDisjoint
INVARIANT CallsRecorded
PROPERTY NeverEarly
PROPERTY StoppedIsSilent
PROPERTY AlarmsGoOff
PROPERTY OpenKeepsPromise
PROPERTY CallsKeepPromise
PROPERTY SmallIsStream
CHECK_DEADLOCK FALSE
