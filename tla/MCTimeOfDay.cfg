SPECIFICATION TodSpec
CONSTANTS
  WordBits = 5
  US = 6
  Rates = {2, 3}
  Times <- MCTimes
  SetUntil = 20
  MaxTicks = 20
INVARIANT SetTimeIsRead
CHECK_DEADLOCK FALSE
