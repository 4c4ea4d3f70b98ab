SPECIFICATION Spec
CONSTANTS
  Alarms = {a, b}
  ListHead = Head
  W = 2
  Intervals = {0, 3}
  Periods = {0, 1, 3}
  Stoppable <- MCStopSelf
PROPERTY NeverEarly
