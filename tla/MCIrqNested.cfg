SPECIFICATION Spec
CONSTANTS
  NIRQ = 3
  Handlers = {timer_isr}
  Null = Null
  Nesting = {1, 2}
  EnableNested = TRUE
  MaxLevel = 3
  MaxSections = 1
INVARIANT OnlyHigherPreempts
