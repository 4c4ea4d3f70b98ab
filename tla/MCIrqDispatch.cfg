SPECIFICATION FairSpec
CONSTANTS
  NIRQ = 3
  Handlers = {timer_isr}
  Null = Null
  Nesting = {1, 2}
  EnableNested = FALSE
  MaxLevel = 3
  MaxSections = 1
INVARIANT IrqTypeOK
INVARIANT CalledAsRegistered
INVARIANT MaskInStep
INVARIANT SectionsExclude
INVARIANT OnlyHigherPreempts
PROPERTY RequestServed
