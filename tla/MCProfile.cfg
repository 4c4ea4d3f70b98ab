SPECIFICATION ProfSpec
CONSTANTS
  Callees = {f}
  Callers = {main}
  Align = 2
  EntrySize = 2
  SlabSize = 4
  Samples = 2
  HeapSize = 32
  Increments = {1}
  MaxCalls = 3
  MaxRequests = 1
INVARIANT SamplerStartedOnce
CHECK_DEADLOCK FALSE
