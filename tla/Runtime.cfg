CONSTANTS
  Capacity = 1
  MaxTime = 2
  Backends = 2
SPECIFICATION FairSpec
CHECK_DEADLOCK FALSE
INVARIANTS UsesKept FlushKeeps LoopIsTold
PROPERTIES CallsReturn ProcessEnds
