\* A branch decided in one block and taken in the next.
SPECIFICATION Spec
CONSTANTS
  Threads = {t1}
  Rips <- SpinRips
  Term <- SplitTerm
  Taken <- SplitTaken
  Fall <- SplitFall
  Dyn <- SplitDyn
  SetsFlags <- SplitFlags
  Sentinel = 0
  Starts = {1}
  Size <- UnitSize
  Capacity = 32
  Reach = {TRUE}
  MaxIters = 4
  PumpEvery = 2
CHECK_DEADLOCK FALSE
INVARIANT FlagsPersist
