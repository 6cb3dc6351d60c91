\* Two threads share a small cache; branches may be out of range.
SPECIFICATION FairSpec
CONSTANTS
  Threads = {t1, t2}
  Rips <- SpinRips
  Term <- SpinTerm
  Taken <- SpinTaken
  Fall <- SpinFall
  Dyn <- SpinDyn
  SetsFlags <- SpinFlags
  Sentinel = 0
  Starts = {1}
  Size <- UnitSize
  Capacity = 12
  Reach = {TRUE, FALSE}
  MaxIters = 3
  PumpEvery = 1
CHECK_DEADLOCK FALSE
INVARIANT ChainsLeadHome
PROPERTIES RunsTheProgram LoopMovesOn
