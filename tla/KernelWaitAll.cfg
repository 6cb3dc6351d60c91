\* Two wait-all calls on the same two mutexes in opposite order.
SPECIFICATION Spec
CONSTANTS
  auto = auto
  manual = manual
  mtx = mtx
  mtx2 = mtx2
  sem = sem
  t1 = t1
  t2 = t2
  Threads = {t1, t2}
  Events = {}
  AutoReset = {}
  Mutexes = {mtx, mtx2}
  Semaphores = {}
  NoThread = NoThread
  InitialCount = 0
  MaxCount = 0
  WaitLists <- OppositeLists
  WaitAll = {TRUE}
  Timed = {FALSE}
  MaxHold = 1
  MaxSets = 0
CHECK_DEADLOCK FALSE
INVARIANT AllWaitHoldsNothing
