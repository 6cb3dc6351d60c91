\* Progress of waits on objects of every kind.
SPECIFICATION FairSpec
CONSTANTS
  auto = auto
  manual = manual
  mtx = mtx
  mtx2 = mtx2
  sem = sem
  t1 = t1
  t2 = t2
  Threads = {t1, t2}
  Events = {auto}
  AutoReset = {auto}
  Mutexes = {mtx}
  Semaphores = {sem}
  NoThread = NoThread
  InitialCount = 0
  MaxCount = 2
  WaitLists <- ServedLists
  WaitAll = {TRUE, FALSE}
  Timed = {TRUE, FALSE}
  MaxHold = 1
  MaxSets = 1
CHECK_DEADLOCK FALSE
INVARIANT PermitsAreServed
PROPERTY AvailableIsServed
