\* Events and a mutex, single and multiple waits, timed and untimed.
SPECIFICATION Spec
CONSTANTS
  auto = auto
  manual = manual
  mtx = mtx
  mtx2 = mtx2
  sem = sem
  t1 = t1
  t2 = t2
  Threads = {t1, t2, t3}
  Events = {auto, manual}
  AutoReset = {auto}
  Mutexes = {mtx}
  Semaphores = {}
  NoThread = NoThread
  InitialCount = 0
  MaxCount = 0
  WaitLists <- SafetyLists
  WaitAll = {TRUE, FALSE}
  Timed = {TRUE, FALSE}
  MaxHold = 2
  MaxSets = 1
SYMMETRY ThreadSymmetry
CHECK_DEADLOCK FALSE
INVARIANTS OwnershipIsWhatWasGranted SignalReleasesAtMostOne NoLostWakeup
PROPERTY EveryMutexIsALock
