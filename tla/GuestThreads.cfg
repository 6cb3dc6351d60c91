\* Four threads that nest two deep in a critical section; two threads that pump
\* with every kind of peek, input events and a quit.
SPECIFICATION TSpec
CONSTANTS
  Threads = {t1, t2, t3, t4}
  NoThread = NoThread
  U32Max = 4
  MaxDepth = 2
  Callers = {q1, q2}
  Pumpers = {q1, q2}
  Classes = {c1}
  Procs = {p1, p2}
  NoProc = NoProc
  MaxWindows = 1
  MaxPosts = 2
  MaxQuits = 1
  Removes = {TRUE, FALSE}
  Cocoa = TRUE
INVARIANTS MutualExclusion WindowStateIsSound
PROPERTIES ImplementsLock SectionIsTaken HandedOutInOrder QuitEndsTheWait
