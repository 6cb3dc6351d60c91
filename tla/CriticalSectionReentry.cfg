\* A Leave that races an Enter erases the new holder's owner field.
SPECIFICATION Spec
CONSTANTS
  Threads = {t1, t2}
  NoThread = NoThread
  U32Max = 4
  MaxDepth = 2
INVARIANT HolderNeverCompetes
