\* A closed handle whose slot has been given out again.
SPECIFICATION HandlesSpec
CONSTANTS
  Threads = {t1, t2}
  Shift = 16
  Base = 4
  MaxObjects = 4
  MaxSlots = 4
  HostFds = {3, 4}
  Foreign <- MadeUp
SYMMETRY ThreadSymmetry
INVARIANT StaleHandleMisses
