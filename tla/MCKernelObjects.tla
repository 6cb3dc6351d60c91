--------------------------- MODULE MCKernelObjects ---------------------------
(* TLC instances of KernelObjects: the handle arrays each run waits on.     *)
(* SafetyLists names no thread, so that its threads are symmetric.          *)
EXTENDS KernelObjects, TLC

CONSTANTS auto, manual, mtx, mtx2, sem, t1, t2

SafetyLists == {<<auto>>, <<mtx>>, <<manual, mtx>>}
ServedLists == {<<auto>>, <<mtx>>, <<sem>>, <<t1>>, <<sem, mtx>>}
OppositeLists == {<<mtx, mtx2>>, <<mtx2, mtx>>}

ThreadSymmetry == Permutations(Threads)
=============================================================================
