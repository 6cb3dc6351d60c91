---------------------------- MODULE MCHandleTable ----------------------------
(* TLC instances of HandleTable: a narrow handle word, and made-up handle   *)
(* values below Base, of an unused generation, and with an index below zero.*)
EXTENDS HandleTable, TLC

MadeUp == {0, Base - 1, pack(0, 2), 3 * Shift}

ThreadSymmetry == Permutations(Threads)
=============================================================================
