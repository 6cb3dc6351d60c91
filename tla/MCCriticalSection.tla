-------------------------- MODULE MCCriticalSection --------------------------
(* TLC instances of CriticalSection. *)
EXTENDS CriticalSection
=============================================================================
