---------------------------- MODULE RecursiveLock ----------------------------
(***************************************************************************)
(* What every re-entrant lock of the Win32 surface promises its callers.   *)
(* `hold[t]` is the number of acquisitions thread t has been granted and   *)
(* has not yet given back.  The critical section of sync.rs and the kernel *)
(* mutex of handles.rs/threads.rs are both shown to implement this module. *)
(***************************************************************************)
EXTENDS Naturals

CONSTANT Threads

VARIABLE hold

Free == \A t \in Threads : hold[t] = 0

(* Created free, or already held once by its creator. *)
Init ==
  /\ hold \in [Threads -> {0, 1}]
  /\ \A t, u \in Threads : hold[t] = 1 /\ hold[u] = 1 => t = u

(* A free lock is granted to one thread. *)
Acquire(t) == Free /\ hold' = [hold EXCEPT ![t] = 1]

(* The holder is granted the lock again. *)
Reenter(t) == hold[t] > 0 /\ hold' = [hold EXCEPT ![t] = @ + 1]

(* The holder gives one acquisition back. *)
Release(t) == hold[t] > 0 /\ hold' = [hold EXCEPT ![t] = @ - 1]

Next == \E t \in Threads : Acquire(t) \/ Reenter(t) \/ Release(t)

Spec == Init /\ [][Next]_hold
=============================================================================
