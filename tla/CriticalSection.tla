--------------------------- MODULE CriticalSection ---------------------------
(***************************************************************************)
(* The CRITICAL_SECTION thunks of quantum-kernel32/src/sync.rs: a          *)
(* recursion-counting spin lock made of two atomics that live in the       *)
(* guest's 40-byte buffer.  One step of the model is one atomic operation  *)
(* of the code (load, fetch_add, compare_exchange, store, fetch_sub), so   *)
(* that every interleaving of the guest's threads is a behaviour.          *)
(*                                                                         *)
(* Calling convention of the guest, not checked by the code: the section   *)
(* is initialised once before it is used and left only by its holder.      *)
(***************************************************************************)
EXTENDS Naturals

CONSTANTS Threads,   \* guest threads (GetCurrentThreadId: distinct, non-zero)
          NoThread,  \* the value 0 of owner_thread_id
          U32Max,    \* u32::MAX, where the atomics wrap
          MaxDepth   \* bound: how deep one thread nests its Enter calls

ASSUME NoThreadAssumption == NoThread \notin Threads
ASSUME DepthAssumption ==
  U32Max \in Nat /\ MaxDepth \in Nat \ {0} /\ MaxDepth < U32Max

VARIABLES lock_count,       \* GuestCriticalSection.lock_count
          owner_thread_id,  \* GuestCriticalSection.owner_thread_id
          ready,            \* InitializeCriticalSection has returned
          pc,               \* where each thread is in a thunk
          api,              \* which of the two Enter thunks it is in
          depth             \* acquisitions granted to each thread and not left

vars == <<lock_count, owner_thread_id, ready, pc, api, depth>>

WrapInc(n) == IF n = U32Max THEN 0 ELSE n + 1
WrapDec(n) == IF n = 0 THEN U32Max ELSE n - 1

Goto(t, l) == pc' = [pc EXCEPT ![t] = l]

(* The buffer holds whatever the guest's memory held. *)
Init ==
  /\ lock_count \in 0..U32Max
  /\ owner_thread_id \in Threads \cup {NoThread}
  /\ ready = FALSE
  /\ pc = [t \in Threads |-> "idle"]
  /\ api = [t \in Threads |-> "Enter"]
  /\ depth = [t \in Threads |-> 0]

InitializeCriticalSection ==
  /\ ~ready
  /\ lock_count' = 0
  /\ owner_thread_id' = NoThread
  /\ ready' = TRUE
  /\ UNCHANGED <<pc, api, depth>>

(* Enter and TryEnter read the thread id and start with the owner load. *)
EnterCriticalSection(t) ==
  /\ ready /\ pc[t] = "idle" /\ depth[t] < MaxDepth
  /\ api' = [api EXCEPT ![t] = "Enter"]
  /\ Goto(t, "load")
  /\ UNCHANGED <<lock_count, owner_thread_id, ready, depth>>

TryEnterCriticalSection(t) ==
  /\ ready /\ pc[t] = "idle" /\ depth[t] < MaxDepth
  /\ api' = [api EXCEPT ![t] = "TryEnter"]
  /\ Goto(t, "load")
  /\ UNCHANGED <<lock_count, owner_thread_id, ready, depth>>

(* Mutant: takes any owner for itself. *)
LoadOwner_AnyOwner(t) ==
  /\ pc[t] = "load"
  /\ Goto(t, IF owner_thread_id # NoThread THEN "add" ELSE "cas")
  /\ UNCHANGED <<lock_count, owner_thread_id, ready, api, depth>>

(* owner_thread_id.load() == tid chooses re-entry or the exchange. *)
LoadOwner(t) ==
  /\ pc[t] = "load"
  /\ Goto(t, IF owner_thread_id = t THEN "add" ELSE "cas")
  /\ UNCHANGED <<lock_count, owner_thread_id, ready, api, depth>>

(* Re-entry: fetch_add(1). *)
BumpCount(t) ==
  /\ pc[t] = "add"
  /\ lock_count' = WrapInc(lock_count)
  /\ depth' = [depth EXCEPT ![t] = @ + 1]
  /\ Goto(t, "idle")
  /\ UNCHANGED <<owner_thread_id, ready, api>>

(* compare_exchange(0, 1) succeeds: the section is ours. *)
ExchangeWins(t) ==
  /\ pc[t] = "cas"
  /\ lock_count = 0
  /\ lock_count' = 1
  /\ depth' = [depth EXCEPT ![t] = @ + 1]
  /\ Goto(t, "own")
  /\ UNCHANGED <<owner_thread_id, ready, api>>

(* Mutant: TryEnter ignores the exchange's result. *)
ExchangeLoses_Ignored(t) ==
  /\ pc[t] = "cas"
  /\ lock_count # 0
  /\ IF api[t] = "Enter"
       THEN Goto(t, "load") /\ UNCHANGED depth
       ELSE Goto(t, "own") /\ depth' = [depth EXCEPT ![t] = @ + 1]
  /\ UNCHANGED <<lock_count, owner_thread_id, ready, api>>

(* It fails: Enter spins back to the owner load, TryEnter returns FALSE. *)
ExchangeLoses(t) ==
  /\ pc[t] = "cas"
  /\ lock_count # 0
  /\ Goto(t, IF api[t] = "Enter" THEN "load" ELSE "idle")
  /\ UNCHANGED <<lock_count, owner_thread_id, ready, api, depth>>

(* owner_thread_id.store(tid), after the exchange. *)
StoreOwner(t) ==
  /\ pc[t] = "own"
  /\ owner_thread_id' = t
  /\ Goto(t, "idle")
  /\ UNCHANGED <<lock_count, ready, api, depth>>

(* Mutant: the last Leave clears the owner and keeps the count. *)
LeaveCriticalSection_KeepsCount(t) ==
  /\ pc[t] = "idle" /\ depth[t] > 0
  /\ lock_count' = IF lock_count <= 1 THEN lock_count ELSE WrapDec(lock_count)
  /\ depth' = [depth EXCEPT ![t] = @ - 1]
  /\ Goto(t, IF lock_count <= 1 THEN "clear" ELSE "idle")
  /\ UNCHANGED <<owner_thread_id, ready, api>>

(* Leave: fetch_sub(1) gives the section back; the last level goes on to *)
(* clear the owner in a separate store.                                  *)
LeaveCriticalSection(t) ==
  /\ pc[t] = "idle" /\ depth[t] > 0
  /\ lock_count' = WrapDec(lock_count)
  /\ depth' = [depth EXCEPT ![t] = @ - 1]
  /\ Goto(t, IF lock_count <= 1 THEN "clear" ELSE "idle")
  /\ UNCHANGED <<owner_thread_id, ready, api>>

ClearOwner(t) ==
  /\ pc[t] = "clear"
  /\ owner_thread_id' = NoThread
  /\ Goto(t, "idle")
  /\ UNCHANGED <<lock_count, ready, api, depth>>

(* The steps a thread takes inside a thunk, once it has called it. *)
Inside(t) ==
  \/ LoadOwner(t)
  \/ BumpCount(t)
  \/ ExchangeWins(t)
  \/ ExchangeLoses(t)
  \/ StoreOwner(t)
  \/ ClearOwner(t)

Next ==
  \/ InitializeCriticalSection
  \/ \E t \in Threads :
       \/ EnterCriticalSection(t)
       \/ TryEnterCriticalSection(t)
       \/ LeaveCriticalSection(t)
       \/ Inside(t)

Spec == Init /\ [][Next]_vars

(* The host scheduler runs every thread that is inside a thunk.  Nothing is *)
(* assumed of the guest's own code, which may keep the section for ever.    *)
Fairness == \A t \in Threads : WF_vars(Inside(t))

FairSpec == Spec /\ Fairness
-----------------------------------------------------------------------------
TypeOK ==
  /\ lock_count \in 0..U32Max
  /\ owner_thread_id \in Threads \cup {NoThread}
  /\ ready \in BOOLEAN
  /\ pc \in [Threads -> {"idle", "load", "add", "cas", "own", "clear"}]
  /\ api \in [Threads -> {"Enter", "TryEnter"}]
  /\ depth \in [Threads -> 0..MaxDepth]

(* Enter/TryEnter never grant the section to two threads at once, although *)
(* Leave frees the count before it clears the owner and although re-entry  *)
(* trusts the owner field alone.                                           *)
MutualExclusion ==
  \A t, u \in Threads : depth[t] > 0 /\ depth[u] > 0 => t = u

(* lock_count is exactly the nesting depth of the holder: the count neither *)
(* leaks a level nor wraps below zero, in any interleaving.                 *)
CountIsDepth ==
  ready => \/ lock_count = 0 /\ \A t \in Threads : depth[t] = 0
           \/ \E t \in Threads : depth[t] > 0 /\ lock_count = depth[t]

(* Re-entry is taken only by a thread that holds the section: an owner field *)
(* left behind by a finished Leave never lets its thread in again.           *)
ReentryOnlyByHolder == \A t \in Threads : pc[t] = "add" => depth[t] > 0

(* The critical section implements the abstract re-entrant lock. *)
Lock == INSTANCE RecursiveLock WITH hold <- depth
ImplementsLock == Lock!Spec

(* A thread spinning in EnterCriticalSection sees the section held by some *)
(* thread sooner or later: the lock is never both free and unobtainable.   *)
SectionIsTaken ==
  \A t \in Threads :
    (pc[t] \in {"load", "cas"} /\ api[t] = "Enter")
      ~> (\E u \in Threads : depth[u] > 0)

(* "Re-entry: if we already own it, just bump count": a thread that holds *)
(* the section never has to compete for it in the exchange.               *)
HolderNeverCompetes == \A t \in Threads : depth[t] > 0 => pc[t] # "cas"
=============================================================================
