---------------------------- MODULE KernelObjects ----------------------------
(***************************************************************************)
(* The waitable kernel objects: events, mutexes and semaphores of          *)
(* quantum-kernel32/src/handles.rs and threads.rs, and thread handles.     *)
(* Every object is a std Mutex around its state and a Condvar.  A region   *)
(* under the object's lock is one step; Condvar::wait releases the lock    *)
(* and falls asleep in that same step; waking up and taking the lock again *)
(* is a step of its own.  SetEvent notifies after it has unlocked, so its  *)
(* store and its notification are two steps.                               *)
(*                                                                         *)
(* WaitForSingleObject is the wait-all call on a one-element list, which   *)
(* is how WaitForMultipleObjects uses it.  Handles are taken as valid; the *)
(* handle table has its own module.                                        *)
(***************************************************************************)
EXTENDS Integers, Sequences, FiniteSets

CONSTANTS Threads,      \* guest threads; each is also its own thread object
          Events, AutoReset, Mutexes, Semaphores,
          NoThread,     \* None in owner_thread
          InitialCount, MaxCount,  \* lInitialCount, lMaximumCount
          WaitLists,    \* the handle arrays the guest waits on
          WaitAll,      \* the values of bWaitAll it passes
          Timed,        \* whether it passes finite (TRUE), INFINITE timeouts
          MaxHold,      \* bound: how deep a thread nests one mutex
          MaxSets       \* bound: SetEvent/PulseEvent calls on one event

Objects == Events \cup Mutexes \cup Semaphores \cup Threads

ASSUME ObjectsAssumption ==
  /\ AutoReset \subseteq Events
  /\ NoThread \notin Threads
  /\ Events \cap Mutexes = {} /\ Events \cap Semaphores = {}
  /\ Events \cap Threads = {} /\ Mutexes \cap Semaphores = {}
  /\ Mutexes \cap Threads = {} /\ Semaphores \cap Threads = {}
ASSUME CallsAssumption ==
  /\ WaitLists \subseteq Seq(Objects) \ {<<>>}
  /\ WaitAll \subseteq BOOLEAN /\ Timed \subseteq BOOLEAN
  /\ InitialCount \in Nat /\ MaxCount \in Nat /\ InitialCount <= MaxCount
  /\ MaxHold \in Nat /\ MaxSets \in Nat

VARIABLES signaled,   \* Event.signaled
          owner,      \* Mutex.owner_thread
          recursion,  \* Mutex.recursion
          count,      \* Semaphore.count
          finished,   \* Thread.finished
          pc,         \* where each thread is
          call,       \* its wait call, or the event it sets
          got,        \* objects its current or last wait call has taken
          hold,       \* per mutex and thread: waits granted less releases
          sets,       \* per event: signals given
          takes,      \* per auto-reset event: signals consumed
          stolen      \* mutexes a hand-over of which was lost to a timeout

objs == <<signaled, owner, recursion, count, finished>>
ghosts == <<hold, sets, takes, stolen>>
vars == <<signaled, owner, recursion, count, finished, pc, call, got, hold,
          sets, takes, stolen>>

NoCall == [api |-> "none", list |-> <<>>, all |-> TRUE, timed |-> FALSE, at |-> 1]

Goto(t, l) == pc' = [pc EXCEPT ![t] = l]

(* The object thread t waits on or sets. *)
target(t) == call[t].list[call[t].at]

AsleepOn(o) == {t \in Threads : pc[t] = "asleep" /\ target(t) = o}

Init ==
  /\ signaled \in [Events -> BOOLEAN]
  /\ owner \in [Mutexes -> Threads \cup {NoThread}]
  /\ recursion = [m \in Mutexes |-> IF owner[m] = NoThread THEN 0 ELSE 1]
  /\ count = [s \in Semaphores |-> InitialCount]
  /\ finished = [t \in Threads |-> FALSE]
  /\ pc = [t \in Threads |-> "idle"]
  /\ call = [t \in Threads |-> NoCall]
  /\ got = [t \in Threads |-> {}]
  /\ hold = [m \in Mutexes |-> [t \in Threads |-> IF owner[m] = t THEN 1 ELSE 0]]
  /\ sets = [e \in Events |-> IF signaled[e] THEN 1 ELSE 0]
  /\ takes = [e \in Events |-> 0]
  /\ stolen = {}

(* Mutant: the wait does not look at the owner. *)
Available_AnyOwner(t, o) ==
  \/ o \in Events /\ signaled[o]
  \/ o \in Mutexes
  \/ o \in Semaphores /\ count[o] > 0
  \/ o \in Threads /\ finished[o]

(* The condition each loop of wait_single tests under the object's lock. *)
Available(t, o) ==
  \/ o \in Events /\ signaled[o]
  \/ o \in Mutexes /\ owner[o] \in {NoThread, t}
  \/ o \in Semaphores /\ count[o] > 0
  \/ o \in Threads /\ finished[o]

(* Mutant: the waiter leaves an auto-reset event signaled. *)
Take_NoReset(t, o) ==
  /\ UNCHANGED <<signaled, finished, sets>>
  /\ stolen' = stolen \ {o}
  /\ takes' = IF o \in AutoReset THEN [takes EXCEPT ![o] = @ + 1] ELSE takes
  /\ owner' = IF o \in Mutexes THEN [owner EXCEPT ![o] = t] ELSE owner
  /\ recursion' = IF o \in Mutexes
       THEN [recursion EXCEPT ![o] = IF owner[o] = t THEN @ + 1 ELSE 1]
       ELSE recursion
  /\ hold' = IF o \in Mutexes THEN [hold EXCEPT ![o][t] = @ + 1] ELSE hold
  /\ count' = IF o \in Semaphores THEN [count EXCEPT ![o] = @ - 1] ELSE count

(* What the loops do to the object before they return WAIT_OBJECT_0. *)
Take(t, o) ==
  /\ UNCHANGED <<finished, sets>>
  /\ stolen' = stolen \ {o}
  /\ IF o \in AutoReset
       THEN /\ signaled' = [signaled EXCEPT ![o] = FALSE]
            /\ takes' = [takes EXCEPT ![o] = @ + 1]
       ELSE UNCHANGED <<signaled, takes>>
  /\ IF o \in Mutexes
       THEN /\ owner' = [owner EXCEPT ![o] = t]
            /\ recursion' =
                 [recursion EXCEPT ![o] = IF owner[o] = t THEN @ + 1 ELSE 1]
            /\ hold' = [hold EXCEPT ![o][t] = @ + 1]
       ELSE UNCHANGED <<owner, recursion, hold>>
  /\ count' = IF o \in Semaphores THEN [count EXCEPT ![o] = @ - 1] ELSE count

Return(t) ==
  /\ Goto(t, "idle")
  /\ call' = [call EXCEPT ![t] = NoCall]
  /\ got' = [got EXCEPT ![t] = {}]

(* WaitForSingleObject(Ex), WaitForMultipleObjects: the call. *)
BeginWait(t, list, all, timed) ==
  /\ pc[t] = "idle"
  /\ \A i \in 1..Len(list) : list[i] \in Mutexes => hold[list[i]][t] < MaxHold
  /\ call' = [call EXCEPT ![t] =
       [api |-> "wait", list |-> list, all |-> all, timed |-> timed, at |-> 1]]
  /\ Goto(t, "check")
  /\ UNCHANGED <<objs, got, ghosts>>

Awake(t) == pc[t] \in {"check", "woken"}

(* The object is available: take it.  Wait-all goes on with the next one. *)
WaitTakes(t) ==
  /\ Awake(t) /\ Available(t, target(t))
  /\ Take(t, target(t))
  /\ IF call[t].all /\ call[t].at < Len(call[t].list)
       THEN /\ call' = [call EXCEPT ![t].at = @ + 1]
            /\ got' = [got EXCEPT ![t] = @ \cup {target(t)}]
            /\ Goto(t, "check")
       ELSE Return(t)

(* It is not: cv.wait / cv.wait_timeout.  Thread handles are polled. *)
WaitSleeps(t) ==
  /\ Awake(t) /\ call[t].all /\ ~Available(t, target(t))
  /\ target(t) \notin Threads
  /\ Goto(t, "asleep")
  /\ UNCHANGED <<objs, call, got, ghosts>>

(* The deadline has passed, before the wait or as its outcome; the outcome *)
(* `timed_out` is returned without looking at the object again, also when  *)
(* a notification arrived at the same moment.                              *)
WaitTimesOut(t) ==
  /\ call[t].timed /\ call[t].all
  /\ \/ pc[t] \in {"asleep", "woken"}
     \/ pc[t] = "check" /\ ~Available(t, target(t))
  /\ stolen' = IF pc[t] = "woken" /\ target(t) \in Mutexes
                 THEN stolen \cup {target(t)} ELSE stolen
  /\ Return(t)
  /\ UNCHANGED <<objs, hold, sets, takes>>

(* Wait-any polls: the next handle, or after a nap the first one again. *)
AnyMisses(t) ==
  /\ pc[t] = "check" /\ ~call[t].all /\ ~Available(t, target(t))
  /\ call' = [call EXCEPT ![t].at = IF @ < Len(call[t].list) THEN @ + 1 ELSE 1]
  /\ UNCHANGED <<objs, pc, got, ghosts>>

AnyTimesOut(t) ==
  /\ pc[t] = "check" /\ ~call[t].all /\ ~Available(t, target(t))
  /\ call[t].timed /\ call[t].at = Len(call[t].list)
  /\ Return(t)
  /\ UNCHANGED <<objs, ghosts>>

(* Condvar: a sleeper may wake up without a notification. *)
SpuriousWake(t) ==
  /\ pc[t] = "asleep"
  /\ Goto(t, "woken")
  /\ UNCHANGED <<objs, call, got, ghosts>>

WakeAll(o) == pc' = [t \in Threads |-> IF t \in AsleepOn(o) THEN "woken" ELSE pc[t]]

(* Condvar: notify_one wakes one sleeper, if there is any. *)
WakeOne(o) ==
  IF AsleepOn(o) = {} THEN UNCHANGED pc ELSE \E t \in AsleepOn(o) : Goto(t, "woken")

(* SetEvent, and the first call PulseEvent makes: the store. *)
SetEvent(t, e, api) ==
  /\ pc[t] = "idle" /\ sets[e] < MaxSets
  /\ signaled' = [signaled EXCEPT ![e] = TRUE]
  /\ sets' = [sets EXCEPT ![e] = @ + 1]
  /\ call' = [call EXCEPT ![t] =
       [api |-> api, list |-> <<e>>, all |-> TRUE, timed |-> FALSE, at |-> 1]]
  /\ Goto(t, "notify")
  /\ UNCHANGED <<owner, recursion, count, finished, got, hold, takes, stolen>>

(* Mutant: notifies one waiter of the event. *)
NotifyEvent_One(t) ==
  /\ pc[t] = "notify"
  /\ LET next == IF call[t].api = "PulseEvent" THEN "reset" ELSE "idle" IN
     IF AsleepOn(target(t)) = {}
       THEN Goto(t, next)
       ELSE \E w \in AsleepOn(target(t)) :
              pc' = [pc EXCEPT ![t] = next, ![w] = "woken"]
  /\ call' = IF call[t].api = "PulseEvent" THEN call
               ELSE [call EXCEPT ![t] = NoCall]
  /\ UNCHANGED <<objs, got, ghosts>>

(* ... and notify_all, after the lock is released. *)
NotifyEvent(t) ==
  /\ pc[t] = "notify"
  /\ pc' = [u \in Threads |->
       IF u = t THEN IF call[t].api = "PulseEvent" THEN "reset" ELSE "idle"
       ELSE IF u \in AsleepOn(target(t)) THEN "woken" ELSE pc[u]]
  /\ call' = IF call[t].api = "PulseEvent" THEN call
               ELSE [call EXCEPT ![t] = NoCall]
  /\ UNCHANGED <<objs, got, ghosts>>

(* The ResetEvent call that ends PulseEvent. *)
PulseReset(t) ==
  /\ pc[t] = "reset"
  /\ signaled' = [signaled EXCEPT ![target(t)] = FALSE]
  /\ Goto(t, "idle")
  /\ call' = [call EXCEPT ![t] = NoCall]
  /\ UNCHANGED <<owner, recursion, count, finished, got, ghosts>>

ResetEvent(t, e) ==
  /\ pc[t] = "idle"
  /\ signaled' = [signaled EXCEPT ![e] = FALSE]
  /\ UNCHANGED <<owner, recursion, count, finished, pc, call, got, ghosts>>

(* Mutant: any release frees the mutex. *)
ReleaseMutex_AtOnce(t, m) ==
  /\ pc[t] = "idle" /\ owner[m] = t
  /\ recursion' = [recursion EXCEPT ![m] = @ - 1]
  /\ hold' = [hold EXCEPT ![m][t] = @ - 1]
  /\ owner' = [owner EXCEPT ![m] = NoThread]
  /\ WakeOne(m)
  /\ UNCHANGED <<signaled, count, finished, call, got, sets, takes, stolen>>

(* ReleaseMutex by the owner: the last level frees it and notifies one. *)
ReleaseMutex(t, m) ==
  /\ pc[t] = "idle" /\ owner[m] = t
  /\ recursion' = [recursion EXCEPT ![m] = @ - 1]
  /\ hold' = [hold EXCEPT ![m][t] = @ - 1]
  /\ IF recursion[m] = 1
       THEN owner' = [owner EXCEPT ![m] = NoThread] /\ WakeOne(m)
       ELSE UNCHANGED <<owner, pc>>
  /\ UNCHANGED <<signaled, count, finished, call, got, sets, takes, stolen>>

(* ReleaseMutex by another thread returns 0. *)
ReleaseMutexFails(t, m) ==
  pc[t] = "idle" /\ owner[m] # t /\ UNCHANGED vars

(* Mutant: the limit is tested before the release is added. *)
ReleaseSemaphore_LateTest(t, s, n) ==
  /\ pc[t] = "idle" /\ count[s] <= MaxCount
  /\ count' = [count EXCEPT ![s] = @ + n]
  /\ WakeAll(s)
  /\ UNCHANGED <<signaled, owner, recursion, finished, call, got, ghosts>>

(* Mutant: the release does not notify. *)
ReleaseSemaphore_Silent(t, s, n) ==
  /\ pc[t] = "idle" /\ count[s] + n <= MaxCount
  /\ count' = [count EXCEPT ![s] = @ + n]
  /\ UNCHANGED <<signaled, owner, recursion, finished, pc, call, got, ghosts>>

(* ReleaseSemaphore: all or nothing within lMaximumCount; notify_all under *)
(* the lock.                                                               *)
ReleaseSemaphore(t, s, n) ==
  /\ pc[t] = "idle" /\ count[s] + n <= MaxCount
  /\ count' = [count EXCEPT ![s] = @ + n]
  /\ WakeAll(s)
  /\ UNCHANGED <<signaled, owner, recursion, finished, call, got, ghosts>>

ReleaseSemaphoreFails(t, s, n) ==
  pc[t] = "idle" /\ count[s] + n > MaxCount /\ UNCHANGED vars

(* ExitThread, or a return from the start routine: `finished` is set.  The *)
(* mutexes the thread owns stay owned.                                     *)
ExitThread(t) ==
  /\ pc[t] = "idle"
  /\ Goto(t, "exited")
  /\ finished' = [finished EXCEPT ![t] = TRUE]
  /\ UNCHANGED <<signaled, owner, recursion, count, call, got, ghosts>>

Inside(t) ==
  \/ WaitTakes(t)
  \/ WaitSleeps(t)
  \/ AnyMisses(t)
  \/ NotifyEvent(t)
  \/ PulseReset(t)

Next ==
  \E t \in Threads :
    \/ Inside(t)
    \/ WaitTimesOut(t)
    \/ AnyTimesOut(t)
    \/ SpuriousWake(t)
    \/ \E list \in WaitLists, all \in WaitAll, timed \in Timed :
         BeginWait(t, list, all, timed)
    \/ \E e \in Events :
         \/ SetEvent(t, e, "SetEvent")
         \/ SetEvent(t, e, "PulseEvent")
         \/ ResetEvent(t, e)
    \/ \E m \in Mutexes : ReleaseMutex(t, m) \/ ReleaseMutexFails(t, m)
    \/ \E s \in Semaphores, n \in 1..MaxCount :
         ReleaseSemaphore(t, s, n) \/ ReleaseSemaphoreFails(t, s, n)
    \/ ExitThread(t)

Spec == Init /\ [][Next]_vars

(* The host runs every thread that is inside a thunk and not asleep; time   *)
(* limits, spurious wake-ups and the guest's own calls are not relied upon. *)
Fairness == \A t \in Threads : WF_vars(Inside(t))

FairSpec == Spec /\ Fairness
-----------------------------------------------------------------------------
Call == [api : {"none", "wait", "SetEvent", "PulseEvent"},
         list : Seq(Objects), all : BOOLEAN, timed : BOOLEAN, at : Nat]

TypeOK ==
  /\ signaled \in [Events -> BOOLEAN]
  /\ owner \in [Mutexes -> Threads \cup {NoThread}]
  /\ recursion \in [Mutexes -> Nat]
  /\ count \in [Semaphores -> Int]
  /\ finished \in [Threads -> BOOLEAN]
  /\ pc \in [Threads ->
       {"idle", "check", "asleep", "woken", "notify", "reset", "exited"}]
  /\ call \in [Threads -> Call]
  /\ \A t \in Threads :
       pc[t] \notin {"idle", "exited"} => call[t].at \in 1..Len(call[t].list)
  /\ got \in [Threads -> SUBSET Objects]
  /\ hold \in [Mutexes -> [Threads -> Nat]]
  /\ sets \in [Events -> Nat] /\ takes \in [Events -> Nat]
  /\ stolen \subseteq Mutexes

(* Owner and recursion of a mutex are what its callers were granted: one    *)
(* thread at most has more waits granted than it has released, it is the    *)
(* owner, and the recursion count is the difference.                        *)
OwnershipIsWhatWasGranted ==
  /\ TypeOK
  /\ \A m \in Mutexes, t \in Threads :
       hold[m][t] = IF owner[m] = t THEN recursion[m] ELSE 0

(* A signal given to an auto-reset event releases at most one wait, although *)
(* SetEvent wakes all of them, and a wait that times out consumes none.      *)
SignalReleasesAtMostOne ==
  \A e \in AutoReset :
    takes[e] + (IF signaled[e] THEN 1 ELSE 0) <= sets[e]

(* No wake-up of an event is lost: a thread sleeps on a signaled event only *)
(* while a SetEvent has stored the signal and not yet notified.             *)
NoLostEvent ==
  \A e \in Events :
    signaled[e] /\ AsleepOn(e) # {}
      => \E s \in Threads : pc[s] = "notify" /\ target(s) = e

(* No permit is withheld: nobody sleeps on a semaphore with permits, and the *)
(* permits stay between zero and lMaximumCount.                              *)
PermitsAreServed ==
  \A s \in Semaphores :
    /\ count[s] \in 0..MaxCount
    /\ count[s] > 0 => AsleepOn(s) = {}

(* A free mutex with sleepers has a thread awake that will take it: since    *)
(* ReleaseMutex notifies one waiter only, this hangs on that waiter.  Only a *)
(* timed wait that expires at the moment it is notified can lose the mutex.  *)
MutexIsHandedOver ==
  \A m \in Mutexes :
    owner[m] = NoThread /\ AsleepOn(m) # {}
      => m \in stolen \/ \E w \in Threads : Awake(w) /\ target(w) = m

(* No wake-up is lost, of an event or of a mutex. *)
NoLostWakeup == NoLostEvent /\ MutexIsHandedOver

(* WaitForMultipleObjects: "Both are correct".  A wait-all call that is still *)
(* waiting has taken nothing: it takes all of its objects at once.            *)
AllWaitHoldsNothing ==
  \A t \in Threads : pc[t] = "asleep" => got[t] = {}

(* Each mutex implements the abstract re-entrant lock. *)
Mtx(m) == INSTANCE RecursiveLock WITH hold <- hold[m]
EveryMutexIsALock ==
  /\ \A m \in Mutexes : Mtx(m)!Init
  /\ [][\A m \in Mutexes : Mtx(m)!Next \/ hold'[m] = hold[m]]_hold

Waits(t, o) == pc[t] \in {"check", "asleep", "woken"} /\ target(t) = o

(* A thread waiting on an object that stays available gets it, or gives up:  *)
(* no waiter is forgotten.  Since ReleaseMutex wakes one waiter only, a mutex *)
(* is the exception after a hand-over was lost to a timeout.                  *)
AvailableIsServed ==
  \A t \in Threads, o \in Objects :
    Waits(t, o) /\ Available(t, o)
      ~> ~(Waits(t, o) /\ Available(t, o)) \/ o \in stolen
=============================================================================
