------------------------- MODULE KernelObjectsProofs -------------------------
(***************************************************************************)
(* Proofs about KernelObjects, for any number of threads, events, mutexes  *)
(* and semaphores, any wait lists and any nesting depth.                   *)
(***************************************************************************)
EXTENDS KernelObjects, TLAPS

(* Owner and recursion of a mutex are what was granted, and a mutex is      *)
(* owned exactly while its recursion count is not zero.                     *)
Granted ==
  /\ \A m \in Mutexes, t \in Threads :
       hold[m][t] = IF owner[m] = t THEN recursion[m] ELSE 0
  /\ \A m \in Mutexes : owner[m] = NoThread <=> recursion[m] = 0

Sleeps(t, o) == pc[t] = "asleep" /\ target(t) = o

(* NoLostEvent, PermitsAreServed and MutexIsHandedOver, sleeper by sleeper. *)
EventsSeen ==
  \A e \in Events, u \in Threads :
    signaled[e] /\ Sleeps(u, e) => \E s \in Threads : pc[s] = "notify" /\ target(s) = e
PermitsSeen ==
  \A s \in Semaphores :
    count[s] \in 0..MaxCount /\ \A u \in Threads : Sleeps(u, s) => count[s] = 0
MutexesSeen ==
  \A m \in Mutexes, u \in Threads :
    owner[m] = NoThread /\ Sleeps(u, m) /\ m \notin stolen =>
      \E w \in Threads : Awake(w) /\ target(w) = m

(* The inductive invariant. *)
IInv ==
  /\ TypeOK /\ Granted /\ SignalReleasesAtMostOne
  /\ EventsSeen /\ PermitsSeen /\ MutexesSeen

(* The initial states, with events signaled or not and mutexes owned by     *)
(* their creators or free, satisfy it.                                      *)
LEMMA InitIInv == Init => IInv
<1> SUFFICES ASSUME Init PROVE IInv
  BY Zenon
<1> USE ObjectsAssumption, CallsAssumption
<1>1. \A t \in Threads : \A o : ~Sleeps(t, o)
  BY Zenon DEF Init, Sleeps
<1>2. TypeOK
  <2>1. NoCall \in Call
    BY SMT, Z3 DEF NoCall, Call
  <2> QED
    BY <2>1 DEF Init, TypeOK
<1>3. Granted
  BY SMT, Z3 DEF Init, Granted
<1>4. SignalReleasesAtMostOne
  BY DEF Init, SignalReleasesAtMostOne
<1>5. EventsSeen /\ MutexesSeen
  BY <1>1, Zenon DEF EventsSeen, MutexesSeen
<1>6. PermitsSeen
  BY <1>1, SMT, Z3 DEF Init, PermitsSeen
<1> QED
  BY <1>2, <1>3, <1>4, <1>5, <1>6, Zenon DEF IInv

(* What a thread waits on or sets is an object. *)
LEMMA TargetType ==
  ASSUME TypeOK, NEW t \in Threads, pc[t] \notin {"idle", "exited"}
  PROVE  target(t) \in Objects
<1>1. call[t] \in Call /\ call[t].at \in 1..Len(call[t].list)
  BY Zenon DEF TypeOK
<1>2. call[t].list \in Seq(Objects)
  BY <1>1, Zenon DEF Call
<1> QED
  BY <1>1, <1>2 DEF target

(* What taking an available object does: it was signaled, free, in stock or *)
(* finished, and no other object changes.                                   *)
Taken(t, o) ==
  /\ \A e \in Events :
       /\ signaled'[e] <=> signaled[e] /\ ~(e = o /\ o \in AutoReset)
       /\ takes'[e] = IF e = o /\ o \in AutoReset THEN takes[e] + 1 ELSE takes[e]
  /\ o \in AutoReset => signaled[o]
  /\ \A m \in Mutexes :
       m # o => owner'[m] = owner[m] /\ recursion'[m] = recursion[m] /\ hold'[m] = hold[m]
  /\ o \in Mutexes => /\ owner[o] \in {NoThread, t} /\ owner'[o] = t
                      /\ recursion'[o] = recursion[o] + 1
                      /\ hold'[o] = [hold[o] EXCEPT ![t] = @ + 1]
  /\ \A s \in Semaphores : count'[s] = IF s = o THEN count[s] - 1 ELSE count[s]
  /\ o \in Semaphores => count[o] > 0

LEMMA TakeEffect ==
  ASSUME TypeOK, Granted, NEW t \in Threads, NEW o \in Objects, Available(t, o), Take(t, o)
  PROVE  Taken(t, o)
<1> USE ObjectsAssumption DEF Taken
<1>1. CASE o \in Events
  <2>1. o \notin Mutexes /\ o \notin Semaphores /\ signaled[o]
    BY <1>1, Zenon DEF Available
  <2>2. CASE o \in AutoReset
    BY <1>1, <2>1, <2>2 DEF Take, TypeOK
  <2>3. CASE o \notin AutoReset
    BY <1>1, <2>1, <2>3, Zenon DEF Take, TypeOK
  <2> QED
    BY <2>2, <2>3, Zenon
<1>2. CASE o \in Mutexes
  <2>1. o \notin AutoReset /\ o \notin Semaphores /\ owner[o] \in {NoThread, t}
    BY <1>2, Zenon DEF Available
  <2>2. recursion'[o] = recursion[o] + 1
    BY <1>2, <2>1 DEF Take, TypeOK, Granted
  <2> QED
    BY <1>2, <2>1, <2>2, SMT, Z3 DEF Take, TypeOK
<1>3. CASE o \in Semaphores
  BY <1>3, Zenon DEF Take, Available, TypeOK
<1>4. CASE o \in Threads
  BY <1>4 DEF Take, Available, TypeOK
<1> QED
  BY <1>1, <1>2, <1>3, <1>4, Zenon DEF Objects

(* What a step of thread t does to the other threads: it moves them from    *)
(* asleep to woken, or not at all.                                          *)
Others(t) ==
  \A u \in Threads \ {t} :
    /\ target(u)' = target(u)
    /\ pc'[u] = pc[u] \/ (pc[u] = "asleep" /\ pc'[u] = "woken")

(* What every step of a thread t guarantees the sleepers. *)
Moves(t) ==
  /\ Others(t)
  /\ pc'[t] = "asleep" =>
       target(t)' = target(t) /\ ~Available(t, target(t)) /\ UNCHANGED objs
  /\ \A e \in Events : signaled'[e] => signaled[e] \/ (pc'[t] = "notify" /\ target(t)' = e)
  /\ \A e \in Events :
       pc[t] = "notify" /\ target(t) = e => \A u \in Threads : ~Sleeps(u, e)'
  /\ \A s \in Semaphores :
       /\ count'[s] \in 0..MaxCount
       /\ count'[s] > count[s] => \A u \in Threads : ~Sleeps(u, s)'
  /\ \A m \in Mutexes :
       owner'[m] = NoThread =>
         /\ m \in stolen => m \in stolen'
         /\ owner[m] # NoThread =>
              \A u \in Threads \ {t} : Sleeps(u, m) => \E w \in Threads \ {t} : Awake(w)' /\ target(w) = m
         /\ owner[m] = NoThread /\ Awake(t) /\ target(t) = m =>
              m \in stolen' \/ (Awake(t)' /\ target(t)' = m)

LEMMA QuietMoves ==
  ASSUME IInv, NEW t \in Threads,
         \/ WaitSleeps(t) \/ AnyMisses(t) \/ PulseReset(t) \/ AnyTimesOut(t) \/ SpuriousWake(t)
         \/ \E list \in WaitLists, all \in WaitAll, timed \in Timed : BeginWait(t, list, all, timed)
         \/ \E e \in Events : SetEvent(t, e, "SetEvent") \/ SetEvent(t, e, "PulseEvent") \/ ResetEvent(t, e)
         \/ ExitThread(t)
  PROVE  Moves(t)
<1> USE ObjectsAssumption, CallsAssumption DEF IInv, TypeOK, PermitsSeen, Goto, objs, ghosts
<1>1. CASE WaitSleeps(t)
  <2>1. \A u \in Threads : target(u)' = target(u)
    BY <1>1, Zenon DEF WaitSleeps, target
  <2>2. \A m \in Mutexes : target(t) = m => owner[m] # NoThread
    BY <1>1, Zenon DEF WaitSleeps, Available
  <2>3. UNCHANGED <<signaled, owner, count, stolen>> /\ pc[t] # "notify"
    BY <1>1, Zenon DEF WaitSleeps, Awake
  <2>4. \A u \in Threads : u # t => pc'[u] = pc[u]
    BY <1>1, Zenon DEF WaitSleeps
  <2> QED
    BY <1>1, <2>1, <2>2, <2>3, <2>4, SMT, Z3 DEF WaitSleeps, Moves, Others
<1>2. CASE AnyMisses(t)
  <2>1. \A u \in Threads : u # t => target(u)' = target(u)
    BY <1>2, Zenon DEF AnyMisses, target
  <2>2. \A m \in Mutexes : target(t) = m => owner[m] # NoThread
    BY <1>2, Zenon DEF AnyMisses, Available
  <2>3. UNCHANGED <<signaled, owner, count, stolen, pc>> /\ pc[t] = "check"
    BY <1>2, Zenon DEF AnyMisses
  <2> QED
    BY <2>1, <2>2, <2>3, SMT, Z3 DEF Moves, Others
<1>3. CASE PulseReset(t)
  BY <1>3, SMT, Z3 DEF PulseReset, Moves, Others, Sleeps, Awake, target
<1>4. CASE AnyTimesOut(t)
  <2>1. \A u \in Threads : u # t => target(u)' = target(u)
    BY <1>4, Zenon DEF AnyTimesOut, Return, target
  <2>2. \A m \in Mutexes : target(t) = m => owner[m] # NoThread
    BY <1>4, Zenon DEF AnyTimesOut, Available
  <2>3. /\ UNCHANGED <<signaled, owner, count, stolen>> /\ pc[t] = "check"
        /\ pc' = [pc EXCEPT ![t] = "idle"]
    BY <1>4, Zenon DEF AnyTimesOut, Return
  <2> QED
    BY <2>1, <2>2, <2>3, SMT, Z3 DEF Moves, Others
<1>5. CASE SpuriousWake(t)
  BY <1>5, SMT, Z3 DEF SpuriousWake, Moves, Others, Sleeps, Awake, target
<1>6. ASSUME NEW list \in WaitLists, NEW all \in WaitAll, NEW timed \in Timed, BeginWait(t, list, all, timed)
      PROVE Moves(t)
  BY <1>6, SMT, Z3 DEF BeginWait, Moves, Others, Sleeps, Awake, target
<1>7. ASSUME NEW e \in Events, NEW api \in {"SetEvent", "PulseEvent"}, SetEvent(t, e, api)
      PROVE Moves(t)
  <2>1. \A u \in Threads : u # t => target(u)' = target(u)
    BY <1>7, SMT, Z3 DEF SetEvent, target
  <2>2. target(t)' = e
    BY <1>7 DEF SetEvent, NoCall, target
  <2>3. /\ UNCHANGED <<owner, count, stolen>> /\ pc[t] = "idle"
        /\ pc' = [pc EXCEPT ![t] = "notify"] /\ signaled' = [signaled EXCEPT ![e] = TRUE]
    BY <1>7, ZenonT(40) DEF SetEvent
  <2> QED
    BY <2>1, <2>2, <2>3, SMT, Z3 DEF Moves, Others, Awake
<1>8. ASSUME NEW e \in Events, ResetEvent(t, e) PROVE Moves(t)
  BY <1>8, SMT, Z3 DEF ResetEvent, Moves, Others, Sleeps, Awake, target
<1>9. CASE ExitThread(t)
  BY <1>9, SMT, Z3 DEF ExitThread, Moves, Others, Sleeps, Awake, target
<1> QED
  BY <1>1, <1>2, <1>3, <1>4, <1>5, <1>6, <1>7, <1>8, <1>9, Zenon

(* WaitForSingleObject and wait-all: the object is taken. *)
LEMMA TakeMoves ==
  ASSUME IInv, NEW t \in Threads, WaitTakes(t)
  PROVE  Moves(t)
<1>1. TypeOK /\ Granted /\ PermitsSeen
  BY Zenon DEF IInv
<1>2. PICK o \in Objects : o = target(t)
  BY <1>1, TargetType, Zenon DEF WaitTakes, Awake
<1>3. Available(t, o) /\ Take(t, o)
  BY <1>2, Zenon DEF WaitTakes
<1>4. Taken(t, o)
  BY <1>1, <1>3, TakeEffect, Zenon
<1>5. \A u \in Threads : u # t => target(u)' = target(u)
  BY <1>1, SMT, Z3 DEF WaitTakes, Return, target, TypeOK
<1>6. \A s \in Semaphores : count'[s] \in 0..MaxCount /\ count'[s] <= count[s]
  BY <1>1, <1>4, CallsAssumption, SMT, Z3 DEF Taken, PermitsSeen, TypeOK
<1>7. pc[t] # "notify" /\ \E l \in {"check", "idle"} : pc' = [pc EXCEPT ![t] = l]
  BY Zenon DEF WaitTakes, Awake, Return, Goto
<1>8. stolen' = stolen \ {o} /\ NoThread # t
  BY <1>3, ObjectsAssumption, Zenon DEF Take
<1>9. Others(t)
  BY <1>1, <1>5, <1>7, Zenon DEF Others, TypeOK
<1>10. \A m \in Mutexes : owner'[m] = NoThread => m # o /\ owner[m] = NoThread
  BY <1>4, <1>8, Zenon DEF Taken
<1> QED
  BY <1>1, <1>2, <1>4, <1>6, <1>7, <1>8, <1>9, <1>10, SMT, Z3 DEF Taken, Moves, TypeOK

(* A timeout gives the mutex that a notification has handed over away. *)
LEMMA TimeoutMoves ==
  ASSUME IInv, NEW t \in Threads, WaitTimesOut(t)
  PROVE  Moves(t)
<1>0. TypeOK /\ PermitsSeen
  BY Zenon DEF IInv
<1>1. \A u \in Threads : u # t => target(u)' = target(u)
  BY <1>0, Zenon DEF WaitTimesOut, Return, target, TypeOK
<1>2. /\ UNCHANGED <<signaled, owner, count>> /\ stolen \subseteq stolen'
      /\ pc' = [pc EXCEPT ![t] = "idle"] /\ pc[t] \in {"asleep", "woken", "check"}
  BY Zenon DEF WaitTimesOut, Return, Goto, objs
<1>3. \A m \in Mutexes : Awake(t) /\ target(t) = m /\ owner[m] = NoThread => m \in stolen'
  BY Zenon DEF WaitTimesOut, Awake, Available
<1> QED
  BY <1>0, <1>1, <1>2, <1>3, SMT, Z3 DEF Moves, Others, PermitsSeen, TypeOK

(* NotifyEvent wakes everybody who sleeps on the event. *)
LEMMA NotifyMoves ==
  ASSUME IInv, NEW t \in Threads, NotifyEvent(t)
  PROVE  Moves(t)
<1>0. TypeOK /\ PermitsSeen
  BY DEF IInv
<1>1. \A u \in Threads : u # t => target(u)' = target(u)
  BY <1>0, Zenon DEF NotifyEvent, target, TypeOK
<1>2. UNCHANGED <<signaled, owner, count, stolen>> /\ pc[t] = "notify"
  BY Zenon DEF NotifyEvent, objs, ghosts
<1>3. /\ pc'[t] \in {"reset", "idle"}
      /\ \A u \in Threads : u # t => pc'[u] = IF Sleeps(u, target(t)) THEN "woken" ELSE pc[u]
  BY <1>0, Zenon DEF NotifyEvent, AsleepOn, Sleeps, TypeOK
<1>4. \A e \in Events : target(t) = e => \A u \in Threads : ~Sleeps(u, e)'
  <2> SUFFICES ASSUME NEW u \in Threads, pc'[u] = "asleep" PROVE target(u)' # target(t)
    BY Zenon DEF Sleeps
  <2>1. u # t /\ ~Sleeps(u, target(t)) /\ pc[u] = "asleep"
    BY <1>3, Zenon
  <2> QED
    BY <2>1, <1>1, Zenon DEF Sleeps
<1> QED
  BY <1>0, <1>1, <1>2, <1>3, <1>4, SMT, Z3 DEF Moves, Others, PermitsSeen, Sleeps, Awake

(* ReleaseMutex wakes one of those who sleep on the mutex it frees. *)
LEMMA ReleaseMutexMoves ==
  ASSUME IInv, NEW t \in Threads, NEW m \in Mutexes, ReleaseMutex(t, m)
  PROVE  Moves(t)
<1>0. TypeOK /\ PermitsSeen
  BY Zenon DEF IInv
<1>1. \A u \in Threads : target(u)' = target(u)
  BY Zenon DEF ReleaseMutex, target
<1>2. UNCHANGED <<signaled, count, stolen>> /\ pc[t] = "idle" /\ owner[m] = t /\ t # NoThread
  BY ObjectsAssumption, Zenon DEF ReleaseMutex
<1>3. CASE UNCHANGED <<owner, pc>>
  BY <1>0, <1>1, <1>2, <1>3, SMT, Z3 DEF Moves, Others, PermitsSeen, Awake, TypeOK
<1>4. CASE owner' = [owner EXCEPT ![m] = NoThread] /\ AsleepOn(m) = {} /\ UNCHANGED pc
  <2>1. \A u \in Threads : ~Sleeps(u, m)
    BY <1>4, Zenon DEF AsleepOn, Sleeps
  <2> QED
    BY <1>0, <1>1, <1>2, <1>4, <2>1, SMT, Z3 DEF Moves, Others, PermitsSeen, Awake, TypeOK
<1>5. ASSUME NEW w \in Threads, Sleeps(w, m), pc' = [pc EXCEPT ![w] = "woken"],
             owner' = [owner EXCEPT ![m] = NoThread]
      PROVE Moves(t)
  <2>1. w # t /\ pc[w] = "asleep" /\ target(w) = m
    BY <1>2, <1>5, Zenon DEF Sleeps
  <2>2. Awake(w)'
    BY <1>0, <1>5, Zenon DEF Awake, TypeOK
  <2>3. Others(t)
    BY <1>0, <1>1, <1>5, <2>1, Zenon DEF Others, TypeOK
  <2>4. \A k \in Mutexes : owner'[k] = NoThread =>
           owner[k] = NoThread \/ (w \in Threads \ {t} /\ Awake(w)' /\ target(w) = k)
    BY <1>0, <1>5, <2>1, <2>2, Zenon DEF TypeOK
  <2>5. pc'[t] = "idle" /\ \A r \in Semaphores : count[r] \in 0..MaxCount
    BY <1>0, <1>2, <1>5, <2>1, Zenon DEF PermitsSeen, TypeOK
  <2> QED
    BY <1>2, <2>3, <2>4, <2>5, SMT, Z3 DEF Moves, Awake
<1> QED
  BY <1>3, <1>4, <1>5, Zenon DEF ReleaseMutex, WakeOne, AsleepOn, Sleeps, Goto

(* ReleaseSemaphore wakes everybody who sleeps on the semaphore. *)
LEMMA ReleaseSemaphoreMoves ==
  ASSUME IInv, NEW t \in Threads, NEW s \in Semaphores, NEW n \in 1..MaxCount,
         ReleaseSemaphore(t, s, n)
  PROVE  Moves(t)
<1>0. TypeOK /\ PermitsSeen
  BY Zenon DEF IInv
<1>1. \A u \in Threads : target(u)' = target(u)
  BY Zenon DEF ReleaseSemaphore, target
<1>2. UNCHANGED <<signaled, owner, stolen>> /\ pc[t] = "idle" /\ pc'[t] = "idle"
  BY <1>0, Zenon DEF ReleaseSemaphore, WakeAll, AsleepOn, ghosts, TypeOK
<1>3. \A u \in Threads : pc'[u] = IF Sleeps(u, s) THEN "woken" ELSE pc[u]
  BY Zenon DEF ReleaseSemaphore, WakeAll, AsleepOn, Sleeps
<1>4. \A u \in Threads : ~Sleeps(u, s)'
  BY <1>1, <1>3, Zenon DEF Sleeps
<1>5. \A r \in Semaphores : count'[r] \in 0..MaxCount /\ (r # s => count'[r] = count[r])
  <2>1. /\ count' = [count EXCEPT ![s] = @ + n] /\ count[s] + n <= MaxCount
        /\ \A r \in Semaphores : count[r] \in 0..MaxCount
    BY <1>0, Zenon DEF ReleaseSemaphore, PermitsSeen
  <2>2. count[s] + n \in 0..MaxCount
    BY <2>1, CallsAssumption, SMT, Z3
  <2> QED
    BY <1>0, <2>1, <2>2, Zenon DEF TypeOK
<1> QED
  BY <1>0, <1>1, <1>2, <1>3, <1>4, <1>5, SMT, Z3 DEF Moves, Others, Sleeps, Awake, TypeOK

(* Every step of the program is a step of one thread that keeps that promise. *)
LEMMA NextMoves ==
  ASSUME IInv, Next
  PROVE  UNCHANGED vars \/ \E t \in Threads : Moves(t)
  BY QuietMoves, TakeMoves, TimeoutMoves, NotifyMoves, ReleaseMutexMoves, ReleaseSemaphoreMoves, SMT, Z3
  DEF Next, Inside, ReleaseMutexFails, ReleaseSemaphoreFails

(* What the sleepers are promised lasts. *)
LEMMA SleepersStep ==
  ASSUME IInv, NEW t \in Threads, Moves(t)
  PROVE  EventsSeen' /\ PermitsSeen' /\ MutexesSeen'
<1>1. TypeOK
  BY Zenon DEF IInv
<1>2. \A u \in Threads : \A o : u # t /\ Sleeps(u, o)' => Sleeps(u, o)
  BY Zenon DEF Moves, Others, Sleeps
<1>3. \A o : Sleeps(t, o)' => target(t) = o /\ ~Available(t, o) /\ UNCHANGED <<signaled, owner, count>>
  BY Zenon DEF Moves, Sleeps, objs
<1>4. EventsSeen'
  <2> SUFFICES ASSUME NEW e \in Events, NEW u \in Threads, signaled'[e], Sleeps(u, e)'
      PROVE \E s \in Threads : pc'[s] = "notify" /\ target(s)' = e
    BY Zenon DEF EventsSeen
  <2>1. u # t
    BY <1>3, Zenon DEF Available
  <2>2. CASE ~signaled[e]
    BY <2>2, Zenon DEF Moves
  <2>3. CASE signaled[e]
    <3>1. PICK s \in Threads : pc[s] = "notify" /\ target(s) = e
      BY <1>2, <2>1, <2>3, Zenon DEF IInv, EventsSeen
    <3>2. s # t
      BY <3>1, Zenon DEF Moves
    <3> QED
      BY <3>1, <3>2, SMT, Z3 DEF Moves, Others
  <2> QED
    BY <2>2, <2>3, Zenon
<1>5. PermitsSeen'
  <2> SUFFICES ASSUME NEW s \in Semaphores, NEW u \in Threads, Sleeps(u, s)' PROVE count'[s] = 0
    BY Zenon DEF PermitsSeen, Moves
  <2>1. CASE u = t
    BY <1>3, <2>1, SMT, Z3 DEF Available, IInv, PermitsSeen
  <2>2. CASE u # t
    BY <1>2, <2>2 DEF Moves, IInv, PermitsSeen
  <2> QED
    BY <2>1, <2>2, Zenon
<1>6. MutexesSeen'
  <2> SUFFICES ASSUME NEW m \in Mutexes, NEW u \in Threads, owner'[m] = NoThread, Sleeps(u, m)',
                      m \notin stolen'
      PROVE \E w \in Threads : Awake(w)' /\ target(w)' = m
    BY Zenon DEF MutexesSeen
  <2>1. u # t
    BY <1>3, Zenon DEF Available
  <2>2. Sleeps(u, m)
    BY <1>2, <2>1, Zenon
  <2>3. CASE owner[m] # NoThread
    BY <2>1, <2>2, <2>3, SMT, Z3 DEF Moves, Others
  <2>4. CASE owner[m] = NoThread
    <3>1. PICK w \in Threads : Awake(w) /\ target(w) = m
      BY <2>2, <2>4, Zenon DEF IInv, MutexesSeen, Moves
    <3>2. CASE w = t
      BY <2>4, <3>1, <3>2, Zenon DEF Moves
    <3>3. CASE w # t
      BY <3>1, <3>3, Zenon DEF Moves, Others, Awake
    <3> QED
      BY <3>2, <3>3, Zenon
  <2> QED
    BY <2>3, <2>4, Zenon
<1> QED
  BY <1>4, <1>5, <1>6, Zenon

(* Ownership changes by taking and by releasing only. *)
LEMMA GrantedStep ==
  ASSUME IInv, Next
  PROVE  Granted'
<1>1. TypeOK /\ Granted
  BY Zenon DEF IInv
<1>2. ASSUME NEW t \in Threads, WaitTakes(t) PROVE Granted'
  <2>1. PICK o \in Objects : o = target(t)
    BY <1>1, <1>2, TargetType, Zenon DEF WaitTakes, Awake
  <2>2. Available(t, o) /\ Take(t, o)
    BY <1>2, <2>1, Zenon DEF WaitTakes
  <2>3. Taken(t, o)
    BY <1>1, <2>2, TakeEffect, Zenon
  <2> SUFFICES ASSUME NEW m \in Mutexes
               PROVE /\ \A u \in Threads : hold'[m][u] = IF owner'[m] = u THEN recursion'[m] ELSE 0
                     /\ owner'[m] = NoThread <=> recursion'[m] = 0
    BY Zenon DEF Granted
  <2>4. CASE m # o
    BY <1>1, <2>3, <2>4, SMT, Z3 DEF Taken, Granted
  <2>5. CASE m = o
    <3>1. /\ owner[m] \in {NoThread, t} /\ owner'[m] = t /\ recursion'[m] = recursion[m] + 1
          /\ hold'[m] = [hold[m] EXCEPT ![t] = @ + 1] /\ hold[m] \in [Threads -> Nat]
          /\ recursion[m] \in Nat
      BY <1>1, <2>3, <2>5, Zenon DEF Taken, TypeOK
    <3>2. /\ \A u \in Threads : u # t => hold[m][u] = 0
          /\ hold[m][t] = recursion[m]
      BY <1>1, <3>1, ObjectsAssumption, SMT, Z3 DEF Granted
    <3> QED
      BY <3>1, <3>2, ObjectsAssumption, SMT, Z3
  <2> QED
    BY <2>4, <2>5, Zenon
<1>3. ASSUME NEW t \in Threads, NEW m \in Mutexes, ReleaseMutex(t, m) PROVE Granted'
  BY <1>1, <1>3, ObjectsAssumption, SMT, Z3 DEF ReleaseMutex, Granted, TypeOK
<1>4. CASE UNCHANGED <<owner, recursion, hold>>
  BY <1>1, <1>4, SMT, Z3 DEF Granted
<1> QED
  BY <1>2, <1>3, <1>4, SMT, Z3
  DEF Next, Inside, WaitSleeps, AnyMisses, NotifyEvent, PulseReset, WaitTimesOut, AnyTimesOut,
      SpuriousWake, BeginWait, SetEvent, ResetEvent, ReleaseMutexFails, ReleaseSemaphore,
      ReleaseSemaphoreFails, ExitThread, objs, ghosts, vars

(* A signal is consumed at most once. *)
LEMMA SignalStep ==
  ASSUME IInv, Next
  PROVE  SignalReleasesAtMostOne'
<1>1. TypeOK /\ Granted /\ SignalReleasesAtMostOne
  BY Zenon DEF IInv
<1>2. ASSUME NEW t \in Threads, WaitTakes(t) PROVE SignalReleasesAtMostOne'
  <2>1. PICK o \in Objects : o = target(t)
    BY <1>1, <1>2, TargetType, Zenon DEF WaitTakes, Awake
  <2>2. Available(t, o) /\ Take(t, o)
    BY <1>2, <2>1, SMT, Z3 DEF WaitTakes
  <2>3. Taken(t, o) /\ sets' = sets
    BY <1>1, <2>2, TakeEffect, Zenon DEF Take
  <2> QED
    BY <1>1, <2>3, ObjectsAssumption, SMT, Z3 DEF Taken, SignalReleasesAtMostOne, TypeOK
<1>3. ASSUME NEW t \in Threads, NEW e \in Events, NEW api, SetEvent(t, e, api)
      PROVE SignalReleasesAtMostOne'
  BY <1>1, <1>3, ObjectsAssumption, SMT, Z3 DEF SetEvent, SignalReleasesAtMostOne, TypeOK
<1>4. ASSUME NEW o, signaled' = [signaled EXCEPT ![o] = FALSE], UNCHANGED <<sets, takes>>
      PROVE SignalReleasesAtMostOne'
  BY <1>1, <1>4, ObjectsAssumption, SMT, Z3 DEF SignalReleasesAtMostOne, TypeOK
<1>5. CASE UNCHANGED <<signaled, sets, takes>>
  BY <1>1, <1>5, Zenon DEF SignalReleasesAtMostOne
<1>6. ASSUME NEW t \in Threads, PulseReset(t) PROVE SignalReleasesAtMostOne'
  <2>1. PICK o : o = target(t)
    BY Zenon
  <2> QED
    BY <1>4, <1>6, <2>1, Zenon DEF PulseReset, ghosts
<1>7. ASSUME NEW t \in Threads, NEW e \in Events, ResetEvent(t, e) PROVE SignalReleasesAtMostOne'
  BY <1>4, <1>7, ZenonT(40) DEF ResetEvent, ghosts
<1> QED
  BY <1>2, <1>3, <1>5, <1>6, <1>7, SMT, Z3
  DEF Next, Inside, WaitSleeps, AnyMisses, NotifyEvent, WaitTimesOut, AnyTimesOut,
      SpuriousWake, BeginWait, ReleaseMutex, ReleaseMutexFails, ReleaseSemaphore,
      ReleaseSemaphoreFails, ExitThread, objs, ghosts, vars

(* Types: the calls, the program counters and the objects. *)
LEMMA TypeStep ==
  ASSUME IInv, Next
  PROVE  TypeOK'
<1>1. TypeOK /\ NoCall \in Call
  BY DEF IInv, NoCall, Call
<1> USE <1>1 DEF Goto, objs, ghosts
<1>2. ASSUME NEW t \in Threads, WaitTakes(t) PROVE TypeOK'
  <2>1. PICK o \in Objects : o = target(t)
    BY <1>2, TargetType, Zenon DEF WaitTakes, Awake
  <2>2. Take(t, o) /\ call[t] \in Call /\ pc[t] \in {"check", "woken"}
    BY <1>2, <2>1, Zenon DEF WaitTakes, Awake, TypeOK
  <2>a. signaled' \in [Events -> BOOLEAN] /\ takes' \in [Events -> Nat]
    <3>1. \/ UNCHANGED <<signaled, takes>>
          \/ /\ o \in AutoReset /\ signaled' = [signaled EXCEPT ![o] = FALSE]
             /\ takes' = [takes EXCEPT ![o] = @ + 1]
      BY <2>2, Zenon DEF Take
    <3>2. signaled' \in [Events -> BOOLEAN]
      BY <3>1, Zenon DEF TypeOK
    <3>3. takes' \in [Events -> Nat]
      <4>1. takes \in [Events -> Nat]
        BY Zenon DEF TypeOK
      <4>2. takes' = takes \/ (o \in Events /\ takes' = [takes EXCEPT ![o] = @ + 1])
        BY <3>1, ObjectsAssumption, Zenon
      <4> HIDE <1>1
      <4> QED
        BY <4>1, <4>2, SMT, Z3
    <3> QED
      BY <3>2, <3>3, Zenon
  <2>b. /\ owner' \in [Mutexes -> Threads \cup {NoThread}] /\ recursion' \in [Mutexes -> Nat]
        /\ hold' \in [Mutexes -> [Threads -> Nat]]
    <3>1. CASE o \in Mutexes
      <4>1. /\ owner' = [owner EXCEPT ![o] = t]
            /\ recursion' = [recursion EXCEPT ![o] = IF owner[o] = t THEN @ + 1 ELSE 1]
            /\ hold' = [hold EXCEPT ![o][t] = @ + 1]
        BY <2>2, <3>1, Zenon DEF Take
      <4>2. recursion[o] \in Nat /\ [hold[o] EXCEPT ![t] = @ + 1] \in [Threads -> Nat]
        BY <3>1, SMT, Z3 DEF TypeOK
      <4> QED
        BY <3>1, <4>1, <4>2, SMT, Z3 DEF TypeOK
    <3>2. CASE o \notin Mutexes
      BY <2>2, <3>2, Zenon DEF Take, TypeOK
    <3> QED
      BY <3>1, <3>2, Zenon
  <2>d. count' \in [Semaphores -> Int]
    BY <2>2, SMT, Z3 DEF Take, TypeOK
  <2>e. /\ finished' \in [Threads -> BOOLEAN] /\ sets' \in [Events -> Nat]
        /\ stolen' \subseteq Mutexes
    BY <2>2, Zenon DEF Take, TypeOK
  <2>4. CASE call[t].all /\ call[t].at < Len(call[t].list)
    <3>1. /\ call' = [call EXCEPT ![t].at = @ + 1]
          /\ got' = [got EXCEPT ![t] = @ \cup {o}]
          /\ pc' = [pc EXCEPT ![t] = "check"]
      BY <1>2, <2>1, <2>4, Zenon DEF WaitTakes
    <3>2. call[t].at + 1 \in Nat /\ call[t].at + 1 \in 1..Len(call[t].list)
      BY <2>2, <2>4, SMT, Z3 DEF TypeOK, Call
    <3>3. call' \in [Threads -> Call] /\ call'[t].at = call[t].at + 1 /\ call'[t].list = call[t].list
      BY <2>2, <3>1, <3>2, Zenon DEF TypeOK, Call
    <3> QED
      BY <2>a, <2>b, <2>d, <2>e, <3>1, <3>2, <3>3, SMT, Z3 DEF TypeOK
  <2>5. CASE Return(t)
    BY <2>a, <2>b, <2>d, <2>e, <2>5, Zenon DEF Return, TypeOK
  <2> QED
    BY <1>2, <2>4, <2>5, Zenon DEF WaitTakes
<1>3. ASSUME NEW t \in Threads, WaitSleeps(t) PROVE TypeOK'
  BY <1>3, Zenon DEF WaitSleeps, Awake, TypeOK
<1>4. ASSUME NEW t \in Threads, AnyMisses(t) PROVE TypeOK'
  <2> DEFINE k == IF call[t].at < Len(call[t].list) THEN call[t].at + 1 ELSE 1
  <2>1. call[t] \in Call /\ call[t].at \in 1..Len(call[t].list)
    BY <1>4, Zenon DEF AnyMisses, TypeOK
  <2>2. Len(call[t].list) \in Nat
    BY <2>1, SMT, Z3 DEF Call
  <2>3. k \in 1..Len(call[t].list)
    BY <2>1, <2>2, SMT, Z3
  <2>4. call' = [call EXCEPT ![t].at = k] /\ UNCHANGED <<objs, pc, got, ghosts>>
    BY <1>4, Zenon DEF AnyMisses
  <2> HIDE DEF k
  <2>5. [call[t] EXCEPT !.at = k] \in Call
    BY <2>1, <2>2, <2>3, SMT, Z3 DEF Call
  <2>6. call' \in [Threads -> Call] /\ call'[t].at = k /\ call'[t].list = call[t].list
    BY <2>1, <2>4, <2>5, Zenon DEF TypeOK, Call
  <2>7. \A u \in Threads : u # t => call'[u] = call[u]
    BY <2>4, Zenon DEF TypeOK
  <2> QED
    BY <2>3, <2>4, <2>6, <2>7 DEF TypeOK
<1>5. ASSUME NEW t \in Threads, NotifyEvent(t) PROVE TypeOK'
  BY <1>5, Zenon DEF NotifyEvent, AsleepOn, TypeOK
<1>6. ASSUME NEW t \in Threads, PulseReset(t) PROVE TypeOK'
  BY <1>6, Zenon DEF PulseReset, TypeOK
<1>7. ASSUME NEW t \in Threads, WaitTimesOut(t) PROVE TypeOK'
  BY <1>7, Zenon DEF WaitTimesOut, Return, TypeOK
<1>8. ASSUME NEW t \in Threads, AnyTimesOut(t) PROVE TypeOK'
  BY <1>8, Zenon DEF AnyTimesOut, Return, TypeOK
<1>9. ASSUME NEW t \in Threads, SpuriousWake(t) PROVE TypeOK'
  BY <1>9, Zenon DEF SpuriousWake, TypeOK
<1>10. ASSUME NEW t \in Threads, NEW list \in WaitLists, NEW all \in WaitAll, NEW timed \in Timed,
              BeginWait(t, list, all, timed)
       PROVE TypeOK'
  BY <1>10, CallsAssumption, SMT, Z3 DEF BeginWait, TypeOK, Call
<1>11. ASSUME NEW t \in Threads, NEW e \in Events, NEW api \in {"SetEvent", "PulseEvent"},
              SetEvent(t, e, api)
       PROVE TypeOK'
  <2> DEFINE c == [api |-> api, list |-> <<e>>, all |-> TRUE, timed |-> FALSE, at |-> 1]
  <2>1. c \in Call /\ c.at \in 1..Len(c.list)
    BY DEF Call, Objects
  <2>2. call' = [call EXCEPT ![t] = c]
    BY <1>11, Zenon DEF SetEvent
  <2> HIDE DEF c
  <2>3. /\ call' \in [Threads -> Call] /\ call'[t].at \in 1..Len(call'[t].list)
        /\ \A u \in Threads : u # t => call'[u] = call[u] /\ pc'[u] = pc[u]
    BY <1>1, <1>11, <2>1, <2>2, ZenonT(40) DEF SetEvent, TypeOK
  <2>4. /\ signaled' = [signaled EXCEPT ![e] = TRUE] /\ sets' = [sets EXCEPT ![e] = @ + 1]
        /\ pc' = [pc EXCEPT ![t] = "notify"]
        /\ UNCHANGED <<owner, recursion, count, finished, got, hold, takes, stolen>>
    BY <1>11, Zenon DEF SetEvent
  <2>5. signaled' \in [Events -> BOOLEAN] /\ sets' \in [Events -> Nat]
    BY <1>1, <2>4 DEF TypeOK
  <2> QED
    BY <1>1, <2>3, <2>4, <2>5, Zenon DEF TypeOK
<1>12. ASSUME NEW t \in Threads, NEW e \in Events, ResetEvent(t, e) PROVE TypeOK'
  BY <1>12, Zenon DEF ResetEvent, TypeOK
<1>13. ASSUME NEW t \in Threads, NEW m \in Mutexes, ReleaseMutex(t, m) PROVE TypeOK'
  <2>1. recursion[m] \in Nat \ {0} /\ hold[m][t] = recursion[m]
    BY <1>13, ObjectsAssumption, Zenon DEF ReleaseMutex, IInv, Granted, TypeOK
  <2>2. pc' = pc \/ \E w \in Threads : pc[w] = "asleep" /\ pc' = [pc EXCEPT ![w] = "woken"]
    BY <1>13, Zenon DEF ReleaseMutex, WakeOne, AsleepOn
  <2>3. recursion' \in [Mutexes -> Nat] /\ hold' \in [Mutexes -> [Threads -> Nat]]
    <3>1. recursion[m] - 1 \in Nat /\ [hold[m] EXCEPT ![t] = @ - 1] \in [Threads -> Nat]
      BY <2>1, SMT, Z3 DEF TypeOK
    <3> QED
      BY <1>13, <3>1, Zenon DEF ReleaseMutex, TypeOK
  <2>4. owner' = owner \/ owner' = [owner EXCEPT ![m] = NoThread]
    BY <1>13, Zenon DEF ReleaseMutex
  <2>5. owner' \in [Mutexes -> Threads \cup {NoThread}]
    BY <2>4, Zenon DEF TypeOK
  <2>6. UNCHANGED <<signaled, count, finished, call, got, sets, takes, stolen>>
    BY <1>13, Zenon DEF ReleaseMutex
  <2>7. /\ pc' \in [Threads -> {"idle", "check", "asleep", "woken", "notify", "reset", "exited"}]
        /\ \A u \in Threads : pc'[u] \notin {"idle", "exited"} => pc[u] \notin {"idle", "exited"}
    BY <2>2, Zenon DEF TypeOK
  <2> QED
    BY <2>3, <2>5, <2>6, <2>7, Zenon DEF TypeOK
<1>14. ASSUME NEW t \in Threads, NEW s \in Semaphores, NEW n \in 1..MaxCount,
              ReleaseSemaphore(t, s, n)
       PROVE TypeOK'
  BY <1>14, SMT, Z3 DEF ReleaseSemaphore, WakeAll, AsleepOn, TypeOK
<1>15. ASSUME NEW t \in Threads, ExitThread(t) PROVE TypeOK'
  BY <1>15, Zenon DEF ExitThread, TypeOK
<1>16. CASE UNCHANGED vars
  BY <1>16, Zenon DEF vars, TypeOK
<1> QED
  BY <1>2, <1>3, <1>4, <1>5, <1>6, <1>7, <1>8, <1>9, <1>10, <1>11, <1>12, <1>13, <1>14, <1>15,
     <1>16, SMT, Z3
  DEF Next, Inside, ReleaseMutexFails, ReleaseSemaphoreFails

(* Every step preserves the invariant. *)
LEMMA NextIInv == IInv /\ [Next]_vars => IInv'
<1> SUFFICES ASSUME IInv, [Next]_vars PROVE IInv'
  BY ZenonT(40)
<1>1. CASE UNCHANGED vars
  BY <1>1 DEF vars, IInv, TypeOK, Granted, SignalReleasesAtMostOne, EventsSeen, PermitsSeen,
              MutexesSeen, Sleeps, Awake, target
<1>2. CASE Next
  BY <1>1, <1>2, TypeStep, GrantedStep, SignalStep, NextMoves, SleepersStep, Zenon DEF IInv
<1> QED
  BY <1>1, <1>2, Zenon

(* The invariant holds in every reachable state. *)
THEOREM Invariance == Spec => []IInv
  BY InitIInv, NextIInv, PTL DEF Spec

(* threads.rs, wait_single and ReleaseMutex: owner and recursion of a mutex *)
(* are what its callers were granted and have not given back.               *)
THEOREM Ownership == Spec => []OwnershipIsWhatWasGranted
<1>1. IInv => OwnershipIsWhatWasGranted
  BY Zenon DEF IInv, Granted, OwnershipIsWhatWasGranted
<1> QED
  BY Invariance, <1>1, PTL

(* threads.rs, SetEvent and wait_single: a signal of an auto-reset event    *)
(* releases at most one wait.                                               *)
THEOREM OneReleasePerSignal == Spec => []SignalReleasesAtMostOne
<1>1. IInv => SignalReleasesAtMostOne
  BY Zenon DEF IInv
<1> QED
  BY Invariance, <1>1, PTL

(* threads.rs, SetEvent and ReleaseMutex: no wake-up is lost, although      *)
(* SetEvent notifies after it has unlocked and ReleaseMutex notifies one.   *)
THEOREM WakeupsArrive == Spec => []NoLostWakeup
<1>1. IInv => NoLostEvent
  BY Zenon DEF IInv, EventsSeen, Sleeps, NoLostEvent, AsleepOn
<1>2. IInv => MutexIsHandedOver
  BY Zenon DEF IInv, MutexesSeen, Sleeps, MutexIsHandedOver, AsleepOn
<1> QED
  BY Invariance, <1>1, <1>2, PTL DEF NoLostWakeup

(* threads.rs, ReleaseSemaphore: nobody sleeps on a semaphore with permits, *)
(* and the permits stay within lMaximumCount.                               *)
THEOREM PermitsServed == Spec => []PermitsAreServed
<1>1. IInv => PermitsAreServed
  BY DEF IInv, PermitsSeen, Sleeps, PermitsAreServed, AsleepOn
<1> QED
  BY Invariance, <1>1, PTL

(* handles.rs, Mutex: every mutex implements the abstract re-entrant lock.  *)
THEOREM MutexRefinement == Spec => EveryMutexIsALock
<1>1. Init => \A m \in Mutexes : Mtx(m)!Init
  BY ObjectsAssumption, SMT, Z3 DEF Init, Mtx!Init
<1>2. IInv /\ [Next]_vars =>
        [\A m \in Mutexes : Mtx(m)!Next \/ hold'[m] = hold[m]]_hold
  <2> SUFFICES ASSUME IInv, [Next]_vars, NEW m \in Mutexes
               PROVE  Mtx(m)!Next \/ hold'[m] = hold[m]
    BY Zenon
  <2>1. TypeOK /\ Granted /\ hold[m] \in [Threads -> Nat] /\ recursion[m] \in Nat
    BY Zenon DEF IInv, TypeOK
  <2>2. ASSUME NEW t \in Threads, WaitTakes(t) PROVE Mtx(m)!Next \/ hold'[m] = hold[m]
    <3>1. PICK o \in Objects : o = target(t)
      BY <2>1, <2>2, TargetType, Zenon DEF WaitTakes, Awake
    <3>2. Taken(t, o)
      BY <2>1, <2>2, <3>1, TakeEffect, Zenon DEF WaitTakes
    <3>3. CASE m # o
      BY <3>2, <3>3, Zenon DEF Taken
    <3>4. CASE m = o
      <4>1. owner[m] \in {NoThread, t} /\ hold'[m] = [hold[m] EXCEPT ![t] = @ + 1]
        BY <3>2, <3>4, Zenon DEF Taken
      <4>2. CASE owner[m] = t
        <5>1. hold[m][t] > 0
          BY <2>1, <4>2, ObjectsAssumption, SMT, Z3 DEF Granted
        <5> QED
          BY <4>1, <5>1, Zenon DEF Mtx!Next, Mtx!Reenter
      <4>3. CASE owner[m] = NoThread
        <5>1. \A u \in Threads : hold[m][u] = 0
          BY <2>1, <4>3, ObjectsAssumption, Zenon DEF Granted
        <5>2. hold'[m] = [hold[m] EXCEPT ![t] = 1]
          BY <4>1, <5>1, SMT, Z3
        <5> QED
          BY <5>1, <5>2, Zenon DEF Mtx!Next, Mtx!Acquire, Mtx!Free
      <4> QED
        BY <4>1, <4>2, <4>3, Zenon
    <3> QED
      BY <3>3, <3>4, Zenon
  <2>3. ASSUME NEW t \in Threads, NEW k \in Mutexes, ReleaseMutex(t, k)
        PROVE Mtx(m)!Next \/ hold'[m] = hold[m]
    <3>1. CASE m # k
      BY <2>1, <2>3, <3>1, Zenon DEF ReleaseMutex, TypeOK
    <3>2. CASE m = k
      <4>1. owner[m] = t /\ hold'[m] = [hold[m] EXCEPT ![t] = @ - 1]
        BY <2>1, <2>3, <3>2, Zenon DEF ReleaseMutex, TypeOK
      <4>2. hold[m][t] > 0
        BY <2>1, <4>1, ObjectsAssumption, SMT, Z3 DEF Granted
      <4> QED
        BY <4>1, <4>2, Zenon DEF Mtx!Next, Mtx!Release
    <3> QED
      BY <3>1, <3>2, Zenon
  <2>4. CASE UNCHANGED hold
    BY <2>4, Zenon
  <2> QED
    BY <2>2, <2>3, <2>4, SMT, Z3
    DEF Next, Inside, WaitSleeps, AnyMisses, NotifyEvent, PulseReset, WaitTimesOut, AnyTimesOut,
        SpuriousWake, BeginWait, SetEvent, ResetEvent, ReleaseMutexFails, ReleaseSemaphore,
        ReleaseSemaphoreFails, ExitThread, ghosts, vars
<1> QED
  BY Invariance, <1>1, <1>2, PTL DEF Spec, EveryMutexIsALock
=============================================================================
