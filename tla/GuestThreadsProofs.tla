------------------------- MODULE GuestThreadsProofs -------------------------
(***************************************************************************)
(* Proofs about the two places where guest threads meet.  First the        *)
(* critical section, for any number of threads, any nesting depth and any  *)
(* width of the counters; then the window state and its message queues,    *)
(* for any number of threads, windows and messages.                        *)
(***************************************************************************)
EXTENDS CriticalSection, MessageQueue, TLAPS

(* The count is the depth of the only holder, or zero when there is none. *)
Exact ==
  \/ lock_count = 0 /\ \A t \in Threads : depth[t] = 0
  \/ \E t \in Threads :
       /\ depth[t] > 0 /\ lock_count = depth[t]
       /\ \A u \in Threads : u # t => depth[u] = 0

(* What is known of a thread from where it stands in a thunk. *)
Local(t) ==
  /\ pc[t] \in {"load", "add", "cas"} => depth[t] < MaxDepth
  /\ pc[t] = "add" => depth[t] > 0
  /\ pc[t] = "own" => depth[t] > 0
  /\ pc[t] = "clear" => depth[t] = 0

(* The inductive invariant.  The owner field names a thread only while that *)
(* thread holds the section or is about to clear the field.                 *)
IInv ==
  /\ TypeOK
  /\ ~ready => \A t \in Threads : pc[t] = "idle" /\ depth[t] = 0
  /\ ready => Exact
  /\ \A t \in Threads : Local(t)
  /\ ready => \A t \in Threads :
       owner_thread_id = t => depth[t] > 0 \/ pc[t] = "clear"

(* The initial states, with an arbitrary buffer, satisfy the invariant. *)
LEMMA InitIInv == Init => IInv
<1> SUFFICES ASSUME Init PROVE IInv
  OBVIOUS
<1>1. TypeOK
  <2>1. ready \in BOOLEAN
    BY Zenon DEF Init
  <2>2. depth \in [Threads -> 0..MaxDepth]
    BY DepthAssumption DEF Init
  <2> QED
    BY <2>1, <2>2 DEF Init, TypeOK
<1>2. \A t \in Threads : pc[t] = "idle" /\ depth[t] = 0
  BY DEF Init
<1>3. ~ready
  BY SMT, Z3 DEF Init
<1> QED
  BY <1>1, <1>2, <1>3 DEF IInv, Local

(* Every atomic operation of the thunks preserves the invariant. *)
LEMMA NextIInv == IInv /\ [Next]_vars => IInv'
<1> SUFFICES ASSUME IInv, [Next]_vars PROVE IInv'
  OBVIOUS
<1> USE NoThreadAssumption, DepthAssumption
<1>1. CASE InitializeCriticalSection
  BY <1>1, SMT, Z3 DEF InitializeCriticalSection, IInv, TypeOK, Exact, Local
<1>2. ASSUME NEW t \in Threads, EnterCriticalSection(t) PROVE IInv'
  BY <1>2, SMT, Z3 DEF EnterCriticalSection, Goto, IInv, TypeOK, Exact, Local
<1>3. ASSUME NEW t \in Threads, TryEnterCriticalSection(t) PROVE IInv'
  BY <1>3, SMT, Z3 DEF TryEnterCriticalSection, Goto, IInv, TypeOK, Exact, Local
<1>4. ASSUME NEW t \in Threads, LeaveCriticalSection(t) PROVE IInv'
  BY <1>4, SMT, Z3 DEF LeaveCriticalSection, WrapDec, Goto, IInv, TypeOK, Exact, Local
<1>5. ASSUME NEW t \in Threads, LoadOwner(t) PROVE IInv'
  BY <1>5, SMT, Z3 DEF LoadOwner, Goto, IInv, TypeOK, Exact, Local
<1>6. ASSUME NEW t \in Threads, BumpCount(t) PROVE IInv'
  BY <1>6, SMT, Z3 DEF BumpCount, WrapInc, Goto, IInv, TypeOK, Exact, Local
<1>7. ASSUME NEW t \in Threads, ExchangeWins(t) PROVE IInv'
  BY <1>7, SMT, Z3 DEF ExchangeWins, Goto, IInv, TypeOK, Exact, Local
<1>8. ASSUME NEW t \in Threads, ExchangeLoses(t) PROVE IInv'
  BY <1>8, SMT, Z3 DEF ExchangeLoses, Goto, IInv, TypeOK, Exact, Local
<1>9. ASSUME NEW t \in Threads, StoreOwner(t) PROVE IInv'
  BY <1>9, SMT, Z3 DEF StoreOwner, Goto, IInv, TypeOK, Exact, Local
<1>10. ASSUME NEW t \in Threads, ClearOwner(t) PROVE IInv'
  BY <1>10, SMT, Z3 DEF ClearOwner, Goto, IInv, TypeOK, Exact, Local
<1>11. CASE UNCHANGED vars
  BY <1>11 DEF vars, IInv, TypeOK, Exact, Local
<1> QED
  BY <1>1, <1>2, <1>3, <1>4, <1>5, <1>6, <1>7, <1>8, <1>9, <1>10, <1>11, SMT, Z3
  DEF Next, Inside

(* The invariant holds in every reachable state. *)
THEOREM Invariance == Spec => []IInv
  BY InitIInv, NextIInv, PTL DEF Spec

(* The atomics, program counters and depths keep their types; in particular *)
(* lock_count never wraps.                                                  *)
THEOREM TypeCorrect == Spec => []TypeOK
<1>1. IInv => TypeOK
  BY SMT, Z3 DEF IInv
<1> QED
  BY Invariance, <1>1, PTL

(* The critical section is never held by two threads. *)
THEOREM Exclusion == Spec => []MutualExclusion
<1>1. IInv => MutualExclusion
  BY SMT, Z3 DEF IInv, TypeOK, Exact, MutualExclusion
<1> QED
  BY Invariance, <1>1, PTL

(* lock_count is the holder's nesting depth. *)
THEOREM CountExact == Spec => []CountIsDepth
<1>1. IInv => CountIsDepth
  BY SMT, Z3 DEF IInv, TypeOK, Exact, CountIsDepth
<1> QED
  BY Invariance, <1>1, PTL

(* Only the holder takes the re-entry path. *)
THEOREM ReentrySound == Spec => []ReentryOnlyByHolder
<1>1. IInv => ReentryOnlyByHolder
  BY DEF IInv, Local, ReentryOnlyByHolder
<1> QED
  BY Invariance, <1>1, PTL

(* The critical section implements the abstract re-entrant lock. *)
THEOREM Refinement == Spec => ImplementsLock
<1>1. Init => Lock!Init
  BY SMT, Z3 DEF Init, Lock!Init
<1>2. IInv /\ [Next]_vars => [Lock!Next]_depth
  <2> SUFFICES ASSUME IInv, [Next]_vars PROVE [Lock!Next]_depth
    OBVIOUS
  <2>1. ASSUME NEW t \in Threads, LeaveCriticalSection(t) PROVE Lock!Next
    BY <2>1, Zenon DEF LeaveCriticalSection, Lock!Next, Lock!Release
  <2>2. ASSUME NEW t \in Threads, BumpCount(t) PROVE Lock!Next
    BY <2>2, Zenon DEF BumpCount, IInv, Local, Lock!Next, Lock!Reenter
  <2>3. ASSUME NEW t \in Threads, ExchangeWins(t) PROVE Lock!Next
    <3>1. ready /\ \A u \in Threads : depth[u] = 0
      BY <2>3 DEF ExchangeWins, IInv, Exact, TypeOK
    <3>2. depth[t] + 1 = 1
      BY <3>1
    <3>3. depth' = [depth EXCEPT ![t] = 1]
      BY <2>3, <3>2, Zenon DEF ExchangeWins
    <3> QED
      BY <3>1, <3>3, Zenon DEF Lock!Next, Lock!Acquire, Lock!Free
  <2>4. CASE UNCHANGED depth
    BY <2>4
  <2> QED
    BY <2>1, <2>2, <2>3, <2>4, SMT, Z3
    DEF Next, Inside, InitializeCriticalSection, EnterCriticalSection,
        TryEnterCriticalSection, LoadOwner, ExchangeLoses, StoreOwner,
        ClearOwner, vars
<1> QED
  BY Invariance, <1>1, <1>2, PTL DEF Spec, ImplementsLock, Lock!Spec
-----------------------------------------------------------------------------
(* Message m is the i-th of the queue of window h. *)
Sits(m, h, i) ==
  h \in Hwnds /\ i \in 1..Len(windows[h].queue) /\ windows[h].queue[i] = m

(* A message is in one queue, at one place, or in the hand of one pumper,   *)
(* or has been handed out or dropped; none is lost.                         *)
OnePlace ==
  \A m, g, h, i, j \in Nat : Sits(m, g, i) /\ Sits(m, h, j) => g = h /\ i = j

QueuedOnly ==
  \A m, h, i \in Nat : Sits(m, h, i) =>
    m \in 1..posted /\ m \notin received /\ m \notin dropped /\ \A t \in Pumpers : held[t] # m

HeldOnly ==
  /\ \A t, u \in Pumpers : held[t] = held[u] /\ held[t] # 0 => t = u
  /\ \A t \in Pumpers : held[t] # 0 =>
       held[t] \in 1..posted /\ held[t] \notin received /\ held[t] \notin dropped

GoneOnly ==
  /\ \A m \in received : m \in 1..posted /\ m \notin dropped
  /\ \A m \in dropped : m \in 1..posted

NoneLost ==
  \A m \in 1..posted : \/ m \in received \/ m \in dropped
                       \/ \E t \in Pumpers : held[t] = m
                       \/ \E h, i \in Nat : Sits(m, h, i)

PlacesOK == OnePlace /\ QueuedOnly /\ HeldOnly /\ GoneOnly /\ NoneLost

(* Where the pumpers are: a message is in hand exactly between the pop and  *)
(* the push of a PM_NOREMOVE peek.                                          *)
PumpersOK ==
  /\ Len(windows) <= MaxWindows /\ requeued \subseteq Hwnds
  /\ \A t \in Pumpers :
       /\ held[t] # 0 <=> place[t] = "requeue"
       /\ req[t].filter \in Hwnds \cup {AnyWindow}
       /\ place[t] = "requeue" => req[t].filter \in requeued

(* The queue of a window that no such peek has touched is in posting order. *)
SortedOK ==
  \A h \in Hwnds \ requeued : \A m, n, i, j \in Nat :
    Sits(m, h, i) /\ Sits(n, h, j) /\ i < j => m < n

QInv == QueueTypeOK /\ PlacesOK /\ PumpersOK /\ SortedOK /\ WindowsAgreeWithClass
-----------------------------------------------------------------------------
(* The elements of a sequence are in its set. *)
LEMMA ElementOf ==
  ASSUME NEW S, NEW q \in Seq(S)
  PROVE  /\ \A i \in 1..Len(q) : q[i] \in S
         /\ q # << >> => Head(q) \in S
OBVIOUS

(* Facts about the queue of a window. *)
LEMMA QueueOf ==
  ASSUME QueueTypeOK, NEW h \in Hwnds
  PROVE  /\ windows[h] \in Window /\ windows[h].queue \in Seq(1..MaxPosts)
         /\ Len(windows[h].queue) \in Nat /\ h \in Nat
<1>1. windows[h] \in Window /\ h \in Nat
  BY SMT, Z3 DEF QueueTypeOK, Hwnds
<1>2. windows[h].queue \in Seq(1..MaxPosts)
  BY <1>1, SMT, Z3 DEF Window
<1> QED
  BY <1>1, <1>2, SMT, Z3

(* One element of a sequence is replaced. *)
LEMMA Replaced ==
  ASSUME NEW S, NEW s \in Seq(S), NEW f \in 1..Len(s), NEW e \in S
  PROVE  /\ [s EXCEPT ![f] = e] \in Seq(S) /\ Len([s EXCEPT ![f] = e]) = Len(s)
         /\ \A g \in 1..Len(s) : [s EXCEPT ![f] = e][g] = (IF g = f THEN e ELSE s[g])
OBVIOUS

(* The window h has become w, and the other windows are as they were. *)
Became(h, w) ==
  /\ windows' \in Seq(Window) /\ Len(windows') = Len(windows) /\ Hwnds' = Hwnds
  /\ windows'[h] = w
  /\ \A g \in Hwnds : g # h => windows'[g] = windows[g]

LEMMA BecameOf ==
  ASSUME QueueTypeOK, NEW h \in Hwnds, NEW w \in Window, windows' = [windows EXCEPT ![h] = w]
  PROVE  Became(h, w)
<1>1. windows \in Seq(Window) /\ h \in 1..Len(windows)
  BY Zenon DEF QueueTypeOK, Hwnds
<1>2. /\ [windows EXCEPT ![h] = w] \in Seq(Window) /\ Len([windows EXCEPT ![h] = w]) = Len(windows)
      /\ \A g \in 1..Len(windows) : [windows EXCEPT ![h] = w][g] = (IF g = h THEN w ELSE windows[g])
  BY <1>1, Replaced, SMT, Z3
<1> QED
  BY <1>1, <1>2 DEF Became, Hwnds

(* What a changed queue of one window means for the places of messages. *)
LEMMA SitsAfter ==
  ASSUME NEW h \in Hwnds, NEW w, Became(h, w), NEW m, NEW g, NEW i
  PROVE  Sits(m, g, i)' <=> IF g = h THEN i \in 1..Len(w.queue) /\ w.queue[i] = m ELSE Sits(m, g, i)
<1>1. CASE g = h
  BY <1>1, Zenon DEF Became, Sits
<1>2. CASE g # h
  BY <1>2, Zenon DEF Became, Sits
<1> QED
  BY <1>1, <1>2, Zenon

(* post_message: m comes last in the queue of h. *)
PushedAt(h, k, m) ==
  /\ \A x, i \in Nat : Sits(x, h, i) => i < k
  /\ \A x, g, i \in Nat : Sits(x, g, i)' <=> Sits(x, g, i) \/ (g = h /\ i = k /\ x = m)

Pushed(h, m) == \E k \in Nat : PushedAt(h, k, m)

LEMMA PushedOf ==
  ASSUME QueueTypeOK, NEW h \in Hwnds, NEW m \in 1..MaxPosts,
         windows' = [windows EXCEPT ![h].queue = Append(@, m)]
  PROVE  /\ Pushed(h, m)
         /\ Became(h, [windows[h] EXCEPT !.queue = Append(windows[h].queue, m)])
<1> DEFINE q == windows[h].queue
           w == [windows[h] EXCEPT !.queue = Append(q, m)]
<1>1. windows[h] \in Window /\ q \in Seq(1..MaxPosts)
  BY QueueOf, Zenon
<1>2. Append(q, m) \in Seq(1..MaxPosts) /\ Len(Append(q, m)) = Len(q) + 1
      /\ \A i \in 1..Len(q) + 1 : Append(q, m)[i] = IF i = Len(q) + 1 THEN m ELSE q[i]
  <2> HIDE DEF q
  <2> QED
    BY <1>1, SMT, Z3
<1>3. w \in Window /\ w.queue = Append(q, m)
  BY <1>1, <1>2, Zenon DEF Window
<1>4. windows' = [windows EXCEPT ![h] = w]
  BY Zenon
<1>5. Became(h, w)
  BY <1>3, <1>4, BecameOf, Zenon
<1>6. ASSUME NEW x \in Nat, NEW g \in Nat, NEW i \in Nat
      PROVE  Sits(x, g, i)' <=> Sits(x, g, i) \/ (g = h /\ i = Len(q) + 1 /\ x = m)
  <2>1. Sits(x, g, i)' <=> IF g = h THEN i \in 1..Len(w.queue) /\ w.queue[i] = x ELSE Sits(x, g, i)
    BY <1>5, SitsAfter, Zenon
  <2>2. CASE g = h
    <3>1. Sits(x, g, i) <=> i \in 1..Len(q) /\ q[i] = x
      BY <2>2, Zenon DEF Sits
    <3>2. Sits(x, g, i)' <=> i \in 1..Len(q) + 1 /\ Append(q, m)[i] = x
      BY <1>2, <1>3, <2>1, <2>2, Zenon
    <3>3. Len(q) \in Nat
      BY QueueOf, Zenon
    <3>4. i \in 1..Len(q) + 1 <=> i \in 1..Len(q) \/ i = Len(q) + 1
      <4> HIDE DEF q
      <4> QED BY <3>3, SMT, Z3
    <3>5. ~(Len(q) + 1 \in 1..Len(q))
      <4> HIDE DEF q
      <4> QED BY <3>3
    <3> QED
      <4> HIDE DEF q
      <4> QED
        BY <1>2, <2>2, <3>1, <3>2, <3>3, <3>4, <3>5, Zenon
  <2> QED
    BY <2>1, <2>2, Zenon
<1>7. Len(q) + 1 \in Nat /\ \A x, i \in Nat : Sits(x, h, i) => i < Len(q) + 1
  <2>1. Len(q) \in Nat
    BY QueueOf, Zenon
  <2>2. \A i \in Nat : i \in 1..Len(q) => i < Len(q) + 1
    <3> HIDE DEF q
    <3> QED BY <2>1, SMT, Z3
  <2>3. Len(q) + 1 \in Nat
    <3> HIDE DEF q
    <3> QED BY <2>1
  <2> QED
    BY <2>2, <2>3, Zenon DEF Sits
<1> QED
  BY <1>5, <1>6, <1>7, Zenon DEF Pushed, PushedAt

(* pop_message: the first message of the queue of h is gone. *)
Popped(h) ==
  /\ \A x, i \in Nat : Sits(x, h, i)' <=> i > 0 /\ Sits(x, h, i + 1)
  /\ \A x, g, i \in Nat : g # h => (Sits(x, g, i)' <=> Sits(x, g, i))

LEMMA PoppedOf ==
  ASSUME QueueTypeOK, NEW h \in Hwnds, windows[h].queue # << >>,
         windows' = [windows EXCEPT ![h].queue = Tail(@)]
  PROVE  /\ Popped(h) /\ Sits(Head(windows[h].queue), h, 1)
         /\ Became(h, [windows[h] EXCEPT !.queue = Tail(windows[h].queue)])
<1> DEFINE q == windows[h].queue
           w == [windows[h] EXCEPT !.queue = Tail(q)]
<1>1. windows[h] \in Window /\ q \in Seq(1..MaxPosts) /\ q # << >>
  BY QueueOf, Zenon
<1>2. Tail(q) \in Seq(1..MaxPosts) /\ Len(Tail(q)) = Len(q) - 1 /\ Len(q) \in Nat \ {0}
      /\ Head(q) = q[1] /\ \A i \in 1..Len(q) - 1 : Tail(q)[i] = q[i + 1]
  <2> HIDE DEF q
  <2> QED
    BY <1>1
<1>3. w \in Window /\ w.queue = Tail(q)
  BY <1>1, <1>2, Zenon DEF Window
<1>4. windows' = [windows EXCEPT ![h] = w]
  BY Zenon
<1>5. Became(h, w)
  BY <1>3, <1>4, BecameOf, Zenon
<1>6. ASSUME NEW x \in Nat, NEW g \in Nat, NEW i \in Nat, g # h
      PROVE  Sits(x, g, i)' <=> Sits(x, g, i)
  <2> HIDE DEF w
  <2>1. Sits(x, g, i)' <=> IF g = h THEN i \in 1..Len(w.queue) /\ w.queue[i] = x ELSE Sits(x, g, i)
    BY <1>5, SitsAfter, Zenon
  <2> QED
    BY <1>6, <2>1, Zenon
<1>7. ASSUME NEW x \in Nat, NEW i \in Nat
      PROVE  Sits(x, h, i)' <=> i > 0 /\ Sits(x, h, i + 1)
  <2>1. Sits(x, h, i)' <=> i \in 1..Len(q) - 1 /\ Tail(q)[i] = x
    <3> HIDE DEF w
    <3>1. Sits(x, h, i)' <=> IF h = h THEN i \in 1..Len(w.queue) /\ w.queue[i] = x ELSE Sits(x, h, i)
      BY <1>5, SitsAfter, ZenonT(30)
    <3>2. Sits(x, h, i)' <=> i \in 1..Len(w.queue) /\ w.queue[i] = x
      BY <3>1, Zenon
    <3> QED
      BY <1>2, <1>3, <3>2, Zenon
  <2>2. Sits(x, h, i + 1) <=> i + 1 \in 1..Len(q) /\ q[i + 1] = x
    BY Zenon DEF Sits
  <2>3. i > 0 /\ i + 1 \in 1..Len(q) <=> i \in 1..Len(q) - 1
    <3> HIDE DEF q
    <3> QED BY <1>2
  <2> QED
    <3> HIDE DEF q
    <3> QED BY <1>2, <2>1, <2>2, <2>3, Zenon
<1>8. Sits(Head(q), h, 1)
  <2>1. 1 \in 1..Len(q)
    <3> HIDE DEF q
    <3> QED BY <1>2
  <2> QED
    BY <1>2, <2>1, Zenon DEF Sits
<1> QED
  BY <1>5, <1>6, <1>7, <1>8, Zenon DEF Popped

(* destroy_window: the queue of h is empty. *)
Emptied(h) ==
  \A x, g, i \in Nat : Sits(x, g, i)' <=> g # h /\ Sits(x, g, i)

LEMMA EmptiedOf ==
  ASSUME QueueTypeOK, NEW h \in Hwnds,
         windows' = [windows EXCEPT ![h].live = FALSE, ![h].queue = << >>]
  PROVE  /\ Emptied(h)
         /\ Became(h, [windows[h] EXCEPT !.live = FALSE, !.queue = << >>])
<1> DEFINE w == [windows[h] EXCEPT !.live = FALSE, !.queue = << >>]
<1>1. windows[h] \in Window
  BY QueueOf, Zenon
<1>2. << >> \in Seq(1..MaxPosts) /\ FALSE \in BOOLEAN
  OBVIOUS
<1>3. w \in Window /\ w.queue = << >>
  BY <1>1, <1>2, Zenon DEF Window
<1>4. windows' = [windows EXCEPT ![h] = w]
  <2>1. windows \in Seq(Window) /\ h \in 1..Len(windows)
    BY Zenon DEF QueueTypeOK, Hwnds
  <2> QED
    BY <2>1, <1>1, Zenon DEF Window
<1>5. Became(h, w)
  BY <1>3, <1>4, BecameOf, Zenon
<1>6. ASSUME NEW x \in Nat, NEW g \in Nat, NEW i \in Nat
      PROVE  Sits(x, g, i)' <=> g # h /\ Sits(x, g, i)
  <2>1. i \notin 1..Len(<< >>)
    OBVIOUS
  <2>2. Sits(x, g, i)' <=> IF g = h THEN i \in 1..Len(w.queue) /\ w.queue[i] = x ELSE Sits(x, g, i)
    <3> HIDE DEF w
    <3> QED BY <1>5, SitsAfter, Zenon
  <2> HIDE DEF w
  <2> QED
    BY <1>3, <2>1, <2>2, Zenon
<1> QED
  BY <1>5, <1>6, Zenon DEF Emptied

(* create_window: a window without messages comes last. *)
LEMMA CreatedOf ==
  ASSUME QueueTypeOK, NEW w \in Window, w.queue = << >>, windows' = Append(windows, w)
  PROVE  /\ \A x, g, i \in Nat : Sits(x, g, i)' <=> Sits(x, g, i)
         /\ windows' \in Seq(Window) /\ Len(windows') = Len(windows) + 1 /\ Len(windows) \in Nat
         /\ \A g \in Hwnds : g \in Hwnds' /\ windows'[g] = windows[g]
         /\ \A g \in Hwnds' : g \in Hwnds \/ (g = Len(windows) + 1 /\ windows'[g] = w)
<1>1. windows \in Seq(Window)
  BY Zenon DEF QueueTypeOK
<1>2. /\ windows' \in Seq(Window) /\ Len(windows') = Len(windows) + 1 /\ Len(windows) \in Nat
      /\ \A g \in 1..Len(windows) : windows'[g] = windows[g]
      /\ windows'[Len(windows) + 1] = w
  BY <1>1, SMT, Z3
<1>3. \A g \in Nat : g \in 1..Len(windows') <=> g \in 1..Len(windows) \/ g = Len(windows) + 1
  BY <1>2, SMT, Z3
<1>4. \A g \in 1..Len(windows') : g \in Nat
  BY <1>2, SMT, Z3
<1>5. \A g \in 1..Len(windows) : g \in Nat
  BY <1>2
<1>6. ASSUME NEW x \in Nat, NEW g \in Nat, NEW i \in Nat
      PROVE  Sits(x, g, i)' <=> Sits(x, g, i)
  <2>1. i \notin 1..Len(<< >>)
    OBVIOUS
  <2>2. g = Len(windows) + 1 => ~(g \in 1..Len(windows))
    BY <1>2, SMT, Z3
  <2> QED
    BY <1>2, <1>3, <2>1, <2>2, Zenon DEF Sits, Hwnds
<1> QED
  BY <1>2, <1>3, <1>4, <1>5, <1>6, Zenon DEF Hwnds

(* The numbers that the messages have. *)
Numbered ==
  /\ posted \in Nat /\ held \in [Pumpers -> Nat]
  /\ \A m \in received : m \in Nat
  /\ \A m \in dropped : m \in Nat

LEMMA TypesNumber == ASSUME QueueTypeOK PROVE Numbered
<1>1. posted \in Nat /\ \A m \in 0..MaxPosts : m \in Nat
  BY QueueAssumption, SMT, Z3 DEF QueueTypeOK
<1>2. \A m \in 1..MaxPosts : m \in Nat
  BY QueueAssumption, SMT, Z3
<1> QED
  BY <1>1, <1>2, SMT, Z3 DEF QueueTypeOK, Numbered

(* The message state is as it was. *)
Still ==
  /\ \A x, g, i \in Nat : Sits(x, g, i)' <=> Sits(x, g, i)
  /\ posted' = posted /\ held' = held /\ received' = received /\ dropped' = dropped

LEMMA PlacesStay == ASSUME PlacesOK, Still PROVE PlacesOK'
<1>1. OnePlace'
  BY DEF PlacesOK, OnePlace, Still
<1>2. QueuedOnly'
  BY Zenon DEF PlacesOK, QueuedOnly, Still
<1>3. HeldOnly' /\ GoneOnly'
  BY Zenon DEF PlacesOK, HeldOnly, GoneOnly, Still
<1>4. NoneLost'
  BY DEF PlacesOK, NoneLost, Still
<1> QED
  BY <1>1, <1>2, <1>3, <1>4, Zenon DEF PlacesOK

(* A new message is posted. *)
LEMMA PlacesPost ==
  ASSUME PlacesOK, Numbered, NEW h \in Nat, NEW m \in Nat, m = posted + 1, Pushed(h, m),
         posted' = m, held' = held, received' = received, dropped' = dropped
  PROVE  PlacesOK'
<1>1. PICK k \in Nat : PushedAt(h, k, m)
  BY Zenon DEF Pushed
<1>2. m \notin 1..posted /\ m \in 1..m /\ (\A x \in 1..posted : x \in 1..m) /\ m # 0
      /\ \A x \in 1..m : x \in 1..posted \/ x = m
  BY DEF Numbered
<1>3. \A x, g, i \in Nat : Sits(x, g, i)' <=> Sits(x, g, i) \/ (g = h /\ i = k /\ x = m)
  BY <1>1, Zenon DEF PushedAt
<1>4. /\ \A g, i \in Nat : ~Sits(m, g, i)
      /\ \A t \in Pumpers : held[t] # m
      /\ m \notin received /\ m \notin dropped
  BY <1>2, Zenon DEF PlacesOK, QueuedOnly, HeldOnly, GoneOnly
<1>5. OnePlace'
  BY <1>3, <1>4, SMT, Z3 DEF PlacesOK, OnePlace
<1>6. QueuedOnly'
  BY <1>2, <1>3, <1>4 DEF PlacesOK, QueuedOnly
<1>7. HeldOnly' /\ GoneOnly'
  BY <1>2, Zenon DEF PlacesOK, HeldOnly, GoneOnly
<1>8. NoneLost'
  BY <1>2, <1>3, SMT, Z3 DEF PlacesOK, NoneLost
<1> QED
  BY <1>5, <1>6, <1>7, <1>8, Zenon DEF PlacesOK

(* The first message m of a queue is popped: the others stay queued, each   *)
(* at one place.                                                            *)
Leaves(m) ==
  /\ m \in 1..posted /\ m \notin received /\ m \notin dropped
  /\ \A t \in Pumpers : held[t] # m
  /\ \A x, g, i \in Nat : Sits(x, g, i)' => x # m /\ \E j \in Nat : Sits(x, g, j)
  /\ \A x, g, i \in Nat : Sits(x, g, i) /\ x # m => \E j \in Nat : Sits(x, g, j)'

LEMMA PopLeaves ==
  ASSUME PlacesOK, Numbered, NEW h \in Nat, NEW m \in Nat, Popped(h), Sits(m, h, 1)
  PROVE  Leaves(m) /\ OnePlace'
<1>1. /\ \A i, j \in Nat : i + 1 \in Nat /\ (i + 1 = j + 1 => i = j) /\ (i > 0 => i + 1 # 1)
      /\ 1 \in Nat
  OBVIOUS
<1>2. /\ m \in 1..posted /\ m \notin received /\ m \notin dropped
      /\ \A t \in Pumpers : held[t] # m
      /\ \A g, i \in Nat : Sits(m, g, i) => g = h /\ i = 1
  BY <1>1, Zenon DEF PlacesOK, QueuedOnly, OnePlace
<1>3. \A x, g, i \in Nat : Sits(x, g, i)' => x # m /\ \E j \in Nat : Sits(x, g, j)
  BY <1>1, <1>2, SMT, Z3 DEF Popped
<1>4. OnePlace'
  <2> SUFFICES ASSUME NEW x \in Nat, NEW f \in Nat, NEW g \in Nat, NEW i \in Nat, NEW j \in Nat,
                      Sits(x, f, i)', Sits(x, g, j)'
               PROVE  f = g /\ i = j
    BY Zenon DEF OnePlace
  <2>1. f = g
    BY <1>3, SMT, Z3 DEF PlacesOK, OnePlace
  <2>2. CASE f = h
    BY <1>1, <2>1, <2>2, SMTT(30), Z3T(30) DEF PlacesOK, OnePlace, Popped
  <2>3. CASE f # h
    BY <2>1, <2>3, SMT, Z3 DEF PlacesOK, OnePlace, Popped
  <2> QED
    BY <2>1, <2>2, <2>3, Zenon
<1>5. ASSUME NEW x \in Nat, NEW g \in Nat, NEW i \in Nat, Sits(x, g, i), x # m
      PROVE  \E j \in Nat : Sits(x, g, j)'
  <2>1. CASE g # h
    BY <1>5, <2>1, Zenon DEF Popped
  <2>2. CASE g = h
    <3>1. i # 0 /\ i # 1
      BY <1>5, <2>2, SMT, Z3 DEF Sits
    <3>2. PICK j \in Nat : i = j + 1 /\ j > 0
      <4>1. i - 1 \in Nat /\ i = (i - 1) + 1 /\ i - 1 > 0
        BY <3>1
      <4> QED BY <4>1, Zenon
    <3> QED
      BY <1>5, <2>2, <3>2, Zenon DEF Popped
  <2> QED
    BY <2>1, <2>2, Zenon
<1> QED
  BY <1>2, <1>3, <1>4, <1>5, Zenon DEF Leaves

(* ... and handed to the guest. *)
LEMMA PlacesReceive ==
  ASSUME PlacesOK, Numbered, NEW h \in Nat, NEW m \in Nat, Popped(h), Sits(m, h, 1),
         posted' = posted, held' = held, received' = received \cup {m}, dropped' = dropped
  PROVE  PlacesOK'
<1>1. Leaves(m) /\ OnePlace'
  BY PopLeaves, Zenon
<1>2. QueuedOnly'
  BY <1>1 DEF PlacesOK, QueuedOnly, Leaves
<1>3. HeldOnly' /\ GoneOnly'
  BY <1>1, Zenon DEF PlacesOK, HeldOnly, GoneOnly, Leaves
<1>4. NoneLost'
  <2> SUFFICES ASSUME NEW x \in 1..posted, x \notin received', x \notin dropped,
                      \A t \in Pumpers : held[t] # x
               PROVE  \E g, i \in Nat : Sits(x, g, i)'
    BY Zenon DEF NoneLost
  <2>1. x \in Nat /\ x # m
    BY DEF Numbered
  <2>2. PICK g \in Nat, i \in Nat : Sits(x, g, i)
    BY Zenon DEF PlacesOK, NoneLost
  <2> QED
    BY <1>1, <2>1, <2>2, Zenon DEF Leaves
<1> QED
  BY <1>1, <1>2, <1>3, <1>4, Zenon DEF PlacesOK

(* ... and kept by a peek that will put it back. *)
LEMMA PlacesPeek ==
  ASSUME PlacesOK, Numbered, NEW h \in Nat, NEW m \in Nat, Popped(h), Sits(m, h, 1),
         NEW t \in Pumpers, held[t] = 0, held' = [held EXCEPT ![t] = m],
         posted' = posted, received' = received, dropped' = dropped
  PROVE  PlacesOK'
<1>1. Leaves(m) /\ OnePlace'
  BY PopLeaves, Zenon
<1>2. \A u \in Pumpers : held'[u] = IF u = t THEN m ELSE held[u]
  BY SMT, Z3 DEF Numbered
<1>3. QueuedOnly'
  BY <1>1, <1>2, SMT, Z3 DEF PlacesOK, QueuedOnly, Leaves
<1>4. HeldOnly'
  BY <1>1, <1>2, SMT, Z3 DEF PlacesOK, HeldOnly, Leaves
<1>5. GoneOnly'
  BY Zenon DEF PlacesOK, GoneOnly
<1>6. NoneLost'
  <2> SUFFICES ASSUME NEW x \in 1..posted, x \notin received, x \notin dropped,
                      \A u \in Pumpers : held'[u] # x
               PROVE  \E g, i \in Nat : Sits(x, g, i)'
    BY Zenon DEF NoneLost
  <2>1. x \in Nat /\ x # m /\ x # 0
    BY <1>2, SMT, Z3 DEF Numbered
  <2>2. \A u \in Pumpers : held[u] # x
    BY <1>2, <2>1, SMT, Z3
  <2>3. PICK g \in Nat, i \in Nat : Sits(x, g, i)
    BY <2>2, Zenon DEF PlacesOK, NoneLost
  <2> QED
    BY <1>1, <2>1, <2>3, Zenon DEF Leaves
<1> QED
  BY <1>1, <1>3, <1>4, <1>5, <1>6, Zenon DEF PlacesOK

(* The peek puts its message back. *)
LEMMA PlacesPutBack ==
  ASSUME PlacesOK, Numbered, NEW h \in Nat, NEW m \in Nat, NEW t \in Pumpers,
         held[t] = m, m # 0, held' = [held EXCEPT ![t] = 0], Pushed(h, m),
         posted' = posted, received' = received, dropped' = dropped
  PROVE  PlacesOK'
<1>1. PICK k \in Nat : PushedAt(h, k, m)
  BY Zenon DEF Pushed
<1>2. \A x, g, i \in Nat : Sits(x, g, i)' <=> Sits(x, g, i) \/ (g = h /\ i = k /\ x = m)
  BY <1>1, Zenon DEF PushedAt
<1>3. \A u \in Pumpers : held'[u] = IF u = t THEN 0 ELSE held[u]
  BY SMT, Z3 DEF Numbered
<1>4. /\ \A g, i \in Nat : ~Sits(m, g, i)
      /\ \A u \in Pumpers : held[u] = m => u = t
      /\ m \in 1..posted /\ m \notin received /\ m \notin dropped
  BY SMT, Z3 DEF PlacesOK, QueuedOnly, HeldOnly
<1>5. OnePlace'
  BY <1>2, <1>4, SMT, Z3 DEF PlacesOK, OnePlace
<1>6. QueuedOnly'
  <2>1. \A x, g, i \in Nat : Sits(x, g, i) => x \in 1..posted /\ x # 0
    BY SMT, Z3 DEF PlacesOK, QueuedOnly
  <2> QED
    BY <1>2, <1>3, <1>4, <2>1, SMT, Z3 DEF PlacesOK, QueuedOnly
<1>7. HeldOnly'
  BY <1>3 DEF PlacesOK, HeldOnly
<1>8. GoneOnly'
  BY Zenon DEF PlacesOK, GoneOnly
<1>9. NoneLost'
  BY <1>2, <1>3, <1>4, SMTT(30), Z3T(30) DEF PlacesOK, NoneLost, Numbered
<1> QED
  BY <1>5, <1>6, <1>7, <1>8, <1>9, Zenon DEF PlacesOK

(* The window has gone meanwhile, and the message with it. *)
LEMMA PlacesDrop ==
  ASSUME PlacesOK, Numbered, NEW m \in Nat, NEW t \in Pumpers,
         held[t] = m, m # 0, held' = [held EXCEPT ![t] = 0],
         \A x, g, i \in Nat : Sits(x, g, i)' <=> Sits(x, g, i),
         posted' = posted, received' = received, dropped' = dropped \cup {m}
  PROVE  PlacesOK'
<1>1. \A u \in Pumpers : held'[u] = IF u = t THEN 0 ELSE held[u]
  BY DEF Numbered
<1>2. /\ \A g, i \in Nat : ~Sits(m, g, i)
      /\ \A u \in Pumpers : held[u] = m => u = t
      /\ m \in 1..posted /\ m \notin received /\ m \notin dropped
  BY DEF PlacesOK, QueuedOnly, HeldOnly
<1>3. OnePlace'
  BY DEF PlacesOK, OnePlace
<1>4. QueuedOnly'
  <2>1. \A x, g, i \in Nat : Sits(x, g, i) => x # 0
    BY SMT, Z3 DEF PlacesOK, QueuedOnly
  <2> QED
    BY <1>1, <1>2, <2>1, SMT, Z3 DEF PlacesOK, QueuedOnly
<1>5. HeldOnly'
  BY <1>1, <1>2, SMT, Z3 DEF PlacesOK, HeldOnly
<1>6. GoneOnly'
  BY <1>2, Zenon DEF PlacesOK, GoneOnly
<1>7. NoneLost'
  BY <1>1, <1>2, SMT, Z3 DEF PlacesOK, NoneLost
<1> QED
  BY <1>3, <1>4, <1>5, <1>6, <1>7, Zenon DEF PlacesOK

(* A window goes with its messages. *)
LEMMA PlacesDestroy ==
  ASSUME PlacesOK, Numbered, NEW h \in Nat, Emptied(h),
         \A x \in Nat : x \in dropped' <=> x \in dropped \/ \E i \in Nat : Sits(x, h, i),
         \A x \in dropped' : x \in Nat,
         posted' = posted, held' = held, received' = received
  PROVE  PlacesOK'
<1>1. OnePlace'
  BY DEF PlacesOK, OnePlace, Emptied
<1>2. QueuedOnly'
  <2> SUFFICES ASSUME NEW x \in Nat, NEW g \in Nat, NEW i \in Nat, Sits(x, g, i)'
               PROVE  x \in 1..posted /\ x \notin received /\ x \notin dropped'
                      /\ \A t \in Pumpers : held[t] # x
    BY Zenon DEF QueuedOnly
  <2>1. g # h /\ Sits(x, g, i)
    BY Zenon DEF Emptied
  <2>2. \A j \in Nat : ~Sits(x, h, j)
    BY <2>1, Zenon DEF PlacesOK, OnePlace
  <2> QED
    BY <2>1, <2>2, Zenon DEF PlacesOK, QueuedOnly
<1>3. HeldOnly'
  BY SMT, Z3 DEF PlacesOK, HeldOnly, QueuedOnly, Numbered
<1>4. GoneOnly'
  BY SMT, Z3 DEF PlacesOK, GoneOnly, QueuedOnly, Numbered
<1>5. NoneLost'
  BY DEF PlacesOK, NoneLost, Emptied, Numbered
<1> QED
  BY <1>1, <1>2, <1>3, <1>4, <1>5, Zenon DEF PlacesOK
-----------------------------------------------------------------------------
(* The queues that a step changes stay in posting order. *)
LEMMA SortedPush ==
  ASSUME SortedOK, PlacesOK, Numbered, NEW h \in Hwnds, h \in Nat, NEW m \in Nat, Pushed(h, m),
         m = posted + 1 \/ h \in requeued, Hwnds' = Hwnds, requeued' = requeued
  PROVE  SortedOK'
<1>1. PICK k \in Nat : PushedAt(h, k, m)
  BY Zenon DEF Pushed
<1> SUFFICES ASSUME NEW g \in Hwnds \ requeued, NEW x \in Nat, NEW y \in Nat, NEW i \in Nat, NEW j \in Nat,
                    Sits(x, g, i)', Sits(y, g, j)', i < j
             PROVE  x < y
  BY Zenon DEF SortedOK
<1>2. CASE Sits(x, g, i) /\ Sits(y, g, j)
  BY <1>2, Zenon DEF SortedOK
<1>3. \A a, b \in Nat : Sits(a, g, b)' <=> Sits(a, g, b) \/ (g = h /\ b = k /\ a = m)
  <2>1. g \in Nat
    BY SMT, Z3 DEF Hwnds
  <2> QED
    BY <1>1, <2>1, Zenon DEF PushedAt
<1>4. CASE g = h /\ m = posted + 1
  <2>1. \A a, b \in Nat : Sits(a, h, b) => b < k /\ a \in 1..posted
    BY <1>1, Zenon DEF PushedAt, PlacesOK, QueuedOnly
  <2>2. Sits(x, g, i) \/ i = k
    BY <1>3, Zenon
  <2>3. Sits(y, g, j) \/ (j = k /\ y = m)
    BY <1>3, Zenon
  <2> QED
    BY <1>2, <1>4, <2>1, <2>2, <2>3, SMT, Z3 DEF Numbered
<1> QED
  BY <1>2, <1>3, <1>4, Zenon

LEMMA SortedPop ==
  ASSUME SortedOK, NEW h \in Hwnds, Popped(h), Hwnds' = Hwnds,
         \A g \in requeued : g \in requeued'
  PROVE  SortedOK'
<1> SUFFICES ASSUME NEW g \in Hwnds \ requeued, NEW x \in Nat, NEW y \in Nat, NEW i \in Nat, NEW j \in Nat,
                    Sits(x, g, i)', Sits(y, g, j)', i < j
             PROVE  x < y
  BY Zenon DEF SortedOK
<1>1. g \in Nat
  BY DEF Hwnds
<1>2. CASE g = h
  <2>1. Sits(x, g, i + 1) /\ Sits(y, g, j + 1)
    BY <1>2, Zenon DEF Popped
  <2>2. i + 1 \in Nat /\ j + 1 \in Nat /\ i + 1 < j + 1
    OBVIOUS
  <2> QED
    BY <2>1, <2>2, Zenon DEF SortedOK
<1>3. CASE g # h
  BY <1>1, <1>3, Zenon DEF Popped, SortedOK
<1> QED
  BY <1>2, <1>3, SMT, Z3

LEMMA SortedLess ==
  ASSUME SortedOK, \A x, g, i \in Nat : Sits(x, g, i)' => Sits(x, g, i),
         \A g \in Hwnds' : g \in Nat, requeued' = requeued
  PROVE  SortedOK'
<1> SUFFICES ASSUME NEW g \in Hwnds' \ requeued, NEW x \in Nat, NEW y \in Nat, NEW i \in Nat, NEW j \in Nat,
                    Sits(x, g, i)', Sits(y, g, j)', i < j
             PROVE  x < y
  BY Zenon DEF SortedOK
<1>1. Sits(x, g, i) /\ Sits(y, g, j)
  BY Zenon
<1>2. g \in Hwnds
  BY <1>1, Zenon DEF Sits
<1> QED
  BY <1>1, <1>2, Zenon DEF SortedOK

(* A window keeps its class and procedure. *)
LEMMA AgreeAfter ==
  ASSUME WindowsAgreeWithClass, NEW h \in Hwnds, NEW w, Became(h, w),
         w.proc = windows[h].proc, w.class = windows[h].class, classes' = classes
  PROVE  WindowsAgreeWithClass'
<1> SUFFICES ASSUME NEW g \in Hwnds
             PROVE  windows'[g].proc \in {NoProc, classes[windows'[g].class]}
  BY Zenon DEF WindowsAgreeWithClass, Became
<1>1. CASE g = h
  BY <1>1, Zenon DEF WindowsAgreeWithClass, Became
<1>2. CASE g # h
  BY <1>2, Zenon DEF WindowsAgreeWithClass, Became
<1> QED
  BY <1>1, <1>2, SMT, Z3

(* Nobody is handed a message. *)
LEMMA NoneHandedOut == ASSUME received' = received PROVE InOrder
<1>1. received' \ received = {}
  BY Zenon
<1> QED
  BY <1>1, Zenon DEF InOrder

Request == [api : {"none", "peek", "get"}, filter : Nat, remove : BOOLEAN]
Elsewhere == {"idle", "quit?", "take", "pump", "pop"}

(* The steps of a pumping thunk that leave the windows and messages alone. *)
LEMMA PlaceStep ==
  ASSUME QInv, NEW t \in Pumpers, place[t] # "requeue",
         NEW l \in Elsewhere, place' = [place EXCEPT ![t] = l],
         NEW r \in Request, r.filter \in Hwnds \cup {AnyWindow}, req' = [req EXCEPT ![t] = r],
         quit' \in BOOLEAN, UNCHANGED <<tables, held, history>>
  PROVE  QInv' /\ InOrder
<1>1. /\ classes' = classes /\ windows' = windows /\ held' = held /\ posted' = posted
      /\ received' = received /\ dropped' = dropped /\ quits_posted' = quits_posted
      /\ requeued' = requeued
  BY Zenon DEF tables, history
<1>2. QueueTypeOK
  BY Zenon DEF QInv
<1>3. /\ place' \in [Pumpers -> {"idle", "quit?", "take", "pump", "pop", "requeue"}]
      /\ req' \in [Pumpers -> Request]
      /\ place'[t] = l /\ req'[t] = r
      /\ \A u \in Pumpers : u # t => place'[u] = place[u] /\ req'[u] = req[u]
  <2>1. place \in [Pumpers -> {"idle", "quit?", "take", "pump", "pop", "requeue"}]
        /\ req \in [Pumpers -> Request]
    BY <1>2, Zenon DEF QueueTypeOK, Request
  <2>2. l \in {"idle", "quit?", "take", "pump", "pop", "requeue"}
    BY SMT, Z3 DEF Elsewhere
  <2> QED
    BY <2>1, <2>2, Zenon
<1>4. QueueTypeOK'
  BY <1>1, <1>2, <1>3, Zenon DEF QueueTypeOK, Request
<1>5. Hwnds' = Hwnds /\ \A x, g, i \in Nat : Sits(x, g, i)' <=> Sits(x, g, i)
  BY <1>1, Zenon DEF Hwnds, Sits
<1>6. PlacesOK'
  BY <1>1, <1>5, PlacesStay, Zenon DEF QInv, Still
<1>7. SortedOK'
  <2>1. \A g \in Hwnds' : g \in Nat
    BY <1>5, SMT, Z3 DEF Hwnds
  <2> QED
    BY <1>1, <1>5, <2>1, SortedLess, Zenon DEF QInv
<1>8. PumpersOK'
  <2>1. l # "requeue"
    BY DEF Elsewhere
  <2>2. /\ (Len(windows) <= MaxWindows)' /\ requeued' \subseteq Hwnds'
    BY <1>1, <1>5, Zenon DEF QInv, PumpersOK
  <2>3. ASSUME NEW u \in Pumpers
        PROVE  /\ held'[u] # 0 <=> place'[u] = "requeue"
               /\ req'[u].filter \in Hwnds' \cup {AnyWindow}
               /\ place'[u] = "requeue" => req'[u].filter \in requeued'
    <3>1. CASE u = t
      BY <1>1, <1>3, <1>5, <2>1, <3>1, Zenon DEF QInv, PumpersOK
    <3>2. CASE u # t
      BY <1>1, <1>3, <1>5, <3>2, Zenon DEF QInv, PumpersOK
    <3> QED
      BY <3>1, <3>2, SMT, Z3
  <2> QED
    BY <2>2, <2>3, Zenon DEF PumpersOK
<1>9. WindowsAgreeWithClass'
  BY <1>1, <1>5, Zenon DEF QInv, WindowsAgreeWithClass
<1> QED
  BY <1>1, <1>4, <1>6, <1>7, <1>8, <1>9, NoneHandedOut, Zenon DEF QInv

(* What QInv says of one pumper. *)
LEMMA PumperIs ==
  ASSUME QInv, NEW t \in Pumpers
  PROVE  /\ req[t] \in Request /\ req[t].filter \in Hwnds \cup {AnyWindow}
         /\ req = [req EXCEPT ![t] = req[t]] /\ quit \in BOOLEAN
         /\ held[t] # 0 <=> place[t] = "requeue"
<1>1. req \in [Pumpers -> Request] /\ quit \in BOOLEAN
  BY Zenon DEF QInv, QueueTypeOK, Request
<1>2. req[t] \in Request /\ req = [req EXCEPT ![t] = req[t]]
  BY <1>1, Zenon
<1> QED
  BY <1>1, <1>2, Zenon DEF QInv, PumpersOK

(* A pumping thunk is entered. *)
LEMMA EnterStep ==
  ASSUME QInv, NEW t \in Pumpers, NEW f \in Hwnds \cup {AnyWindow},
         GetMessageW(t, f) \/ \E r \in Removes : PeekMessageW(t, f, r)
  PROVE  QInv' /\ InOrder
<1>1. f \in Nat /\ \A r \in Removes : r \in BOOLEAN
  BY QueueAssumption, SMT, Z3 DEF Hwnds, AnyWindow
<1>2. PICK r \in BOOLEAN, a \in {"peek", "get"} :
        /\ place[t] = "idle" /\ place' = [place EXCEPT ![t] = "quit?"]
        /\ req' = [req EXCEPT ![t] = [api |-> a, filter |-> f, remove |-> r]]
        /\ UNCHANGED <<tables, quit, held, history>>
  <2>1. CASE GetMessageW(t, f)
    BY <2>1, Zenon DEF GetMessageW, GoTo
  <2>2. CASE \E r \in Removes : PeekMessageW(t, f, r)
    BY <1>1, <2>2, Zenon DEF PeekMessageW, GoTo
  <2> QED
    BY <2>1, <2>2, Zenon
<1>3. PICK w \in Request : w = [api |-> a, filter |-> f, remove |-> r]
  BY <1>1, <1>2, Zenon DEF Request
<1>4. w.filter \in Hwnds \cup {AnyWindow}
  BY <1>3, SMT, Z3
<1>5. "quit?" \in Elsewhere /\ place[t] # "requeue"
  BY <1>2, SMT, Z3 DEF Elsewhere
<1>6. quit' \in BOOLEAN /\ UNCHANGED <<tables, held, history>>
  BY <1>2, PumperIs, Zenon
<1> QED
  BY <1>2, <1>3, <1>4, <1>5, <1>6, PlaceStep, Zenon

(* The steps inside one that touch no window. *)
LEMMA InsideStep ==
  ASSUME QInv, NEW t \in Pumpers,
         \/ PeekSeesQuit(t) \/ PeekTakesQuit(t) \/ GetTakesQuit(t) \/ NoQuit(t)
         \/ PumpNothing(t) \/ PopNothing(t)
  PROVE  QInv' /\ InOrder
<1>1. NoReq \in Request /\ NoReq.filter \in Hwnds \cup {AnyWindow}
  BY SMT, Z3 DEF NoReq, Request, AnyWindow
<1>2. PICK l \in Elsewhere, r \in {NoReq, req[t]} :
        /\ place[t] # "requeue" /\ place' = [place EXCEPT ![t] = l]
        /\ req' = [req EXCEPT ![t] = r]
        /\ quit' \in BOOLEAN /\ UNCHANGED <<tables, held, history>>
  <2>1. "idle" \in Elsewhere /\ "quit?" \in Elsewhere /\ "take" \in Elsewhere
        /\ "pump" \in Elsewhere /\ "pop" \in Elsewhere
    BY DEF Elsewhere
  <2>2. req = [req EXCEPT ![t] = req[t]] /\ quit \in BOOLEAN /\ FALSE \in BOOLEAN
    BY PumperIs, Zenon
  <2>3. CASE PeekSeesQuit(t)
    BY <2>1, <2>2, <2>3, Zenon DEF PeekSeesQuit, GoTo, Return
  <2>4. CASE PeekTakesQuit(t)
    BY <2>1, <2>2, <2>4, Zenon DEF PeekTakesQuit, GoTo, Return, history
  <2>5. CASE GetTakesQuit(t)
    BY <2>1, <2>2, <2>5, Zenon DEF GetTakesQuit, GoTo, Return, history
  <2>6. CASE NoQuit(t)
    BY <2>1, <2>2, <2>6, Zenon DEF NoQuit, GoTo
  <2>7. CASE PumpNothing(t)
    BY <2>1, <2>2, <2>7, Zenon DEF PumpNothing, GoTo
  <2>8. CASE PopNothing(t)
    BY <2>1, <2>2, <2>8, Zenon DEF PopNothing, GoTo, Return
  <2> QED
    BY <2>3, <2>4, <2>5, <2>6, <2>7, <2>8, Zenon
<1>3. r \in Request /\ r.filter \in Hwnds \cup {AnyWindow}
  BY <1>1, <1>2, PumperIs, Zenon
<1> QED
  BY <1>2, <1>3, PlaceStep, Zenon

(* PostMessageW, and an input event for a live window. *)
LEMMA PostStep ==
  ASSUME QInv, NEW h \in Hwnds, posted < MaxPosts, posted' = posted + 1,
         windows' = [windows EXCEPT ![h].queue = Append(@, posted + 1)],
         UNCHANGED <<classes, held, received, dropped, requeued>>
  PROVE  PlacesOK' /\ SortedOK' /\ WindowsAgreeWithClass' /\ InOrder
         /\ windows' \in Seq(Window) /\ Len(windows') = Len(windows) /\ Hwnds' = Hwnds
         /\ posted' \in 0..MaxPosts
<1>1. QueueTypeOK /\ PlacesOK /\ SortedOK /\ WindowsAgreeWithClass
  BY Zenon DEF QInv
<1>2. Numbered
  BY <1>1, TypesNumber, Zenon
<1>3. PICK m \in 1..MaxPosts : m = posted + 1
  BY <1>2, QueueAssumption, SMT, Z3 DEF Numbered
<1>4. m \in Nat /\ h \in Nat /\ posted' \in 0..MaxPosts
  BY <1>3, QueueAssumption, SMT, Z3 DEF Hwnds
<1> DEFINE w == [windows[h] EXCEPT !.queue = Append(windows[h].queue, m)]
<1>5. Pushed(h, m) /\ Became(h, w)
  BY <1>1, <1>3, PushedOf, Zenon
<1>6. w.proc = windows[h].proc /\ w.class = windows[h].class
  <2>1. windows[h] \in Window
    BY <1>1, QueueOf, Zenon
  <2> QED
    BY <2>1, SMT, Z3 DEF Window
<1> HIDE DEF w
<1>7. windows' \in Seq(Window) /\ Len(windows') = Len(windows) /\ Hwnds' = Hwnds
  BY <1>5, Zenon DEF Became
<1>8. PlacesOK'
  BY <1>1, <1>2, <1>3, <1>4, <1>5, PlacesPost, Zenon
<1>9. SortedOK'
  BY <1>1, <1>2, <1>3, <1>4, <1>5, <1>7, SortedPush, Zenon
<1>10. WindowsAgreeWithClass'
  BY <1>1, <1>5, <1>6, AgreeAfter, Zenon
<1> QED
  BY <1>4, <1>7, <1>8, <1>9, <1>10, NoneHandedOut, Zenon

LEMMA PostMessageStep ==
  ASSUME QInv, NEW t, NEW h \in Hwnds, PostMessageW(t, h)
  PROVE  QInv' /\ InOrder
<1>1. PlacesOK' /\ SortedOK' /\ WindowsAgreeWithClass' /\ InOrder
      /\ windows' \in Seq(Window) /\ Len(windows') = Len(windows) /\ Hwnds' = Hwnds
      /\ posted' \in 0..MaxPosts
  BY PostStep, Zenon DEF PostMessageW
<1>2. UNCHANGED <<classes, quit, place, req, held, received, dropped, quits_posted, requeued>>
  BY Zenon DEF PostMessageW
<1>3. QueueTypeOK'
  BY <1>1, <1>2, Zenon DEF QInv, QueueTypeOK
<1>4. PumpersOK'
  BY <1>1, <1>2, Zenon DEF QInv, PumpersOK
<1> QED
  BY <1>1, <1>3, <1>4, Zenon DEF QInv

LEMMA PumpInputStep ==
  ASSUME QInv, NEW t \in Pumpers, PumpInput(t)
  PROVE  QInv' /\ InOrder
<1>1. /\ place[t] # "requeue" /\ "pop" \in Elsewhere /\ place' = [place EXCEPT ![t] = "pop"]
      /\ UNCHANGED <<classes, quit, req, held, received, dropped, quits_posted, requeued>>
  <2>1. place[t] = "pump"
    BY Zenon DEF PumpInput
  <2>2. place[t] # "requeue"
    BY <2>1, SMT, Z3
  <2> QED
    BY <2>2, Zenon DEF PumpInput, GoTo, Elsewhere
<1>2. CASE UNCHANGED <<posted, windows>>
  <2>1. req' = [req EXCEPT ![t] = req[t]] /\ quit' \in BOOLEAN /\ req[t] \in Request
        /\ req[t].filter \in Hwnds \cup {AnyWindow}
    BY <1>1, PumperIs, Zenon
  <2>2. UNCHANGED <<tables, held, history>>
    BY <1>1, <1>2, Zenon DEF tables, history
  <2>3. PICK r \in Request : r = req[t]
    BY <2>1, Zenon
  <2> QED
    BY <1>1, <2>1, <2>2, <2>3, PlaceStep, Zenon
<1>3. CASE ~UNCHANGED <<posted, windows>>
  <2>1. /\ req[t].filter # AnyWindow /\ posted < MaxPosts /\ posted' = posted + 1
        /\ windows' = [windows EXCEPT ![req[t].filter].queue = Append(@, posted + 1)]
    BY <1>3, Zenon DEF PumpInput
  <2>2. PICK h \in Hwnds : h = req[t].filter
    BY <2>1, PumperIs, Zenon
  <2>3. PlacesOK' /\ SortedOK' /\ WindowsAgreeWithClass' /\ InOrder
        /\ windows' \in Seq(Window) /\ Len(windows') = Len(windows) /\ Hwnds' = Hwnds
        /\ posted' \in 0..MaxPosts
    BY <1>1, <2>1, <2>2, PostStep, Zenon
  <2>4. place' \in [Pumpers -> {"idle", "quit?", "take", "pump", "pop", "requeue"}]
    <3>1. place \in [Pumpers -> {"idle", "quit?", "take", "pump", "pop", "requeue"}]
      BY Zenon DEF QInv, QueueTypeOK
    <3> QED
      BY <1>1, <3>1, SMT, Z3
  <2>5. QueueTypeOK'
    BY <1>1, <2>3, <2>4, Zenon DEF QInv, QueueTypeOK
  <2>6. \A u \in Pumpers : place'[u] = "requeue" <=> place[u] = "requeue"
    <3>1. place \in [Pumpers -> {"idle", "quit?", "take", "pump", "pop", "requeue"}]
      BY Zenon DEF QInv, QueueTypeOK
    <3> QED
      BY <1>1, <3>1, SMT, Z3
  <2>7. PumpersOK'
    BY <1>1, <2>3, <2>6, Zenon DEF QInv, PumpersOK
  <2> QED
    BY <2>3, <2>5, <2>7, Zenon DEF QInv
<1> QED
  BY <1>2, <1>3, SMT, Z3

(* RegisterClassExW and PostQuitMessage: the windows stay as they are, and a *)
(* class that has a procedure keeps it.                                      *)
LEMMA GlobalStep ==
  ASSUME QInv, classes' \in [Classes -> Procs \cup {NoProc}],
         \A c \in Classes : classes[c] # NoProc => classes'[c] = classes[c],
         quit' \in BOOLEAN, quits_posted' \in 0..MaxQuits,
         UNCHANGED <<windows, place, req, held, posted, received, dropped, requeued>>
  PROVE  QInv' /\ InOrder
<1>1. QueueTypeOK'
  BY Zenon DEF QInv, QueueTypeOK
<1>2. Hwnds' = Hwnds /\ \A x, g, i \in Nat : Sits(x, g, i)' <=> Sits(x, g, i)
  BY Zenon DEF Hwnds, Sits
<1>3. PlacesOK'
  BY <1>2, PlacesStay, Zenon DEF QInv, Still
<1>4. SortedOK'
  <2>1. \A g \in Hwnds' : g \in Nat
    BY <1>2, SMT, Z3 DEF Hwnds
  <2> QED
    BY <1>2, <2>1, SortedLess, Zenon DEF QInv
<1>5. PumpersOK'
  BY <1>2, Zenon DEF QInv, PumpersOK
<1>6. WindowsAgreeWithClass'
  <2> SUFFICES ASSUME NEW g \in Hwnds
               PROVE  windows[g].proc \in {NoProc, classes'[windows[g].class]}
    BY <1>2, Zenon DEF WindowsAgreeWithClass
  <2>1. windows[g] \in Window
    BY QueueOf, Zenon DEF QInv
  <2>2. windows[g].class \in Classes
    BY <2>1, SMT, Z3 DEF Window
  <2> QED
    BY <2>2, Zenon DEF QInv, WindowsAgreeWithClass
<1> QED
  BY <1>1, <1>3, <1>4, <1>5, <1>6, NoneHandedOut, Zenon DEF QInv

LEMMA RegisterStep ==
  ASSUME QInv, NEW t, NEW c \in Classes, NEW p \in Procs, RegisterClassExW(t, c, p)
  PROVE  QInv' /\ InOrder
<1>1. classes \in [Classes -> Procs \cup {NoProc}] /\ quit \in BOOLEAN /\ quits_posted \in 0..MaxQuits
  BY Zenon DEF QInv, QueueTypeOK
<1>2. classes' \in [Classes -> Procs \cup {NoProc}]
      /\ \A b \in Classes : classes[b] # NoProc => classes'[b] = classes[b]
  BY <1>1, Zenon DEF RegisterClassExW
<1>3. /\ quit' \in BOOLEAN /\ quits_posted' \in 0..MaxQuits
      /\ UNCHANGED <<windows, place, req, held, posted, received, dropped, requeued>>
  BY <1>1, Zenon DEF RegisterClassExW, history
<1> QED
  BY <1>2, <1>3, GlobalStep, Zenon

LEMMA QuitStep ==
  ASSUME QInv, NEW t, PostQuitMessage(t)
  PROVE  QInv' /\ InOrder
<1>1. classes \in [Classes -> Procs \cup {NoProc}] /\ quits_posted \in 0..MaxQuits
  BY Zenon DEF QInv, QueueTypeOK
<1>2. classes' = classes /\ quit' \in BOOLEAN
      /\ UNCHANGED <<windows, place, req, held, posted, received, dropped, requeued>>
  BY Zenon DEF PostQuitMessage, tables
<1>3. quits_posted' \in 0..MaxQuits
  BY <1>1, QueueAssumption, SMT, Z3 DEF PostQuitMessage
<1> QED
  BY <1>1, <1>2, <1>3, GlobalStep, Zenon

LEMMA CreateStep ==
  ASSUME QInv, NEW t, NEW c \in Classes, CreateWindowExW(t, c)
  PROVE  QInv' /\ InOrder
<1>0. QueueTypeOK /\ PlacesOK /\ PumpersOK /\ SortedOK /\ WindowsAgreeWithClass
  BY Zenon DEF QInv
<1>1. PICK w \in Window : w = [live |-> TRUE, class |-> c, proc |-> classes[c], queue |-> << >>]
  <2>1. classes[c] \in Procs \cup {NoProc} /\ TRUE \in BOOLEAN
    BY <1>0, Zenon DEF QueueTypeOK
  <2>2. << >> \in Seq(1..MaxPosts)
    BY SMT, Z3
  <2> QED
    BY <2>1, <2>2, Zenon DEF Window
<1>2. w.queue = << >> /\ w.proc = classes[c] /\ w.class = c
  BY <1>1, SMT, Z3
<1>3. windows' = Append(windows, w) /\ Len(windows) < MaxWindows
      /\ UNCHANGED <<classes, quit, place, req, held, posted, received, dropped, quits_posted, requeued>>
  BY <1>1, Zenon DEF CreateWindowExW, history
<1>4. /\ \A x, g, i \in Nat : Sits(x, g, i)' <=> Sits(x, g, i)
      /\ windows' \in Seq(Window) /\ Len(windows') = Len(windows) + 1 /\ Len(windows) \in Nat
      /\ \A g \in Hwnds : g \in Hwnds' /\ windows'[g] = windows[g]
      /\ \A g \in Hwnds' : g \in Hwnds \/ (g = Len(windows) + 1 /\ windows'[g] = w)
  BY <1>0, <1>2, <1>3, CreatedOf, Zenon
<1>5. QueueTypeOK'
  BY <1>0, <1>3, <1>4, Zenon DEF QueueTypeOK
<1>6. PlacesOK'
  BY <1>0, <1>3, <1>4, PlacesStay, Zenon DEF Still
<1>7. SortedOK'
  <2>1. \A g \in Hwnds' : g \in Nat
    BY <1>4, SMT, Z3 DEF Hwnds
  <2> QED
    BY <1>0, <1>3, <1>4, <2>1, SortedLess, Zenon
<1>8. PumpersOK'
  <2>1. Len(windows') <= MaxWindows
    BY <1>3, <1>4, QueueAssumption, SMT, Z3
  <2> QED
    BY <1>0, <1>3, <1>4, <2>1, Zenon DEF PumpersOK
<1>9. WindowsAgreeWithClass'
  BY <1>0, <1>2, <1>3, <1>4, Zenon DEF WindowsAgreeWithClass
<1> QED
  BY <1>3, <1>5, <1>6, <1>7, <1>8, <1>9, NoneHandedOut, Zenon DEF QInv

LEMMA DestroyStep ==
  ASSUME QInv, NEW t, NEW h \in Hwnds, DestroyWindow(t, h)
  PROVE  QInv' /\ InOrder
<1>0. QueueTypeOK /\ PlacesOK /\ PumpersOK /\ SortedOK /\ WindowsAgreeWithClass
  BY Zenon DEF QInv
<1> DEFINE w == [windows[h] EXCEPT !.live = FALSE, !.queue = << >>]
<1>1. Emptied(h) /\ Became(h, w)
  BY <1>0, EmptiedOf, Zenon DEF DestroyWindow
<1>2. w.proc = windows[h].proc /\ w.class = windows[h].class
  <2>1. windows[h] \in Window
    BY <1>0, QueueOf, Zenon
  <2> QED
    BY <2>1, SMT, Z3 DEF Window
<1> HIDE DEF w
<1>3. dropped' = dropped \cup Ids(windows[h].queue)
      /\ UNCHANGED <<classes, quit, place, req, held, posted, received, quits_posted, requeued>>
  BY Zenon DEF DestroyWindow
<1>4. h \in Nat /\ windows[h].queue \in Seq(1..MaxPosts) /\ Len(windows[h].queue) \in Nat
  BY <1>0, QueueOf, Zenon
<1>5. \A x : x \in Ids(windows[h].queue) <=> \E i \in Nat : Sits(x, h, i)
  <2>1. \A i \in 1..Len(windows[h].queue) : i \in Nat
    BY <1>4, SMT, Z3
  <2> QED
    BY <2>1, Zenon DEF Ids, Sits
<1>6. \A x \in Ids(windows[h].queue) : x \in 1..MaxPosts
  <2>1. \A i \in 1..Len(windows[h].queue) : windows[h].queue[i] \in 1..MaxPosts
    BY <1>4, ElementOf, Zenon
  <2> QED
    BY <2>1, Zenon DEF Ids
<1>7. dropped' \subseteq 1..MaxPosts /\ \A x \in dropped' : x \in Nat
  <2>1. dropped' \subseteq 1..MaxPosts
    BY <1>0, <1>3, <1>6, Zenon DEF QueueTypeOK
  <2>2. \A x \in 1..MaxPosts : x \in Nat
    BY QueueAssumption, SMT, Z3
  <2> QED
    BY <2>1, <2>2, Zenon
<1>8. windows' \in Seq(Window) /\ Len(windows') = Len(windows) /\ Hwnds' = Hwnds
  BY <1>1, Zenon DEF Became
<1>9. QueueTypeOK'
  BY <1>0, <1>3, <1>7, <1>8, Zenon DEF QueueTypeOK
<1>10. PlacesOK'
  <2>1. Numbered
    BY <1>0, TypesNumber, Zenon
  <2>2. \A x \in Nat : x \in dropped' <=> x \in dropped \/ \E i \in Nat : Sits(x, h, i)
    BY <1>3, <1>5, Zenon
  <2> QED
    BY <1>0, <1>1, <1>3, <1>4, <1>7, <2>1, <2>2, PlacesDestroy, Zenon
<1>11. SortedOK'
  <2>1. \A g \in Hwnds' : g \in Nat
    BY <1>8, SMT, Z3 DEF Hwnds
  <2>2. \A x, g, i \in Nat : Sits(x, g, i)' => Sits(x, g, i)
    BY <1>1, Zenon DEF Emptied
  <2> QED
    BY <1>0, <1>3, <2>1, <2>2, SortedLess, Zenon
<1>12. PumpersOK'
  BY <1>0, <1>3, <1>8, Zenon DEF PumpersOK
<1>13. WindowsAgreeWithClass'
  BY <1>0, <1>1, <1>2, <1>3, AgreeAfter, Zenon
<1> QED
  BY <1>3, <1>9, <1>10, <1>11, <1>12, <1>13, NoneHandedOut, Zenon DEF QInv

(* pop_message: what is popped is the oldest message of its queue. *)
LEMMA PopStep ==
  ASSUME QInv, NEW t \in Pumpers, Pop(t)
  PROVE  QInv' /\ InOrder
<1>0. QueueTypeOK /\ PlacesOK /\ PumpersOK /\ SortedOK /\ WindowsAgreeWithClass
  BY Zenon DEF QInv
<1>1. PICK h \in Hwnds :
        /\ windows[h].queue # << >>
        /\ windows' = [windows EXCEPT ![h].queue = Tail(@)]
        /\ IF req[t].remove
             THEN /\ received' = received \cup {Head(windows[h].queue)}
                  /\ Return(t) /\ UNCHANGED <<held, requeued>>
             ELSE /\ held' = [held EXCEPT ![t] = Head(windows[h].queue)]
                  /\ req' = [req EXCEPT ![t].filter = h]
                  /\ requeued' = requeued \cup {h}
                  /\ GoTo(t, "requeue") /\ UNCHANGED received
  BY Zenon DEF Pop, Candidates
<1>2. place[t] = "pop" /\ UNCHANGED <<classes, quit, posted, dropped, quits_posted>>
  BY Zenon DEF Pop
<1> DEFINE w == [windows[h] EXCEPT !.queue = Tail(windows[h].queue)]
<1>3. Popped(h) /\ Sits(Head(windows[h].queue), h, 1) /\ Became(h, w)
  BY <1>0, <1>1, PoppedOf, Zenon
<1>4. w.proc = windows[h].proc /\ w.class = windows[h].class
  <2>1. windows[h] \in Window
    BY <1>0, QueueOf, Zenon
  <2> QED
    BY <2>1, SMT, Z3 DEF Window
<1> HIDE DEF w
<1>5. windows' \in Seq(Window) /\ Len(windows') = Len(windows) /\ Hwnds' = Hwnds
  BY <1>3, Zenon DEF Became
<1>6. Numbered /\ h \in Nat /\ 1 \in Nat
  <2>1. h \in Nat /\ 1 \in Nat
    BY SMT, Z3 DEF Hwnds
  <2> QED
    BY <1>0, <2>1, TypesNumber, Zenon
<1>7. PICK m \in 1..MaxPosts : m = Head(windows[h].queue)
  <2>1. windows[h].queue \in Seq(1..MaxPosts)
    BY <1>0, QueueOf, Zenon
  <2>2. Head(windows[h].queue) \in 1..MaxPosts
    BY <1>1, <2>1, ElementOf, Zenon
  <2> QED
    BY <2>2, Zenon
<1>8. m \in Nat /\ m # 0 /\ m \in 0..MaxPosts /\ Sits(m, h, 1)
  <2>1. m \in Nat /\ m # 0 /\ m \in 0..MaxPosts
    BY QueueAssumption, SMT, Z3
  <2> QED
    BY <1>3, <1>7, <2>1, Zenon
<1>9. WindowsAgreeWithClass'
  BY <1>0, <1>2, <1>3, <1>4, AgreeAfter, Zenon
<1>10. /\ place \in [Pumpers -> {"idle", "quit?", "take", "pump", "pop", "requeue"}]
       /\ req \in [Pumpers -> Request] /\ held \in [Pumpers -> 0..MaxPosts] /\ held[t] = 0
  <2>1. place[t] # "requeue"
    BY <1>2, SMT, Z3
  <2> QED
    BY <1>0, <2>1, PumperIs, Zenon DEF QueueTypeOK, Request
<1>11. CASE req[t].remove
  <2>1. /\ received' = received \cup {m} /\ held' = held /\ requeued' = requeued
        /\ place' = [place EXCEPT ![t] = "idle"] /\ req' = [req EXCEPT ![t] = NoReq]
    BY <1>1, <1>7, <1>11, Zenon DEF Return, GoTo
  <2>2. NoReq \in Request /\ NoReq.filter = AnyWindow
    BY SMT, Z3 DEF NoReq, Request, AnyWindow
  <2>3. /\ place' \in [Pumpers -> {"idle", "quit?", "take", "pump", "pop", "requeue"}]
        /\ req' \in [Pumpers -> Request] /\ place'[t] = "idle" /\ req'[t] = NoReq
        /\ \A u \in Pumpers : u # t => place'[u] = place[u] /\ req'[u] = req[u]
    BY <1>10, <2>1, <2>2, Zenon
  <2>4. QueueTypeOK'
    BY <1>0, <1>2, <1>5, <2>1, <2>3, Zenon DEF QueueTypeOK, Request
  <2>5. PlacesOK'
    BY <1>0, <1>2, <1>3, <1>6, <1>8, <2>1, PlacesReceive, ZenonT(40)
  <2>6. SortedOK'
    BY <1>0, <1>3, <1>5, <2>1, SortedPop, Zenon
  <2>7. PumpersOK'
    <3>1. "idle" # "requeue"
      BY SMT, Z3
    <3>2. ASSUME NEW u \in Pumpers
          PROVE  /\ held'[u] # 0 <=> place'[u] = "requeue"
                 /\ req'[u].filter \in Hwnds' \cup {AnyWindow}
                 /\ place'[u] = "requeue" => req'[u].filter \in requeued'
      <4>1. CASE u = t
        BY <1>5, <1>10, <2>1, <2>2, <2>3, <3>1, <4>1, Zenon
      <4>2. CASE u # t
        BY <1>0, <1>5, <2>1, <2>3, <4>2, Zenon DEF PumpersOK
      <4> QED
        BY <4>1, <4>2, SMT, Z3
    <3> QED
      BY <1>0, <1>5, <2>1, <3>2, Zenon DEF PumpersOK
  <2>8. InOrder
    <3> SUFFICES ASSUME NEW g \in Hwnds \ requeued, m \in Ids(windows[g].queue),
                        NEW n \in Ids(windows[g].queue)
                 PROVE  m <= n
      BY <2>1, Zenon DEF InOrder
    <3>1. PICK i \in 1..Len(windows[g].queue) : m = windows[g].queue[i]
      BY Zenon DEF Ids
    <3>2. PICK j \in 1..Len(windows[g].queue) : n = windows[g].queue[j]
      BY Zenon DEF Ids
    <3>3. g \in Nat /\ i \in Nat /\ j \in Nat /\ j >= 1 /\ windows[g].queue \in Seq(1..MaxPosts)
      <4>1. g \in Nat /\ Len(windows[g].queue) \in Nat /\ windows[g].queue \in Seq(1..MaxPosts)
        BY <1>0, QueueOf, Zenon
      <4> QED
        BY <4>1, SMT, Z3
    <3>4. n \in Nat
      <4>1. n \in 1..MaxPosts
        BY <3>2, <3>3, ElementOf, Zenon
      <4> QED
        BY <4>1, SMT, Z3
    <3>5. Sits(m, g, i) /\ Sits(n, g, j)
      BY <3>1, <3>2, Zenon DEF Sits
    <3>6. g = h /\ i = 1
      BY <1>0, <1>6, <1>8, <3>3, <3>5, ZenonT(40) DEF PlacesOK, OnePlace
    <3>7. CASE j = 1
      BY <1>8, <3>1, <3>2, <3>4, <3>6, <3>7, SMT, Z3
    <3>8. CASE 1 < j
      <4>1. m < n
        BY <1>0, <1>6, <1>8, <3>3, <3>4, <3>5, <3>6, <3>8, Zenon DEF SortedOK
      <4> QED
        BY <1>8, <3>4, <4>1, SMT, Z3
    <3> QED
      BY <3>3, <3>7, <3>8, SMT, Z3
  <2> QED
    BY <1>9, <2>4, <2>5, <2>6, <2>7, <2>8, Zenon DEF QInv
<1>12. CASE ~req[t].remove
  <2>1. /\ received' = received /\ held' = [held EXCEPT ![t] = m]
        /\ requeued' = requeued \cup {h}
        /\ place' = [place EXCEPT ![t] = "requeue"] /\ req' = [req EXCEPT ![t].filter = h]
    BY <1>1, <1>7, <1>12, Zenon DEF GoTo
  <2>2. PICK r \in Request : r = [req[t] EXCEPT !.filter = h]
    <3>1. req[t] \in Request
      BY <1>10, Zenon
    <3>2. [req[t] EXCEPT !.filter = h] \in Request
      BY <1>6, <3>1, SMT, Z3 DEF Request
    <3> QED
      BY <3>2, Zenon
  <2>3. r.filter = h
    <3>1. req[t] \in Request
      BY <1>10, Zenon
    <3> QED
      BY <2>2, <3>1, SMT, Z3 DEF Request
  <2>4. req' = [req EXCEPT ![t] = r]
    BY <2>1, <2>2, Zenon
  <2>5. /\ place' \in [Pumpers -> {"idle", "quit?", "take", "pump", "pop", "requeue"}]
        /\ req' \in [Pumpers -> Request] /\ held' \in [Pumpers -> 0..MaxPosts]
        /\ place'[t] = "requeue" /\ req'[t] = r /\ held'[t] = m
        /\ \A u \in Pumpers : u # t => place'[u] = place[u] /\ req'[u] = req[u] /\ held'[u] = held[u]
    BY <1>8, <1>10, <2>1, <2>4, Zenon
  <2>6. Len(windows) <= MaxWindows /\ requeued' \subseteq Hwnds
    BY <1>0, <2>1, Zenon DEF PumpersOK
  <2>7. requeued' \subseteq 1..MaxWindows
    <3>1. \A g \in Hwnds : g \in 1..MaxWindows
      BY <2>6, QueueAssumption, SMT, Z3 DEF Hwnds
    <3> QED
      BY <2>6, <3>1, Zenon
  <2>8. QueueTypeOK'
    BY <1>0, <1>2, <1>5, <2>1, <2>5, <2>7, Zenon DEF QueueTypeOK, Request
  <2>9. PlacesOK'
    BY <1>0, <1>2, <1>3, <1>6, <1>8, <1>10, <2>1, PlacesPeek, Zenon
  <2>10. SortedOK'
    BY <1>0, <1>3, <1>5, <2>1, SortedPop, Zenon
  <2>11. PumpersOK'
    <3>1. ASSUME NEW u \in Pumpers
          PROVE  /\ held'[u] # 0 <=> place'[u] = "requeue"
                 /\ req'[u].filter \in Hwnds' \cup {AnyWindow}
                 /\ place'[u] = "requeue" => req'[u].filter \in requeued'
      <4>1. CASE u = t
        <5>1. held'[u] = m /\ place'[u] = "requeue" /\ req'[u].filter = h
          BY <2>3, <2>5, <4>1, Zenon
        <5>2. h \in requeued' /\ h \in Hwnds'
          BY <1>5, <2>1, Zenon
        <5> QED
          BY <1>8, <5>1, <5>2, Zenon
      <4>2. CASE u # t
        BY <1>0, <1>5, <2>1, <2>5, <4>2, Zenon DEF PumpersOK
      <4> QED
        BY <4>1, <4>2, SMT, Z3
    <3> QED
      BY <1>5, <2>6, <3>1, Zenon DEF PumpersOK
  <2> QED
    BY <1>9, <2>1, <2>8, <2>9, <2>10, <2>11, NoneHandedOut, Zenon DEF QInv
<1> QED
  BY <1>11, <1>12, SMT, Z3

(* peek_message_inline, the second half. *)
LEMMA RequeueStep ==
  ASSUME QInv, NEW t \in Pumpers, Requeue(t)
  PROVE  QInv' /\ InOrder
<1>0. QueueTypeOK /\ PlacesOK /\ PumpersOK /\ SortedOK /\ WindowsAgreeWithClass
  BY Zenon DEF QInv
<1>1. /\ place[t] = "requeue" /\ held' = [held EXCEPT ![t] = 0]
      /\ place' = [place EXCEPT ![t] = "idle"] /\ req' = [req EXCEPT ![t] = NoReq]
      /\ UNCHANGED <<classes, quit, posted, received, quits_posted, requeued>>
  BY Zenon DEF Requeue, Return, GoTo
<1>2. PICK h \in Hwnds : h = req[t].filter /\ h \in requeued
  BY <1>0, <1>1, Zenon DEF PumpersOK
<1>3. /\ place \in [Pumpers -> {"idle", "quit?", "take", "pump", "pop", "requeue"}]
      /\ req \in [Pumpers -> Request] /\ held \in [Pumpers -> 0..MaxPosts] /\ held[t] # 0
  BY <1>0, <1>1, PumperIs, Zenon DEF QueueTypeOK, Request
<1>4. PICK m \in 1..MaxPosts : m = held[t]
  <2>1. held[t] \in 0..MaxPosts
    BY <1>3, Zenon
  <2>2. held[t] \in 1..MaxPosts
    BY <1>3, <2>1, QueueAssumption, SMT, Z3
  <2> QED
    BY <2>2, Zenon
<1>5. m \in Nat /\ m # 0 /\ h \in Nat /\ 0 \in 0..MaxPosts
  BY QueueAssumption, SMT, Z3 DEF Hwnds
<1>6. Numbered
  BY <1>0, TypesNumber, Zenon
<1>7. NoReq \in Request /\ NoReq.filter = AnyWindow /\ "idle" # "requeue"
  BY SMT, Z3 DEF NoReq, Request, AnyWindow
<1>8. /\ place' \in [Pumpers -> {"idle", "quit?", "take", "pump", "pop", "requeue"}]
      /\ req' \in [Pumpers -> Request] /\ held' \in [Pumpers -> 0..MaxPosts]
      /\ place'[t] = "idle" /\ req'[t] = NoReq /\ held'[t] = 0
      /\ \A u \in Pumpers : u # t => place'[u] = place[u] /\ req'[u] = req[u] /\ held'[u] = held[u]
  BY <1>1, <1>3, <1>5, <1>7, Zenon
<1>9. ASSUME Hwnds' = Hwnds, Len(windows') = Len(windows) PROVE PumpersOK'
  <2>1. ASSUME NEW u \in Pumpers
        PROVE  /\ held'[u] # 0 <=> place'[u] = "requeue"
               /\ req'[u].filter \in Hwnds' \cup {AnyWindow}
               /\ place'[u] = "requeue" => req'[u].filter \in requeued'
    <3>1. CASE u = t
      BY <1>7, <1>8, <3>1, Zenon
    <3>2. CASE u # t
      BY <1>0, <1>1, <1>8, <1>9, <3>2, Zenon DEF PumpersOK
    <3> QED
      BY <3>1, <3>2
  <2> QED
    BY <1>0, <1>1, <1>9, <2>1, Zenon DEF PumpersOK
<1>10. CASE windows[h].live
  <2>1. windows' = [windows EXCEPT ![h].queue = Append(@, m)] /\ dropped' = dropped
    BY <1>2, <1>4, <1>10, Zenon DEF Requeue
  <2> DEFINE w == [windows[h] EXCEPT !.queue = Append(windows[h].queue, m)]
  <2>2. Pushed(h, m) /\ Became(h, w)
    BY <1>0, <2>1, PushedOf, Zenon
  <2>3. w.proc = windows[h].proc /\ w.class = windows[h].class
    <3>1. windows[h] \in Window
      BY <1>0, QueueOf, Zenon
    <3> QED
      BY <3>1, SMT, Z3 DEF Window
  <2> HIDE DEF w
  <2>4. windows' \in Seq(Window) /\ Len(windows') = Len(windows) /\ Hwnds' = Hwnds
    BY <2>2, Zenon DEF Became
  <2>5. QueueTypeOK'
    BY <1>0, <1>1, <1>8, <2>1, <2>4, Zenon DEF QueueTypeOK, Request
  <2>6. PlacesOK'
    BY <1>0, <1>1, <1>4, <1>5, <1>6, <2>1, <2>2, PlacesPutBack, Zenon
  <2>7. SortedOK'
    BY <1>0, <1>1, <1>2, <1>5, <1>6, <2>2, <2>4, SortedPush, Zenon
  <2>8. WindowsAgreeWithClass'
    BY <1>0, <1>1, <2>2, <2>3, AgreeAfter, Zenon
  <2> QED
    BY <1>1, <1>9, <2>4, <2>5, <2>6, <2>7, <2>8, NoneHandedOut, Zenon DEF QInv
<1>11. CASE ~windows[h].live
  <2>1. dropped' = dropped \cup {m} /\ windows' = windows
    BY <1>2, <1>4, <1>11, Zenon DEF Requeue
  <2>2. Hwnds' = Hwnds /\ \A x, g, i \in Nat : Sits(x, g, i)' <=> Sits(x, g, i)
    BY <2>1, Zenon DEF Hwnds, Sits
  <2>3. QueueTypeOK'
    BY <1>0, <1>1, <1>8, <2>1, Zenon DEF QueueTypeOK, Request
  <2>4. PlacesOK'
    BY <1>0, <1>1, <1>4, <1>5, <1>6, <2>1, <2>2, PlacesDrop, Zenon
  <2>5. SortedOK'
    <3>1. \A g \in Hwnds' : g \in Nat
      BY <2>2, SMT, Z3 DEF Hwnds
    <3> QED
      BY <1>0, <1>1, <2>2, <3>1, SortedLess, Zenon
  <2>6. WindowsAgreeWithClass'
    BY <1>0, <1>1, <2>1, <2>2, Zenon DEF WindowsAgreeWithClass
  <2>7. PumpersOK'
    BY <1>9, <2>1, <2>2, Zenon
  <2> QED
    BY <1>1, <2>3, <2>4, <2>5, <2>6, <2>7, NoneHandedOut, Zenon DEF QInv
<1> QED
  BY <1>10, <1>11, SMT, Z3

(* Before any call there is no class, no window and no message. *)
LEMMA QueueInitHolds == QueueInit => QInv
<1> SUFFICES ASSUME QueueInit PROVE QInv
  OBVIOUS
<1>1. windows = << >> /\ posted = 0 /\ received = {} /\ dropped = {} /\ requeued = {}
  BY Zenon DEF QueueInit
<1>2. \A h : h \notin Hwnds
  BY <1>1, SMT, Z3 DEF Hwnds
<1>3. Len(windows) = 0 /\ windows \in Seq(Window)
  BY <1>1, SMT, Z3
<1>4. /\ place = [t \in Pumpers |-> "idle"] /\ req = [t \in Pumpers |-> NoReq]
      /\ held = [t \in Pumpers |-> 0] /\ classes = [c \in Classes |-> NoProc]
  BY Zenon DEF QueueInit
<1>5. NoReq \in Request /\ NoReq.filter = AnyWindow /\ "idle" # "requeue"
  BY SMT, Z3 DEF NoReq, Request, AnyWindow
<1>6. QueueTypeOK
  <2>1. 0 \in 0..MaxPosts /\ 0 \in 0..MaxQuits
    BY QueueAssumption, SMT, Z3
  <2>2. posted \in 0..MaxPosts /\ quits_posted \in 0..MaxQuits /\ quit \in BOOLEAN
    BY <1>1, <2>1, Zenon DEF QueueInit
  <2> QED
    BY <1>1, <1>3, <1>4, <1>5, <2>1, <2>2, Zenon DEF QueueTypeOK, Request
<1>7. PlacesOK
  <2>1. \A m : m \notin 1..posted
    BY <1>1, SMT, Z3
  <2>2. \A t \in Pumpers : held[t] = 0
    BY <1>4, Zenon
  <2> QED
    BY <1>1, <1>2, <2>1, <2>2, Zenon DEF PlacesOK, OnePlace, QueuedOnly, HeldOnly, GoneOnly, NoneLost, Sits
<1>8. PumpersOK
  <2>1. Len(windows) <= MaxWindows
    BY <1>3, QueueAssumption, SMT, Z3
  <2> QED
    BY <1>1, <1>4, <1>5, <2>1, Zenon DEF PumpersOK
<1> QED
  BY <1>2, <1>6, <1>7, <1>8, Zenon DEF QInv, SortedOK, WindowsAgreeWithClass

(* Every step of a guest thread, inside a pumping thunk or outside, keeps   *)
(* the invariant and hands messages out in the order of their queue.        *)
LEMMA QueueNextHolds == QInv /\ [QueueNext]_queue_vars => QInv' /\ [InOrder]_queue_vars
<1> SUFFICES ASSUME QInv, [QueueNext]_queue_vars PROVE QInv' /\ [InOrder]_queue_vars
  OBVIOUS
<1>1. CASE QueueNext
  <2>1. ASSUME NEW t \in Callers, NEW c \in Classes, CreateWindowExW(t, c)
        PROVE  QInv' /\ InOrder
    BY <2>1, CreateStep, SMT, Z3
  <2>2. ASSUME NEW t \in Callers, NEW c \in Classes, NEW p \in Procs, RegisterClassExW(t, c, p)
        PROVE  QInv' /\ InOrder
    BY <2>2, RegisterStep, SMT, Z3
  <2>3. ASSUME NEW t \in Callers, NEW h \in Hwnds, DestroyWindow(t, h)
        PROVE  QInv' /\ InOrder
    BY <2>3, DestroyStep, SMT, Z3
  <2>4. ASSUME NEW t \in Callers, NEW h \in Hwnds, PostMessageW(t, h)
        PROVE  QInv' /\ InOrder
    BY <2>4, PostMessageStep, SMT, Z3
  <2>5. ASSUME NEW t \in Callers, PostQuitMessage(t) PROVE QInv' /\ InOrder
    BY <2>5, QuitStep, SMT, Z3
  <2>6. ASSUME NEW t \in Pumpers, NEW f \in Hwnds \cup {AnyWindow},
               GetMessageW(t, f) \/ \E r \in Removes : PeekMessageW(t, f, r)
        PROVE  QInv' /\ InOrder
    BY <2>6, EnterStep, SMT, Z3
  <2>7. ASSUME NEW t \in Pumpers,
               \/ PeekSeesQuit(t) \/ PeekTakesQuit(t) \/ GetTakesQuit(t) \/ NoQuit(t)
               \/ PumpNothing(t) \/ PopNothing(t)
        PROVE  QInv' /\ InOrder
    BY <2>7, InsideStep, SMT, Z3
  <2>8. ASSUME NEW t \in Pumpers, PumpInput(t) PROVE QInv' /\ InOrder
    BY <2>8, PumpInputStep, SMT, Z3
  <2>9. ASSUME NEW t \in Pumpers, Pop(t) PROVE QInv' /\ InOrder
    BY <2>9, PopStep, SMT, Z3
  <2>10. ASSUME NEW t \in Pumpers, Requeue(t) PROVE QInv' /\ InOrder
    BY <2>10, RequeueStep
  <2> QED
    BY <1>1, <2>1, <2>2, <2>3, <2>4, <2>5, <2>6, <2>7, <2>8, <2>9, <2>10, Zenon
       DEF QueueNext, InPump
<1>2. CASE UNCHANGED queue_vars
  <2>1. UNCHANGED <<classes, windows, quit, place, req, held, posted, received, dropped,
                    quits_posted, requeued>>
    BY <1>2, Zenon DEF queue_vars
  <2>2. Hwnds' = Hwnds /\ \A m, h, i : Sits(m, h, i)' <=> Sits(m, h, i)
    BY <2>1, Zenon DEF Hwnds, Sits
  <2>3. QueueTypeOK' /\ PumpersOK' /\ WindowsAgreeWithClass'
    BY <2>1, <2>2, ZenonT(40) DEF QInv, QueueTypeOK, PumpersOK, WindowsAgreeWithClass
  <2>4. PlacesOK'
    <3>1. QueueTypeOK /\ PlacesOK
      BY Zenon DEF QInv
    <3> QED
      BY <2>1, <2>2, <3>1, SMT, Z3 DEF PlacesOK, OnePlace, QueuedOnly, HeldOnly, GoneOnly, NoneLost
  <2>5. SortedOK'
    <3>1. SortedOK /\ \A g \in Hwnds' : g \in Nat
      BY <2>2, SMT, Z3 DEF QInv, Hwnds
    <3> QED
      BY <2>1, <2>2, <3>1, SortedLess, Zenon
  <2> QED
    BY <1>2, <2>3, <2>4, <2>5, Zenon DEF QInv
<1> QED
  BY <1>1, <1>2, Zenon

(* The places of the messages, as the sets the property speaks of. *)
LEMMA QueueInvSound == QInv => WindowStateIsSound
<1> SUFFICES ASSUME QInv PROVE WindowStateIsSound
  OBVIOUS
<1>0. QueueTypeOK /\ PlacesOK /\ WindowsAgreeWithClass
  BY Zenon DEF QInv
<1>1. \A m : m \in Queued <=> \E h \in Hwnds : \E i \in 1..Len(windows[h].queue) : m = windows[h].queue[i]
  BY DEF Queued, Ids
<1>2. \A m : m \in Queued <=> \E h, i \in Nat : Sits(m, h, i)
  <2>1. ASSUME NEW m, m \in Queued PROVE \E h, i \in Nat : Sits(m, h, i)
    <3>1. PICK h \in Hwnds : \E i \in 1..Len(windows[h].queue) : m = windows[h].queue[i]
      BY <1>1, <2>1, Zenon
    <3>2. PICK i \in 1..Len(windows[h].queue) : m = windows[h].queue[i]
      BY <3>1, Zenon
    <3>3. h \in Nat /\ Len(windows[h].queue) \in Nat
      BY <1>0, QueueOf, Zenon
    <3>4. i \in Nat
      BY <3>3, SMT, Z3
    <3> QED
      BY <3>2, <3>3, <3>4, Zenon DEF Sits
  <2>2. ASSUME NEW m, NEW h \in Nat, NEW i \in Nat, Sits(m, h, i) PROVE m \in Queued
    BY <1>1, <2>2, Zenon DEF Sits
  <2> QED
    BY <2>1, <2>2, Zenon
<1>3. \A m : m \in InHand <=> m # 0 /\ \E t \in Pumpers : held[t] = m
  BY Zenon DEF InHand
<1>4. \A m \in Queued : m \in Nat
  <2> SUFFICES ASSUME NEW m \in Queued PROVE m \in Nat
    OBVIOUS
  <2>1. PICK h \in Hwnds : \E i \in 1..Len(windows[h].queue) : m = windows[h].queue[i]
    BY <1>1, Zenon
  <2>2. m \in 1..MaxPosts
    <3>1. windows[h].queue \in Seq(1..MaxPosts)
      BY <1>0, QueueOf, Zenon
    <3> QED
      BY <2>1, <3>1, ElementOf, Zenon
  <2> QED
    BY <2>2, SMT, Z3
<1>5. \A m \in Queued : m \in 1..posted /\ m \notin InHand /\ m \notin received /\ m \notin dropped
  BY <1>0, <1>2, <1>3, <1>4, Zenon DEF PlacesOK, QueuedOnly
<1>6. \A m \in InHand : m \in 1..posted /\ m \notin received /\ m \notin dropped
  <2> SUFFICES ASSUME NEW m \in InHand
               PROVE  m \in 1..posted /\ m \notin received /\ m \notin dropped
    OBVIOUS
  <2>1. PICK t \in Pumpers : held[t] = m /\ m # 0
    BY <1>3, Zenon
  <2>2. /\ held[t] \in 1..posted
        /\ held[t] \notin received /\ held[t] \notin dropped
    BY <1>0, <2>1, Zenon DEF PlacesOK, HeldOnly
  <2> QED
    BY <2>1, <2>2, Zenon
<1>7. /\ \A m \in received : m \in 1..posted /\ m \notin dropped
      /\ \A m \in dropped : m \in 1..posted
  BY <1>0, Zenon DEF PlacesOK, GoneOnly
<1>8. \A m \in 1..posted : m \in Queued \/ m \in InHand \/ m \in received \/ m \in dropped
  <2>1. \A m \in 1..posted : m # 0
    BY <1>0, SMT, Z3 DEF QueueTypeOK
  <2> QED
    BY <1>0, <1>2, <1>3, <2>1, Zenon DEF PlacesOK, NoneLost
<1>9. MessagesConserved
  <2>1. Queued \cup InHand \cup received \cup dropped = 1..posted
    BY <1>5, <1>6, <1>7, <1>8, Zenon
  <2>2. Queued \cap (InHand \cup received \cup dropped) = {}
    BY <1>5, Zenon
  <2>3. InHand \cap (received \cup dropped) = {} /\ received \cap dropped = {}
    BY <1>6, <1>7, Zenon
  <2> QED
    BY <2>1, <2>2, <2>3, Zenon DEF MessagesConserved
<1> QED
  BY <1>0, <1>9, Zenon DEF WindowStateIsSound

(* No message a window accepted is lost or delivered twice, however the     *)
(* pumping threads, the peeks that pop and post again and the destruction   *)
(* of windows interleave; and a window has the procedure its class had.     *)
THEOREM WindowStateSound == QueueSpec => []WindowStateIsSound
<1>1. QInv /\ [QueueNext]_queue_vars => QInv'
  BY QueueNextHolds, Zenon
<1> QED
  BY <1>1, QueueInitHolds, QueueInvSound, PTL DEF QueueSpec

(* pop_message hands the messages of a queue out first in, first out, until *)
(* a PM_NOREMOVE peek has popped from it and posted the message again.      *)
THEOREM OrderKept == QueueSpec => HandedOutInOrder
<1>1. QInv /\ [QueueNext]_queue_vars => QInv' /\ [InOrder]_queue_vars
  BY QueueNextHolds, Zenon
<1> QED
  BY <1>1, QueueInitHolds, PTL DEF QueueSpec, HandedOutInOrder
=============================================================================
