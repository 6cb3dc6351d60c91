---------------------------- MODULE ProcessSteps ----------------------------
(***************************************************************************)
(* The invariant of ProcessStacks survives the steps that guest code can   *)
(* take anywhere: returning, faulting, ExitProcess, ExitThread; and the    *)
(* first steps of run_pe_with_dir.                                         *)
(***************************************************************************)
EXTENDS ProcessStacks, TLAPS

(* ... and returns. *)
LEMMA CallbackReturnsStep ==
  ASSUME ConstantsFit, IInv, NEW t \in Threads, CallbackReturns(t)
  PROVE  IInv'
<1>1. Types /\ Nested(t) /\ Placed(t) /\ MainInv /\ StacksInv
  BY DEF IInv, StacksInv
<1>2. stack[t] # << >> /\ Guest(t).kind = "loop" /\ Guest(t).what = "callback"
  BY Zenon DEF CallbackReturns, RunsGuest, OnTop, Guest
<1>3. PICK d \in Nat : d = Depth(t) /\ d >= 1 /\ ~IsTrap(t, d) /\ stack[t][d].what = "callback"
  BY <1>1, <1>2, TopFacts, Zenon
<1>4. d >= 2 /\ stack[t][d - 1].kind = "loop"
  BY <1>1, <1>3, SMT, Z3 DEF Placed, LoopPlace
<1>5. Popped(t) /\ stack' \in [Threads -> Seq(Frames)]
  BY <1>1, <1>2, PopEffect, Zenon DEF CallbackReturns
<1>6. UNCHANGED <<env, code, armed, crash_info, process, main_vars, tables, ghosts>>
  BY Zenon DEF CallbackReturns
<1>7. Types'
  BY <1>1, <1>5, <1>6, Zenon DEF Types, main_vars, seh, ghosts, tables
<1>8. Nested(t)'
  BY <1>1, <1>3, <1>5, <1>6, PopNested, Zenon
<1>9. Placed(t)'
  BY <1>1, <1>3, <1>5, PopPlaced, Zenon
<1>10. StacksInv'
  BY <1>1, <1>5, <1>6, <1>8, <1>9, StacksStep, Zenon DEF Popped
<1>11. \A w \in Workers : started'[w] \in {"no", "spawned"} => Depth(w)' = 0
  BY <1>1, <1>3, <1>5, <1>6, WorkersBegun, Zenon DEF MainInv, Popped, tables
<1>12. MainInv'
  <2>1. CASE t # Main
    <3>1. stack'[Main] = stack[Main]
      BY <1>5, <2>1, Zenon DEF Popped, Others, Threads
    <3> QED
      BY <1>1, <1>6, <1>11, <3>1, MainSame, Zenon DEF main_vars, seh, ghosts
  <2>2. CASE t = Main
    <3>1. /\ Depth(Main)' = d - 1 /\ Depth(Main) = d /\ d >= 2
          /\ \A i \in 1..(d - 1) : stack'[Main][i] = stack[Main][i]
      BY <1>3, <1>4, <1>5, <2>2, Zenon DEF Popped, Kept
    <3>2. /\ Depth(Main)' >= 1 /\ stack'[Main][1] = stack[Main][1]
          /\ d >= 3 => stack'[Main][2] = stack[Main][2]
      BY <3>1, SMT, Z3
    <3>3. d = 2 => ~IsTrap(Main, 1)
      BY <1>4, <2>2, SMT, Z3 DEF IsTrap
    <3>4. PhaseOK'
      BY <1>1, <1>6, <1>11, <3>1, <3>2, SMT, Z3 DEF MainInv, PhaseOK, On, IsTrap, main_vars
    <3>5. CallsOK'
      BY <1>1, <1>6, <3>1, <3>2, <3>3, SMT, Z3 DEF MainInv, CallsOK, DllInitContained, PhaseOK, On, IsTrap, main_vars
    <3>6. OutcomeOK'
      BY <1>1, <1>6, <3>1, <3>2, <3>3, SMT, Z3
         DEF MainInv, OutcomeOK, RunGoesOn, ExitCodeIsMains, PhaseOK, On, IsTrap, main_vars, ghosts
    <3>7. FaultOK'
      BY <1>1, <1>6, ZenonT(40) DEF MainInv, FaultOK, main_vars, seh, ghosts
    <3>8. RspOK'
      BY <1>1, <1>6, <3>1, <3>2, <3>3, SMT, Z3
         DEF MainInv, RspOK, AtEntry, PhaseOK, On, IsTrap, main_vars, seh, ghosts
    <3>9. SentinelOK'
      <4>1. GuestReturnsToSentinel
        BY <1>1, Zenon DEF MainInv, SentinelOK
      <4>2. Len(stack'[Main]) = d - 1 /\ Len(stack[Main]) = d
        BY <3>1, Zenon DEF Depth
      <4>3. \A i \in 1..(d - 1) : i \in 1..d
        OBVIOUS
      <4>4. GuestReturnsToSentinel'
        BY <1>6, <3>1, <4>1, <4>2, <4>3, Zenon DEF GuestReturnsToSentinel, main_vars, ghosts
      <4> QED
        BY <1>1, <1>6, <4>4, Zenon DEF MainInv, SentinelOK, main_vars, ghosts
    <3> QED
      BY <3>4, <3>5, <3>6, <3>7, <3>8, <3>9, Zenon DEF MainInv
  <2> QED
    BY <2>1, <2>2, Zenon
<1> QED
  BY <1>7, <1>10, <1>12, Zenon DEF IInv

(* The stack below a loop on top, down to the trap that its thread is armed *)
(* for.                                                                     *)
LEMMA ArmedTrap ==
  ASSUME ConstantsFit, Types, NEW t \in Threads, Nested(t), Placed(t), Depth(t) >= 1,
         ~IsTrap(t, Depth(t)), armed[t]
  PROVE  /\ env[t] \in 1..Depth(t) /\ env[t] < Depth(t) /\ IsTrap(t, env[t])
         /\ \A i \in (env[t] + 1)..Depth(t) : ~IsTrap(t, i)
         /\ t # Main => ~IsMainRun(stack[t][env[t]])
         /\ t = Main => \/ env[t] = 1 /\ IsMainRun(stack[t][1])
                        \/ env[t] = 2 /\ ~IsMainRun(stack[t][2])
<1>1. PICK d \in Nat, e \in Nat : d = Depth(t) /\ e = env[t]
  BY StackTypes, Zenon DEF Types
<1>2. e \in 1..d /\ IsTrap(t, e) /\ \A i \in 1..d : IsTrap(t, i) => i <= e
  BY <1>1, Zenon DEF Nested, Covers
<1>3. e # d /\ \A i \in (e + 1)..d : ~IsTrap(t, i)
  BY <1>1, <1>2, SMT, Z3
<1>4. TrapPlace(t, e)
  BY <1>1, <1>2, Zenon DEF Placed
<1>5. t # Main => ~IsMainRun(stack[t][e])
  BY <1>4, Zenon DEF TrapPlace, IsMainRun
<1>6. t = Main => \/ e = 1 /\ IsMainRun(stack[t][1])
                  \/ e = 2 /\ ~IsMainRun(stack[t][2])
  BY <1>4, Zenon DEF TrapPlace, IsMainRun, ConstantsFit
<1> QED
  BY <1>1, <1>2, <1>3, <1>5, <1>6, SMT, Z3

(* A run of the main thread is over: it returned, exited or faulted.  The   *)
(* trap at depth n has got the state `how`.                                 *)
LEMMA MainLands ==
  ASSUME ConstantsFit, IInv, NEW n \in {1, 2}, NEW how \in {"returned", "landed"},
         n < Depth(Main), IsTrap(Main, n), ~IsTrap(Main, n + 1), ~IsTrap(Main, Depth(Main)),
         WasCut(Main, n, how),
         process = "running",
         UNCHANGED <<phase, next_call, exit_code, rsp, sentinels, context, skewed, process, started>>,
         n = 1 => /\ outcome' = IF how = "landed" THEN code'[Main] ELSE NoExit
                  /\ UNCHANGED others_faulted
                  /\ \/ fault' = NoCrash /\ UNCHANGED crash_info
                     \/ fault' = crash_info' /\ crash_info'.rsp = Guest(Main).rsp,
         n = 2 => UNCHANGED <<outcome, fault>>
                  /\ (UNCHANGED <<others_faulted, crash_info>> \/ others_faulted')
  PROVE  MainInv'
<1>1. Types /\ Nested(Main) /\ Placed(Main) /\ MainInv /\ Main \in Threads
  BY Zenon DEF IInv, StacksInv, Threads
<1>2. PICK d \in Nat : d = Depth(Main) /\ d >= 2 /\ n < d
  BY <1>1, StackTypes, SMT, Z3
<1>3. /\ Depth(Main)' = n /\ stack'[Main][n].state = how
      /\ stack'[Main][n].kind = "trap" /\ stack'[Main][n].what = stack[Main][n].what
      /\ stack'[Main][n].rsp = stack[Main][n].rsp /\ stack'[Main][n].code = stack[Main][n].code
      /\ n = 2 => stack'[Main][1] = stack[Main][1]
  BY DEF WasCut, Kept, IsTrap
<1>4. IsTrap(Main, 1) /\ stack[Main][1].state = "body"
  <2>1. CASE n = 1
    BY <1>1, <1>2, <2>1, SMT, Z3 DEF Placed
  <2>2. CASE n = 2
    BY <1>1, <1>2, <2>2, SMT, Z3 DEF Placed, TrapPlace, On
  <2> QED
    BY <2>1, <2>2, Zenon
<1>5. \/ phase = "body" /\ On(Main, 1, "body")
      \/ phase = "resumed" /\ On(Main, 1, "resume")
  BY <1>1, <1>2, <1>4, SMT, Z3 DEF MainInv, PhaseOK
<1>6. n = 2 => phase = "body" /\ stack[Main][1].what = "body"
  <2> SUFFICES ASSUME n = 2 PROVE On(Main, 1, "body")
    BY <1>5, Zenon DEF On
  <2>1. TrapPlace(Main, 2)
    BY <1>1, <1>2, SMT, Z3 DEF Placed
  <2> QED
    BY <2>1 DEF TrapPlace
<1>7. RunGoesOn
  BY <1>1, <1>4, <1>5, Zenon DEF MainInv, OutcomeOK
<1>8. PhaseOK'
  <2>1. \A w \in Workers : started'[w] \in {"no", "spawned"} => Depth(w)' = 0
    BY <1>1, <1>2, WorkersBegun, SMT, Z3 DEF MainInv, WasCut
  <2>2. On(Main, 1, stack[Main][1].what)'
    BY <1>3, <1>4, Zenon DEF On, IsTrap
  <2> QED
    BY <1>3, <1>4, <1>5, <2>1, SMT, Z3 DEF PhaseOK, On, IsTrap
<1>9. CallsOK'
  BY <1>1, <1>2, <1>3, <1>5, SMT, Z3 DEF MainInv, CallsOK, DllInitContained, IsTrap
<1>10. OutcomeOK'
  <2>1. CASE n = 1
    BY <1>3, <1>5, <2>1, Zenon DEF OutcomeOK, ExitCodeIsMains, Dispatching
  <2>2. CASE n = 2
    BY <1>2, <1>3, <1>4, <1>5, <1>7, <2>2, SMT, Z3
       DEF OutcomeOK, ExitCodeIsMains, RunGoesOn, IsTrap, Dispatching
  <2> QED
    BY <2>1, <2>2, Zenon
<1>11. FaultOK'
  BY <1>1, <1>5, <1>7, ZenonT(40) DEF MainInv, FaultOK, RunGoesOn, Dispatching
<1>12. RspOK'
  BY <1>1, <1>2, <1>3, <1>4, <1>5, SMT, Z3 DEF MainInv, RspOK, AtEntry, IsTrap, EntryRsp, Dispatching
<1>13. SentinelOK'
  <2>1. GuestReturnsToSentinel'
    BY <1>3, <1>4, SMT, Z3 DEF GuestReturnsToSentinel, Depth, IsTrap
  <2>2. NoCrash.rsp.of # Main
    BY Zenon DEF NoCrash, Slot, ConstantsFit, Threads
  <2>3. CASE n = 2
    BY <1>1, <2>1, <2>3, Zenon DEF MainInv, SentinelOK
  <2>4. CASE n = 1 /\ fault' = NoCrash
    BY <2>1, <2>2, <2>4, Zenon DEF SentinelOK
  <2>5. CASE n = 1 /\ crash_info'.rsp = Guest(Main).rsp /\ fault' = crash_info'
    <3> SUFFICES ASSUME ~skewed, ~others_faulted, Guest(Main).rsp.of = Main
                 PROVE  Guest(Main).rsp \in sentinels
      BY <2>1, <2>5, SMT, Z3 DEF SentinelOK
    <3>1. stack[Main] # << >>
      BY <1>1, <1>2, EmptyDepth, SMT, Z3
    <3>2. Guest(Main) = stack[Main][d] /\ stack[Main][d].kind = "loop" /\ d \in 1..Len(stack[Main])
      BY <1>1, <1>2, <3>1, TopFacts, SMT, Z3 DEF Depth
    <3>3. GuestReturnsToSentinel
      BY <1>1, Zenon DEF MainInv, SentinelOK
    <3> QED
      BY <3>2, <3>3, Zenon DEF GuestReturnsToSentinel
  <2> QED
    BY <2>3, <2>4, <2>5, ZenonT(40)
<1> QED
  BY <1>8, <1>9, <1>10, <1>11, <1>12, <1>13, Zenon DEF MainInv

(* The loop on top of a trap ends. *)
LEMMA BodyReturnsStep ==
  ASSUME ConstantsFit, IInv, NEW t \in Threads, BodyReturns(t)
  PROVE  IInv'
<1>1. Types /\ Nested(t) /\ Placed(t) /\ MainInv /\ StacksInv
  BY DEF IInv, StacksInv
<1>2. stack[t] # << >> /\ Guest(t).kind = "loop" /\ process = "running"
      /\ Guest(t).what \in {"dll", "entry", "resume", "worker"}
  BY Zenon DEF BodyReturns, RunsGuest, OnTop, Guest
<1>3. PICK d \in Nat : /\ d = Depth(t) /\ d = Len(stack[t]) /\ d >= 1 /\ ~IsTrap(t, d)
                       /\ stack[t][d].what \in {"dll", "entry", "resume", "worker"}
  BY <1>1, <1>2, TopFacts, Zenon DEF Depth
<1>4. LoopPlace(t, d)
  BY <1>1, <1>3, SMT, Z3 DEF Placed
<1>5. PICK n \in {1, 2} : n = d - 1 /\ IsTrap(t, n) /\ n \in 1..Depth(t)
  BY <1>3, <1>4, SMT, Z3 DEF LoopPlace, On
<1>6. TrapPlace(t, n)
  BY <1>1, <1>5, Zenon DEF Placed
<1>7. CutTo(t, n, "returned") /\ Ended(stack[t][n], NoExit, NoCrash)
      /\ UNCHANGED <<env, code, armed, crash_info, process, main_vars, tables, others_faulted, skewed>>
  BY <1>3, <1>5, Zenon DEF BodyReturns
<1>8. WasCut(t, n, "returned") /\ stack' \in [Threads -> Seq(Frames)]
  BY <1>1, <1>5, <1>7, CutEffect, Zenon
<1>9. \A i \in (n + 1)..Depth(t) : ~IsTrap(t, i)
  BY <1>3, <1>5, SMT, Z3
<1>10. StacksInv'
  <2>1. Nested(t)'
    BY <1>1, <1>5, <1>7, <1>8, <1>9, CutNested, Zenon
  <2>2. Placed(t)'
    BY <1>1, <1>5, <1>8, CutPlaced, Zenon
  <2> QED
    BY <1>1, <1>7, <1>8, <2>1, <2>2, StacksStep, Zenon DEF WasCut
<1>11. fault' \in Crashes
  BY <1>1, <1>7, SMT, Z3 DEF Types, Ended, Crashes, NoCrash, Slot, Slots
<1>12. Types'
  BY <1>1, <1>7, <1>8, <1>11, Zenon DEF Types, main_vars, seh, tables
<1>13. \A w \in Workers : started'[w] \in {"no", "spawned"} => Depth(w)' = 0
  BY <1>1, <1>3, <1>7, <1>8, WorkersBegun, Zenon DEF MainInv, WasCut, tables
<1>14. MainInv'
  <2>1. CASE t # Main
    <3>1. stack'[Main] = stack[Main]
      BY <1>8, <2>1, Zenon DEF WasCut, Others, Threads
    <3>2. UNCHANGED <<outcome, fault>>
      BY <1>6, <1>7, <2>1, Zenon DEF TrapPlace, Ended, IsMainRun
    <3> QED
      BY <1>1, <1>7, <1>13, <3>1, <3>2, MainSame, Zenon DEF main_vars, seh
  <2>2. CASE t = Main
    <3>1. n = 1 => outcome' = NoExit /\ fault' = NoCrash
      BY <1>6, <1>7, <2>2, SMT, Z3 DEF TrapPlace, Ended, IsMainRun, ConstantsFit
    <3>2. n = 2 => UNCHANGED <<outcome, fault>>
      BY <1>6, <1>7, <2>2, SMT, Z3 DEF TrapPlace, Ended, IsMainRun
    <3>3. n < Depth(Main) /\ IsTrap(Main, n) /\ ~IsTrap(Main, n + 1) /\ ~IsTrap(Main, Depth(Main))
      <4>1. n + 1 = d /\ n < d
        BY <1>3, <1>5, SMT, Z3
      <4> QED
        BY <1>3, <1>5, <2>2, <4>1, Zenon
    <3> QED
      BY <1>2, <1>7, <1>8, <2>2, <3>1, <3>2, <3>3, MainLands, Zenon DEF main_vars, seh, tables
  <2> QED
    BY <2>1, <2>2, Zenon
<1> QED
  BY <1>10, <1>12, <1>14, Zenon DEF IInv

(* A longjmp to the trap that the thread is armed for. *)
LEMMA LongjmpStacks ==
  ASSUME ConstantsFit, IInv, NEW t \in Threads, RunsGuest(t), armed[t], Longjmp(t),
         UNCHANGED <<env, armed>>
  PROVE  /\ WasCut(t, env[t], "landed") /\ stack' \in [Threads -> Seq(Frames)] /\ StacksInv'
         /\ Depth(t) >= 1 /\ env[t] < Depth(t) /\ IsTrap(t, env[t]) /\ ~IsTrap(t, env[t] + 1)
         /\ ~IsTrap(t, Depth(t))
         /\ t # Main => ~IsMainRun(stack[t][env[t]])
         /\ t = Main => \/ env[t] = 1 /\ IsMainRun(stack[t][1])
                        \/ env[t] = 2 /\ ~IsMainRun(stack[t][2])
<1>1. Types /\ Nested(t) /\ Placed(t) /\ StacksInv
  BY Zenon DEF IInv, StacksInv
<1>2. stack[t] # << >> /\ Guest(t).kind = "loop"
  BY Zenon DEF RunsGuest, OnTop, Guest
<1>3. PICK d \in Nat, n \in Nat : d = Depth(t) /\ n = env[t] /\ d >= 1 /\ ~IsTrap(t, d)
  BY <1>1, <1>2, TopFacts, Zenon DEF Types
<1>4. /\ n \in 1..Depth(t) /\ n < d /\ IsTrap(t, n) /\ \A i \in (n + 1)..d : ~IsTrap(t, i)
      /\ t # Main => ~IsMainRun(stack[t][n])
      /\ t = Main => \/ n = 1 /\ IsMainRun(stack[t][1])
                     \/ n = 2 /\ ~IsMainRun(stack[t][2])
  BY <1>1, <1>3, ArmedTrap, Zenon
<1>5. WasCut(t, n, "landed") /\ stack' \in [Threads -> Seq(Frames)]
  BY <1>1, <1>3, <1>4, CutEffect, Zenon DEF Longjmp
<1>6. Nested(t)' /\ Placed(t)'
  BY <1>1, <1>3, <1>4, <1>5, CutNested, CutPlaced, Zenon
<1>7. StacksInv'
  BY <1>1, <1>5, <1>6, StacksStep, Zenon DEF WasCut
<1>8. ~IsTrap(t, n + 1)
  BY <1>3, <1>4, SMT, Z3
<1> QED
  BY <1>3, <1>4, <1>5, <1>7, <1>8, Zenon

(* Without a trap the main thread is not in a run of run_pe_with_dir's. *)
LEMMA Unarmed ==
  ASSUME ConstantsFit, IInv, ~armed[Main]
  PROVE  phase \notin {"body", "resumed"}
<1>1. Main \in Threads /\ Types
  BY Zenon DEF Threads, IInv
<1>2. PICK d \in Nat : d = Depth(Main)
  BY <1>1, StackTypes, Zenon
<1>3. Covers(Main, d, armed[Main], env[Main])
  BY <1>1, <1>2, Zenon DEF IInv, StacksInv, Nested
<1>4. ~(d >= 1 /\ IsTrap(Main, 1))
  BY <1>2, <1>3, SMT, Z3 DEF Covers
<1> QED
  BY <1>2, <1>4, Zenon DEF IInv, MainInv, PhaseOK, On

(* The process ends, in a step of thread t that changes its exit code. *)
LEMMA ProcessGone ==
  ASSUME ConstantsFit, IInv, NEW t \in Threads, ~armed[t], NEW c \in Exits,
         code' = [code EXCEPT ![t] = c], process' = "exited", crash_info' \in Crashes,
         UNCHANGED <<stack, env, armed, main_vars, started, ghosts>>
  PROVE  IInv'
<1>1. Types /\ MainInv /\ StacksInv
  BY Zenon DEF IInv
<1>2. Types'
  BY <1>1, Zenon DEF Types, main_vars, seh, ghosts
<1>3. StacksInv'
  BY <1>1, NestedElsewhere, PlacedElsewhere, Zenon DEF StacksInv
<1>4. \A w \in Workers : started'[w] \in {"no", "spawned"} => Depth(w)' = 0
  BY <1>1, Zenon DEF MainInv, PhaseOK, Depth
<1>5. MainInv'
  <2>1. CASE t # Main
    <3>1. code'[Main] = code[Main]
      BY <1>1, <2>1, Zenon DEF Types, Threads
    <3> QED
      BY <1>1, <1>4, <3>1, MainSame, Zenon DEF main_vars, seh, ghosts
  <2>2. CASE t = Main
    <3>1. phase \notin {"body", "resumed"}
      BY <2>2, Unarmed, Zenon
    <3>2. PhaseOK' /\ CallsOK'
      BY <1>1, Zenon DEF MainInv, PhaseOK, CallsOK, DllInitContained, Depth, On, IsTrap, main_vars
    <3>3. OutcomeOK'
      BY <1>1, <3>1, Zenon DEF MainInv, OutcomeOK, ExitCodeIsMains, main_vars, ghosts
    <3>4. FaultOK'
      BY <1>1, Zenon DEF MainInv, FaultOK, main_vars, seh, ghosts
    <3>5. RspOK'
      BY <1>1, Zenon DEF MainInv, RspOK, AtEntry, Depth, IsTrap, EntryRsp, main_vars, seh, ghosts
    <3>6. SentinelOK'
      BY <1>1, Zenon DEF MainInv, SentinelOK, GuestReturnsToSentinel, main_vars, ghosts
    <3> QED
      BY <3>2, <3>3, <3>4, <3>5, <3>6, Zenon DEF MainInv
  <2> QED
    BY <2>1, <2>2, Zenon
<1> QED
  BY <1>2, <1>3, <1>5, Zenon DEF IInv

(* The state of the main thread after a longjmp by thread t. *)
LEMMA LandedMain ==
  ASSUME ConstantsFit, IInv, NEW t \in Threads, RunsGuest(t), armed[t], Longjmp(t),
         UNCHANGED <<env, armed, process, main_vars, started, skewed>>,
         t # Main => code'[Main] = code[Main] /\ UNCHANGED <<outcome, fault>>
                     /\ (UNCHANGED <<others_faulted, crash_info>> \/ others_faulted'),
         t = Main /\ IsMainRun(stack[t][env[t]]) =>
           /\ outcome' = code'[Main] /\ UNCHANGED others_faulted
           /\ \/ fault' = NoCrash /\ UNCHANGED crash_info
              \/ fault' = crash_info' /\ crash_info'.rsp = Guest(Main).rsp,
         t = Main /\ ~IsMainRun(stack[t][env[t]]) =>
           UNCHANGED <<outcome, fault>>
           /\ (UNCHANGED <<others_faulted, crash_info>> \/ others_faulted')
  PROVE  MainInv'
<1>1. Types /\ MainInv /\ process = "running"
  BY Zenon DEF IInv, RunsGuest, OnTop
<1>2. PICK n \in Nat : n = env[t]
  BY <1>1, Zenon DEF Types
<1>3. /\ WasCut(t, n, "landed") /\ stack' \in [Threads -> Seq(Frames)] /\ StacksInv'
      /\ Depth(t) >= 1 /\ n < Depth(t) /\ IsTrap(t, n) /\ ~IsTrap(t, n + 1)
      /\ ~IsTrap(t, Depth(t))
      /\ t = Main => \/ n = 1 /\ IsMainRun(stack[t][1])
                     \/ n = 2 /\ ~IsMainRun(stack[t][2])
  BY <1>2, LongjmpStacks, Zenon
<1>4. \A w \in Workers : started'[w] \in {"no", "spawned"} => Depth(w)' = 0
  BY <1>1, <1>3, WorkersBegun, Zenon DEF MainInv, WasCut
<1>5. CASE t # Main
  <2>1. stack'[Main] = stack[Main]
    BY <1>3, <1>5, Zenon DEF WasCut, Others, Threads
  <2> QED
    BY <1>1, <1>4, <1>5, <2>1, MainSame, Zenon DEF main_vars, seh
<1>6. CASE t = Main
  <2>1. n \in {1, 2} /\ n < Depth(Main) /\ IsTrap(Main, n) /\ ~IsTrap(Main, n + 1)
        /\ ~IsTrap(Main, Depth(Main)) /\ WasCut(Main, n, "landed")
    BY <1>3, <1>6, Zenon
  <2>2. n = 1 => /\ outcome' = code'[Main] /\ UNCHANGED others_faulted
                 /\ \/ fault' = NoCrash /\ UNCHANGED crash_info
                    \/ fault' = crash_info' /\ crash_info'.rsp = Guest(Main).rsp
    BY <1>2, <1>3, <1>6, SMT, Z3
  <2>3. n = 2 => UNCHANGED <<outcome, fault>>
                 /\ (UNCHANGED <<others_faulted, crash_info>> \/ others_faulted')
    BY <1>2, <1>3, <1>6, SMT, Z3
  <2> QED
    BY <1>1, <2>1, <2>2, <2>3, MainLands, Zenon DEF main_vars, seh
<1> QED
  BY <1>5, <1>6, Zenon

LEMMA ExitProcessStep ==
  ASSUME ConstantsFit, IInv, NEW t \in Threads, NEW c \in Codes, ExitProcess(t, c)
  PROVE  IInv'
<1>1. Types /\ RunsGuest(t) /\ c \in Exits /\ code' = [code EXCEPT ![t] = c]
      /\ UNCHANGED <<env, armed, crash_info, main_vars, tables, others_faulted, skewed>>
  BY Zenon DEF IInv, ExitProcess, Exits
<1>2. CASE ~armed[t]
  BY <1>1, <1>2, ProcessGone, Zenon DEF ExitProcess, tables, ghosts, Types
<1>3. CASE armed[t]
  <2>1. Longjmp(t) /\ Ended(stack[t][env[t]], c, NoCrash) /\ UNCHANGED process
    BY <1>3, Zenon DEF ExitProcess
  <2>2. stack' \in [Threads -> Seq(Frames)] /\ StacksInv'
        /\ (t # Main => ~IsMainRun(stack[t][env[t]]))
    BY <1>1, <1>3, <2>1, LongjmpStacks, Zenon
  <2>3. fault' \in Crashes /\ code' \in [Threads -> Exits]
    <3>1. fault' \in Crashes
      BY <1>1, <2>1, SMT, Z3 DEF Types, Ended, Crashes, NoCrash, Slot, Slots
    <3>2. code' \in [Threads -> Exits]
      BY <1>1, Zenon DEF Types
    <3> QED
      BY <3>1, <3>2, Zenon
  <2>4. Types'
    BY <1>1, <2>2, <2>3, Zenon DEF Types, main_vars, seh, tables
  <2>5. code'[t] = c /\ (t # Main => code'[Main] = code[Main])
    BY <1>1, Zenon DEF Types, Threads
  <2>6. MainInv'
    BY <1>1, <1>3, <2>1, <2>2, <2>5, LandedMain, Zenon DEF Ended, tables
  <2> QED
    BY <2>2, <2>4, <2>6, Zenon DEF IInv
<1> QED
  BY <1>1, <1>2, <1>3, Zenon DEF Types

LEMMA FaultStep ==
  ASSUME ConstantsFit, IInv, NEW t \in Threads, Fault(t)
  PROVE  IInv'
<1>1. Types /\ RunsGuest(t) /\ CrashCode \in Exits /\ code' = [code EXCEPT ![t] = CrashCode]
      /\ UNCHANGED <<env, armed, main_vars, tables>>
      /\ crash_info' = [who |-> t, rsp |-> Guest(t).rsp]
  BY Zenon DEF IInv, Fault, Exits
<1>2. crash_info' \in Crashes /\ crash_info'.rsp = Guest(t).rsp
  <2>1. stack[t] # << >>
    BY <1>1, Zenon DEF RunsGuest, OnTop
  <2>2. Guest(t).rsp \in Slots
    BY <1>1, <2>1, TopFacts, Zenon
  <2> QED
    BY <1>1, <2>2, Zenon DEF Crashes
<1>3. CASE ~armed[t]
  <2>1. process' = "exited" /\ UNCHANGED <<stack, ghosts>>
    BY <1>3, Zenon DEF Fault
  <2> QED
    BY <1>1, <1>2, <1>3, <2>1, ProcessGone, Zenon DEF tables
<1>4. CASE armed[t]
  <2>1. /\ Longjmp(t) /\ Ended(stack[t][env[t]], CrashCode, crash_info')
        /\ others_faulted' = (others_faulted \/ ~IsMainRun(stack[t][env[t]]))
        /\ UNCHANGED <<process, skewed>>
    BY <1>4, Zenon DEF Fault
  <2>2. stack' \in [Threads -> Seq(Frames)] /\ StacksInv'
        /\ (t # Main => ~IsMainRun(stack[t][env[t]]))
    BY <1>1, <1>4, <2>1, LongjmpStacks, Zenon
  <2>3. fault' \in Crashes /\ code' \in [Threads -> Exits]
    BY <1>1, <1>2, <2>1, Zenon DEF Types, Ended
  <2>4. others_faulted' \in BOOLEAN
    BY <2>1, Zenon
  <2>5. Types'
    BY <1>1, <1>2, <2>1, <2>2, <2>3, <2>4, Zenon DEF Types, main_vars, seh, tables
  <2>6. code'[t] = CrashCode /\ (t # Main => code'[Main] = code[Main])
    BY <1>1, Zenon DEF Types, Threads
  <2>7. IF IsMainRun(stack[t][env[t]])
          THEN outcome' = CrashCode /\ fault' = crash_info' /\ UNCHANGED others_faulted
          ELSE UNCHANGED <<outcome, fault>> /\ others_faulted'
    BY <1>1, <2>1, Zenon DEF Ended, Types
  <2>8. MainInv'
    BY <1>1, <1>2, <1>4, <2>1, <2>2, <2>6, <2>7, LandedMain, Zenon DEF tables
  <2> QED
    BY <2>2, <2>5, <2>8, Zenon DEF IInv
<1> QED
  BY <1>1, <1>3, <1>4, Zenon DEF Types

LEMMA ExitThreadStep ==
  ASSUME ConstantsFit, IInv, NEW t \in Threads, ExitThread(t)
  PROVE  IInv'
<1>1. Types /\ MainInv /\ StacksInv /\ RunsGuest(t)
      /\ UNCHANGED <<env, code, armed, crash_info, process, next_call, exit_code, seh, rsp,
                     sentinels, tables, others_faulted, skewed>>
  BY Zenon DEF IInv, ExitThread
<1>2. stack[t] # << >> /\ Guest(t).kind = "loop"
  BY <1>1, Zenon DEF RunsGuest, OnTop, Guest
<1>3. Depth(t) >= 1 /\ Depth(t) \in Nat /\ ~IsTrap(t, Depth(t))
  BY <1>1, <1>2, TopFacts, Zenon
<1>4. CASE armed[t]
  <2>1. Longjmp(t) /\ Ended(stack[t][env[t]], 0, NoCrash) /\ UNCHANGED phase
    BY <1>4, Zenon DEF ExitThread
  <2>2. /\ stack' \in [Threads -> Seq(Frames)] /\ StacksInv'
        /\ t # Main => ~IsMainRun(stack[t][env[t]])
        /\ IsTrap(t, env[t]) /\ env[t] < Depth(t) /\ ~IsTrap(t, env[t] + 1)
        /\ t = Main => \/ env[t] = 1 /\ IsMainRun(stack[t][1])
                       \/ env[t] = 2 /\ ~IsMainRun(stack[t][2])
    BY <1>1, <1>4, <2>1, LongjmpStacks, Zenon
  <2>3. fault' \in Crashes
    BY <1>1, <2>1, SMT, Z3 DEF Types, Ended, Crashes, NoCrash, Slot, Slots
  <2>4. Types'
    BY <1>1, <2>2, <2>3, Zenon DEF Types, seh, tables
  <2>5. ASSUME t = Main, env[t] = 1 PROVE code[Main] = 0
    <3>1. IsTrap(Main, 1) /\ ~IsTrap(Main, 2) /\ Depth(Main) >= 2
      BY <1>3, <2>2, <2>5, SMT, Z3
    <3>2. Placed(Main)
      BY <1>1, <2>5, Zenon DEF StacksInv
    <3>3. stack[Main][1].state = "body"
      BY <1>3, <2>5, <3>1, <3>2, SMT, Z3 DEF Placed
    <3>4. phase \in {"body", "resumed"}
      BY <1>1, <1>3, <2>5, <3>1, Zenon DEF MainInv, PhaseOK
    <3> QED
      BY <1>1, <3>1, <3>3, <3>4, Zenon DEF MainInv, OutcomeOK, RunGoesOn
  <2>6. IF IsMainRun(stack[t][env[t]])
          THEN outcome' = 0 /\ fault' = NoCrash ELSE UNCHANGED <<outcome, fault>>
    BY <2>1, Zenon DEF Ended
  <2>7. t = Main /\ IsMainRun(stack[t][env[t]]) => outcome' = code'[Main]
    BY <1>1, <2>2, <2>5, <2>6, Zenon
  <2>8. MainInv'
    BY <1>1, <1>4, <2>1, <2>2, <2>6, <2>7, LandedMain, Zenon DEF tables, main_vars, seh
  <2> QED
    BY <2>2, <2>4, <2>8, Zenon DEF IInv
<1>5. CASE ~armed[t]
  <2>1. /\ stack' = [stack EXCEPT ![t] = << >>]
        /\ phase' = IF t = Main THEN "gone" ELSE phase
        /\ UNCHANGED <<outcome, fault>>
    BY <1>5, Zenon DEF ExitThread
  <2>2. stack' \in [Threads -> Seq(Frames)] /\ stack'[t] = << >> /\ Others(t)
    BY <1>1, <2>1, SMT, Z3 DEF Types, Others
  <2>3. Depth(t)' = 0
    BY <2>2, SMT, Z3 DEF Depth
  <2>4. Types'
    BY <1>1, <2>1, <2>2, Zenon DEF Types, seh, tables
  <2>5. Nested(t)' /\ Placed(t)'
    BY <1>1, <1>5, <2>3, SMT, Z3 DEF Nested, Covers, Placed
  <2>6. StacksInv'
    BY <1>1, <2>2, <2>5, StacksStep, Zenon
  <2>7. \A w \in Workers : started'[w] \in {"no", "spawned"} => Depth(w)' = 0
    BY <1>1, <1>3, <2>2, WorkersBegun, Zenon DEF MainInv, tables
  <2>8. MainInv'
    <3>1. CASE t # Main
      <4>1. stack'[Main] = stack[Main]
        BY <2>2, <3>1, Zenon DEF Others, Threads
      <4> QED
        BY <1>1, <2>1, <2>7, <3>1, <4>1, MainSame, Zenon DEF seh
    <3>2. CASE t = Main
      <4>1. phase' = "gone" /\ Depth(Main)' = 0 /\ phase \notin {"body", "resumed"}
        BY <1>5, <2>1, <2>3, <3>2, Unarmed, Zenon
      <4>2. phase \in {"vectored", "filter", "static"}
        BY <1>1, <1>3, <3>2, <4>1, Zenon DEF MainInv, PhaseOK
      <4>3. PhaseOK' /\ CallsOK'
        BY <1>1, <2>7, <4>1, <4>2, SMT, Z3 DEF MainInv, PhaseOK, CallsOK, DllInitContained
      <4>4. OutcomeOK' /\ FaultOK'
        BY <1>1, <2>1, <4>1, Zenon
           DEF MainInv, OutcomeOK, ExitCodeIsMains, FaultOK, Dispatching
      <4>5. RspOK'
        BY <4>1, SMT, Z3 DEF RspOK, Dispatching
      <4>6. SentinelOK'
        BY <1>1, <2>1, <4>1, SMT, Z3 DEF MainInv, SentinelOK, GuestReturnsToSentinel, Depth
      <4> QED
        BY <4>3, <4>4, <4>5, <4>6, Zenon DEF MainInv
    <3> QED
      BY <3>1, <3>2, Zenon
  <2> QED
    BY <2>4, <2>6, <2>8, Zenon DEF IInv
<1> QED
  BY <1>1, <1>4, <1>5, Zenon DEF Types
-----------------------------------------------------------------------------
(* The steps of run_pe_with_dir.  A trap is entered on the main stack. *)
LEMMA MainEnters ==
  ASSUME ConstantsFit, IInv, NEW what \in {"body", "dll", "resume"}, NEW loops,
         loops = << >> \/ \E f \in Frames : f.kind = "loop" /\ f.state = "body" /\ loops = <<f>>,
         EnterTrap(Main, what, loops),
         NEW d \in {0, 1}, d = Depth(Main), d = 1 => InBody,
         d = 1 <=> what = "dll",
         what = "dll" => loops # << >> /\ loops[1].what = "dll",
         what = "resume" => loops # << >> /\ loops[1].what = "resume",
         what = "body" => loops = << >>
  PROVE  /\ Entered(Main, what, loops) /\ stack' \in [Threads -> Seq(Frames)] /\ StacksInv'
         /\ env' \in [Threads -> Nat] /\ code' \in [Threads -> Exits]
         /\ armed' \in [Threads -> BOOLEAN] /\ code'[Main] = 0
         /\ \A w \in Workers : started[w] \in {"no", "spawned"} => Depth(w)' = 0
<1>1. Types /\ StacksInv /\ Nested(Main) /\ Placed(Main) /\ MainInv /\ Main \in Threads
      /\ what \in Whats /\ d \in Nat
  BY SMT, Z3 DEF IInv, StacksInv, Threads, Whats
<1>2. /\ Entered(Main, what, loops) /\ stack' \in [Threads -> Seq(Frames)]
      /\ env' = [env EXCEPT ![Main] = Depth(Main) + 1] /\ code' = [code EXCEPT ![Main] = 0]
      /\ armed' = [armed EXCEPT ![Main] = TRUE]
  BY <1>1, EnterEffect, Zenon
<1>3. /\ env' \in [Threads -> Nat] /\ armed' \in [Threads -> BOOLEAN]
      /\ armed'[Main] = TRUE /\ env'[Main] = Depth(Main) + 1
      /\ \A u \in Threads \ {Main} : env'[u] = env[u] /\ armed'[u] = armed[u]
  BY <1>1, <1>2, SMT, Z3 DEF Types
<1>4. code' \in [Threads -> Exits] /\ code'[Main] = 0
  BY <1>1, <1>2, Zenon DEF Types, Exits
<1>5. Nested(Main)'
  BY <1>1, <1>2, <1>3, EnterNested, ZenonT(40)
<1>6. Trap(Main, what).kind = "trap" /\ Trap(Main, what).what = what
  BY <1>1, TrapType, Zenon
<1>7. d = 1 => On(Main, 1, "body") /\ stack[Main][1].state = "body" /\ stack'[Main][1] = stack[Main][1]
  <2> SUFFICES ASSUME d = 1 PROVE On(Main, 1, "body") /\ stack[Main][1].state = "body"
                                  /\ stack'[Main][1] = stack[Main][1]
    BY Zenon
  <2>1. InBody /\ Depth(Main) = 1
    BY Zenon
  <2>2. stack[Main] # << >> /\ Guest(Main).kind = "trap"
    BY <2>1, Zenon DEF InBody, OnTop, Guest
  <2>3. Guest(Main) = stack[Main][1] /\ IsTrap(Main, 1)
    BY <1>1, <2>1, <2>2, TopFacts, Zenon
  <2> QED
    BY <1>2, <2>1, <2>3, SMT, Z3 DEF InBody, On, Entered, Kept
<1>8. TrapPlace(Main, d + 1)'
  <2>1. stack'[Main][d + 1].what = what /\ stack'[Main][d + 1].kind = "trap"
    BY <1>2, <1>6, Zenon DEF Entered
  <2>2. CASE d = 0
    BY <2>1, <2>2, SMT, Z3 DEF TrapPlace
  <2>3. CASE d = 1
    BY <1>7, <2>1, <2>3, SMT, Z3 DEF TrapPlace, On, IsTrap
  <2> QED
    BY <2>2, <2>3, Zenon
<1>9. loops # << >> => LoopPlace(Main, d + 2)'
  <2> SUFFICES ASSUME loops # << >> PROVE LoopPlace(Main, d + 2)'
    BY Zenon
  <2>1. stack'[Main][d + 1].what = what /\ stack'[Main][d + 1].kind = "trap"
        /\ stack'[Main][d + 2] = loops[1]
    BY <1>2, <1>6, Zenon DEF Entered
  <2>2. CASE d = 0
    BY <2>1, <2>2, SMT, Z3 DEF LoopPlace, On, IsTrap
  <2>3. CASE d = 1
    BY <2>1, <2>3, SMT, Z3 DEF LoopPlace, On, IsTrap
  <2> QED
    BY <2>2, <2>3, Zenon
<1>10. Placed(Main)'
  <2>1. d = 0 \/ stack[Main][d].state = "body"
    BY <1>7, Zenon
  <2> QED
    BY <1>1, <1>2, <1>8, <1>9, <2>1, EnterPlaced, Zenon
<1>11. StacksInv'
  BY <1>1, <1>2, <1>3, <1>5, <1>10, StacksStep, Zenon DEF Entered
<1>12. \A w \in Workers : started[w] \in {"no", "spawned"} => Depth(w)' = 0
  <2> SUFFICES ASSUME NEW w \in Workers, started[w] \in {"no", "spawned"} PROVE Depth(w)' = 0
    BY Zenon
  <2>1. Depth(w) = 0 /\ w \in Threads /\ w # Main
    BY <1>1, Zenon DEF MainInv, PhaseOK, Threads, ConstantsFit
  <2> QED
    BY <1>2, <2>1, Zenon DEF Entered, Others, Depth
<1> QED
  BY <1>2, <1>3, <1>4, <1>11, <1>12, Zenon

LEMMA RunBodyStep == ASSUME ConstantsFit, IInv, RunBody PROVE IInv'
<1>1. Types /\ MainInv /\ phase = "start" /\ phase' = "body" /\ Main \in Threads
      /\ UNCHANGED <<crash_info, process, next_call, exit_code, seh, rsp, sentinels,
                     tables, ghosts>>
  BY Zenon DEF IInv, RunBody, Threads
<1>2. Depth(Main) = 0
  <2>1. Depth(Main) \in Nat
    BY <1>1, StackTypes, Zenon
  <2> QED
    BY <1>1, <2>1, SMT, Z3 DEF MainInv, PhaseOK
<1>3. /\ Entered(Main, "body", << >>) /\ stack' \in [Threads -> Seq(Frames)] /\ StacksInv'
      /\ env' \in [Threads -> Nat] /\ code' \in [Threads -> Exits]
      /\ armed' \in [Threads -> BOOLEAN] /\ code'[Main] = 0
      /\ \A w \in Workers : started[w] \in {"no", "spawned"} => Depth(w)' = 0
  BY <1>2, MainEnters, SMT, Z3 DEF RunBody
<1>4. Types'
  BY <1>1, <1>3, Zenon DEF Types, seh, tables, ghosts
<1>5. /\ Depth(Main)' = 1 /\ Len(stack'[Main]) = 1 /\ stack'[Main][1].kind = "trap"
      /\ stack'[Main][1].what = "body" /\ stack'[Main][1].state = "body"
  <2>1. "body" \in Whats
    BY Zenon DEF Whats
  <2> QED
    BY <1>1, <1>2, <1>3, <2>1, TrapType, SMT, Z3 DEF Entered, Depth
<1>6. PhaseOK' /\ CallsOK'
  BY <1>1, <1>3, <1>5, SMT, Z3 DEF PhaseOK, CallsOK, DllInitContained, On, IsTrap, tables
<1>7. OutcomeOK'
  BY <1>1, <1>3, <1>5, SMT, Z3
     DEF MainInv, OutcomeOK, RunGoesOn, ExitCodeIsMains, Dispatching, ghosts
<1>8. FaultOK'
  BY <1>1, Zenon DEF MainInv, FaultOK, Dispatching, ghosts
<1>9. RspOK'
  BY <1>1, <1>5, Depths, ZenonT(40) DEF MainInv, RspOK, AtEntry, EntryRsp, IsTrap, Dispatching
<1>10. SentinelOK'
  BY <1>1, <1>5, SMT, Z3 DEF MainInv, SentinelOK, GuestReturnsToSentinel, ghosts
<1> QED
  BY <1>3, <1>4, <1>6, <1>7, <1>8, <1>9, <1>10, Zenon DEF IInv, MainInv

(* Where a call of invoke_guest_function is, and which sentinels it leaves. *)
LEMMA InvokeEffect ==
  ASSUME Types, Invoke
  PROVE  /\ InvokeAt(rsp) \in Slots /\ rsp' = InvokeAt(rsp) /\ rsp' \in Slots
         /\ rsp'.of = rsp.of /\ rsp'.at = rsp.at - 5 /\ rsp.at \in Int
         /\ sentinels' \subseteq Slots /\ rsp' \in sentinels'
         /\ \A s \in sentinels : (s.of = rsp.of => s.at >= rsp.at) => s \in sentinels'
<1>1. PICK r \in Slots : r = rsp
  BY Zenon DEF Types
<1>2. r.at \in Int /\ InvokeAt(r) = [r EXCEPT !.at = r.at - 5]
  BY Zenon DEF Slots, InvokeAt, Below
<1>3. InvokeAt(r) \in Slots /\ InvokeAt(r).of = r.of /\ InvokeAt(r).at = r.at - 5
  BY <1>2, SMT, Z3 DEF Slots
<1>4. rsp' = InvokeAt(r) /\ sentinels' = Spared(rsp') \cup {rsp'}
  BY <1>1, Zenon DEF Invoke
<1>5. \A s \in sentinels : s.at \in Int
  BY Zenon DEF Types, Slots
<1>6. ASSUME NEW s \in sentinels, s.of = r.of => s.at >= r.at PROVE s \in Spared(rsp')
  <2>1. s.of = rsp'.of => s.at > rsp'.at + 4
    BY <1>2, <1>3, <1>4, <1>5, <1>6, SMT, Z3
  <2> QED
    BY <2>1, Zenon DEF Spared
<1>7. Spared(rsp') \subseteq Slots
  BY Zenon DEF Spared, Types
<1> QED
  BY <1>1, <1>2, <1>3, <1>4, <1>6, <1>7, Zenon

(* The body has nothing on its trap: it is about to make its next call. *)
LEMMA InBodyFacts ==
  ASSUME ConstantsFit, IInv, InBody
  PROVE  /\ Depth(Main) = 1 /\ phase = "body" /\ process = "running" /\ Main \in Threads
         /\ IsTrap(Main, 1) /\ On(Main, 1, "body") /\ stack[Main][1].state = "body"
         /\ outcome = NoExit /\ fault = NoCrash /\ code[Main] = 0
         /\ next_call <= DllCalls + 1 => rsp = EntryRsp(Main) /\ AtEntry
<1>1. Types /\ Placed(Main) /\ MainInv /\ Main \in Threads
  BY Zenon DEF IInv, StacksInv, Threads
<1>2. stack[Main] # << >> /\ Guest(Main).kind = "trap" /\ process = "running"
      /\ Guest(Main).what = "body" /\ Guest(Main).state = "body"
  BY Zenon DEF InBody, OnTop, Guest
<1>3. PICK d \in Nat : d = Depth(Main) /\ d >= 1 /\ Guest(Main) = stack[Main][d] /\ IsTrap(Main, d)
  BY <1>1, <1>2, TopFacts, Zenon
<1>4. TrapPlace(Main, d)
  BY <1>1, <1>3, SMT, Z3 DEF Placed
<1>5. d = 1
  BY <1>2, <1>3, <1>4, Zenon DEF TrapPlace
<1>6. phase = "body" /\ On(Main, 1, "body")
  BY <1>1, <1>2, <1>3, <1>5, Zenon DEF MainInv, PhaseOK, On
<1>7. RunGoesOn
  BY <1>1, <1>2, <1>3, <1>5, <1>6, Zenon DEF MainInv, OutcomeOK
<1> QED
  BY <1>1, <1>2, <1>3, <1>5, <1>6, <1>7, SMT, Z3 DEF MainInv, RunGoesOn, RspOK

LEMMA InitDllStep == ASSUME ConstantsFit, IInv, InitDll PROVE IInv'
<1>1. Types /\ MainInv /\ InBody /\ next_call <= DllCalls /\ Invoke
      /\ EnterTrap(Main, "dll", <<Loop("dll", InvokeAt(rsp))>>)
      /\ UNCHANGED <<crash_info, process, phase, next_call, exit_code, seh, tables, ghosts>>
  BY Zenon DEF IInv, InitDll
<1>2. /\ Depth(Main) = 1 /\ phase = "body" /\ process = "running" /\ Main \in Threads
      /\ IsTrap(Main, 1) /\ On(Main, 1, "body") /\ stack[Main][1].state = "body"
      /\ outcome = NoExit /\ fault = NoCrash /\ code[Main] = 0
      /\ rsp = EntryRsp(Main) /\ AtEntry
  <2>1. next_call <= DllCalls + 1
    BY <1>1, SMT, Z3 DEF Types, ConstantsFit
  <2> QED
    BY <1>1, <2>1, InBodyFacts, Zenon
<1>3. /\ InvokeAt(rsp) \in Slots /\ rsp' = InvokeAt(rsp) /\ rsp' \in Slots
      /\ rsp.at \in Int /\ sentinels' \subseteq Slots /\ rsp' \in sentinels'
      /\ \A s \in sentinels : (s.of = rsp.of => s.at >= rsp.at) => s \in sentinels'
  BY <1>1, InvokeEffect, Zenon
<1>4. AtEntry'
  BY <1>2, <1>3, SMT, Z3 DEF AtEntry, EntryRsp
<1>5. PICK f \in Frames : /\ f = Loop("dll", InvokeAt(rsp)) /\ f.kind = "loop" /\ f.what = "dll"
                          /\ f.state = "body" /\ f.rsp = InvokeAt(rsp)
  <2>1. "dll" \in Whats
    BY Zenon DEF Whats
  <2>2. PICK s \in Slots : s = InvokeAt(rsp)
    BY <1>3, Zenon
  <2>3. Loop("dll", s) \in Frames /\ Loop("dll", s).kind = "loop" /\ Loop("dll", s).what = "dll"
        /\ Loop("dll", s).state = "body" /\ Loop("dll", s).rsp = s
    BY <2>1, LoopType, SMT, Z3
  <2> QED
    BY <2>2, <2>3, Zenon
<1>6. EnterTrap(Main, "dll", <<f>>) /\ <<f>> # << >> /\ <<f>>[1] = f /\ Len(<<f>>) = 1
  BY <1>1, <1>5, ZenonT(40)
<1>7. /\ Entered(Main, "dll", <<f>>) /\ stack' \in [Threads -> Seq(Frames)] /\ StacksInv'
      /\ env' \in [Threads -> Nat] /\ code' \in [Threads -> Exits]
      /\ armed' \in [Threads -> BOOLEAN] /\ code'[Main] = 0
      /\ \A w \in Workers : started[w] \in {"no", "spawned"} => Depth(w)' = 0
  BY <1>1, <1>2, <1>5, <1>6, MainEnters, SMT, Z3
<1>8. Types'
  BY <1>1, <1>3, <1>7, ZenonT(40) DEF Types, seh, tables, ghosts
<1>9. /\ Depth(Main)' = 3 /\ Len(stack'[Main]) = 3 /\ stack'[Main][1] = stack[Main][1]
      /\ stack'[Main][2].kind = "trap" /\ stack'[Main][2].code = 0
      /\ stack'[Main][2].rsp = EntryRsp(Main) /\ stack'[Main][3] = f
  <2>1. "dll" \in Whats
    BY ZenonT(40) DEF Whats
  <2>2. stack'[Main][2] = Trap(Main, "dll") /\ stack'[Main][3] = f /\ Depth(Main)' = 3
        /\ stack'[Main][1] = stack[Main][1]
    BY <1>2, <1>6, <1>7, SMT, Z3 DEF Entered, Kept
  <2> QED
    BY <1>1, <1>2, <2>1, <2>2, TrapType, SMT, Z3 DEF Depth
<1>10. PhaseOK' /\ CallsOK'
  BY <1>1, <1>2, <1>7, <1>9, Depths, Zenon
     DEF PhaseOK, CallsOK, DllInitContained, On, IsTrap, tables
<1>11. OutcomeOK'
  BY <1>1, <1>2, <1>9, Depths, Zenon
     DEF OutcomeOK, RunGoesOn, ExitCodeIsMains, Dispatching, ghosts, IsTrap
<1>12. FaultOK'
  BY <1>1, <1>2, Zenon DEF MainInv, FaultOK, Dispatching, ghosts
<1>13. RspOK'
  BY <1>1, <1>2, <1>4, <1>9, Depths, Zenon DEF RspOK, IsTrap, On, Dispatching
<1>14. SentinelOK'
  <2>1. fault'.rsp.of # Main
    BY <1>1, <1>2, ZenonT(40) DEF ghosts, NoCrash, Slot, ConstantsFit, Threads
  <2>2. \A i \in 1..Len(stack'[Main]) : i = 3 \/ stack'[Main][i].kind = "trap"
    BY <1>2, <1>9, SMT, Z3 DEF IsTrap
  <2>3. GuestReturnsToSentinel'
    BY <1>3, <1>5, <1>9, <2>2, Zenon DEF GuestReturnsToSentinel
  <2> QED
    BY <2>1, <2>3, Zenon DEF SentinelOK
<1> QED
  BY <1>7, <1>8, <1>10, <1>11, <1>12, <1>13, <1>14, Zenon DEF IInv, MainInv
=============================================================================
