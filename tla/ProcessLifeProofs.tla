------------------------- MODULE ProcessLifeProofs --------------------------
(***************************************************************************)
(* Theorems about ProcessLife, for any number of workers, DLLs, callbacks, *)
(* handlers and attempts, and any nesting of callbacks: the other steps of *)
(* run_pe_with_dir and of the workers keep the invariant of ProcessStacks, *)
(* and what follows from it.                                               *)
(***************************************************************************)
EXTENDS ProcessSteps, TLAPS

(* A trap is left. *)
LEMMA LeaveEffect ==
  ASSUME ConstantsFit, IInv, NEW t \in Threads, TrapOver(t), LeaveTrap(t)
  PROVE  /\ Popped(t) /\ stack' \in [Threads -> Seq(Frames)] /\ StacksInv'
         /\ Depth(t) \in Nat /\ Depth(t) >= 1 /\ Guest(t) = stack[t][Depth(t)]
         /\ IsTrap(t, Depth(t)) /\ TrapPlace(t, Depth(t)) /\ Guest(t).rsp \in Slots
         /\ stack[t][Depth(t)].state # "body"
         /\ env' \in [Threads -> Nat] /\ code' \in [Threads -> Exits]
         /\ armed' \in [Threads -> BOOLEAN] /\ code'[t] = Guest(t).code
         /\ \A u \in Threads \ {t} : code'[u] = code[u]
         /\ process = "running"
<1>1. Types /\ StacksInv /\ Nested(t) /\ Placed(t)
  BY Zenon DEF IInv, StacksInv
<1>2. stack[t] # << >> /\ Guest(t).kind = "trap" /\ process = "running" /\ Guest(t).state # "body"
  BY Zenon DEF TrapOver, OnTop, Guest
<1>3. /\ Depth(t) \in Nat /\ Depth(t) >= 1 /\ Guest(t) = stack[t][Depth(t)] /\ IsTrap(t, Depth(t))
      /\ Guest(t).rsp \in Slots /\ Guest(t).env \in Nat /\ Guest(t).code \in Exits
      /\ Guest(t).armed \in BOOLEAN
  BY <1>1, <1>2, TopFacts, Zenon
<1>4. Popped(t) /\ stack' \in [Threads -> Seq(Frames)]
  BY <1>1, <1>2, PopEffect, Zenon DEF LeaveTrap
<1>5. /\ env' \in [Threads -> Nat] /\ env'[t] = Guest(t).env
      /\ \A u \in Threads \ {t} : env'[u] = env[u]
  BY <1>1, <1>3, Zenon DEF LeaveTrap, Types
<1>6. /\ code' \in [Threads -> Exits] /\ code'[t] = Guest(t).code
      /\ \A u \in Threads \ {t} : code'[u] = code[u]
  BY <1>1, <1>3, Zenon DEF LeaveTrap, Types
<1>7. /\ armed' \in [Threads -> BOOLEAN] /\ armed'[t] = Guest(t).armed
      /\ \A u \in Threads \ {t} : armed'[u] = armed[u]
  BY <1>1, <1>3, Zenon DEF LeaveTrap, Types
<1>8. Nested(t)'
  BY <1>1, <1>3, <1>4, <1>5, <1>7, LeaveNested, Zenon
<1>9. Placed(t)'
  BY <1>1, <1>3, <1>4, PopPlaced, Zenon
<1>10. StacksInv'
  BY <1>1, <1>4, <1>5, <1>7, <1>8, <1>9, StacksStep, Zenon DEF Popped
<1>11. TrapPlace(t, Depth(t))
  <2>1. PICK d \in Nat : d = Depth(t) /\ d >= 1
    BY <1>3, Zenon
  <2> QED
    BY <1>1, <1>3, <2>1, SMT, Z3 DEF Placed
<1> QED
  BY <1>2, <1>3, <1>4, <1>5, <1>6, <1>7, <1>10, <1>11, Zenon

LEMMA DllCallEndsStep == ASSUME ConstantsFit, IInv, DllCallEnds PROVE IInv'
<1>1. Types /\ MainInv /\ TrapOver(Main) /\ LeaveTrap(Main) /\ Guest(Main).what = "dll"
      /\ next_call' = next_call + 1 /\ rsp' = Guest(Main).rsp
      /\ crash_info' \in {crash_info, NoCrash} /\ Main \in Threads
      /\ UNCHANGED <<process, phase, exit_code, seh, sentinels, tables, ghosts>>
  BY Zenon DEF IInv, DllCallEnds, Threads
<1>2. /\ Popped(Main) /\ stack' \in [Threads -> Seq(Frames)] /\ StacksInv'
      /\ Depth(Main) \in Nat /\ Depth(Main) >= 1 /\ Guest(Main) = stack[Main][Depth(Main)]
      /\ IsTrap(Main, Depth(Main)) /\ TrapPlace(Main, Depth(Main)) /\ Guest(Main).rsp \in Slots
      /\ env' \in [Threads -> Nat] /\ code' \in [Threads -> Exits]
      /\ armed' \in [Threads -> BOOLEAN] /\ code'[Main] = Guest(Main).code
      /\ process = "running"
  BY <1>1, LeaveEffect, Zenon
<1>3. Depth(Main) = 2 /\ On(Main, 1, "body") /\ IsTrap(Main, 2) /\ Guest(Main) = stack[Main][2]
  BY <1>1, <1>2, Zenon DEF TrapPlace, ConstantsFit
<1>4. phase = "body" /\ stack[Main][1].state = "body"
  <2>1. Placed(Main)
    BY <1>1, Zenon DEF IInv, StacksInv
  <2>2. stack[Main][1].state = "body"
    BY <1>3, <2>1, SMT, Z3 DEF Placed
  <2> QED
    BY <1>1, <1>3, <2>2, SMT, Z3 DEF MainInv, PhaseOK, On
<1>5. RunGoesOn /\ stack[Main][2].code = 0 /\ stack[Main][2].rsp = EntryRsp(Main) /\ AtEntry
  BY <1>1, <1>3, <1>4, SMT, Z3 DEF MainInv, OutcomeOK, RunGoesOn, RspOK
<1>6. Depth(Main)' = 1 /\ Len(stack'[Main]) = 1 /\ stack'[Main][1] = stack[Main][1]
  BY <1>2, <1>3, SMT, Z3 DEF Popped, Kept, Depth
<1>7. Types'
  <2>1. crash_info' \in Crashes
    BY <1>1, SMT, Z3 DEF Types, Crashes, NoCrash, Slot, Slots
  <2> QED
    BY <1>1, <1>2, <2>1, SMT, Z3 DEF Types, seh, tables, ghosts
<1>8. \A w \in Workers : started'[w] \in {"no", "spawned"} => Depth(w)' = 0
  BY <1>1, <1>2, WorkersBegun, Zenon DEF MainInv, Popped, tables
<1>9. PhaseOK' /\ CallsOK'
  BY <1>1, <1>3, <1>4, <1>6, <1>8 DEF PhaseOK, CallsOK, DllInitContained, On, IsTrap
<1>10. OutcomeOK'
  BY <1>1, <1>2, <1>3, <1>4, <1>5, <1>6, SMT, Z3
     DEF OutcomeOK, RunGoesOn, ExitCodeIsMains, Dispatching, ghosts
<1>11. FaultOK'
  BY <1>1, <1>4, Zenon DEF MainInv, FaultOK, Dispatching, ghosts
<1>12. RspOK'
  BY <1>1, <1>3, <1>4, <1>5, <1>6, SMT, Z3 DEF RspOK, AtEntry, EntryRsp, IsTrap, On, Dispatching
<1>13. SentinelOK'
  <2>1. fault'.rsp.of # Main
    BY <1>1, <1>5, Zenon DEF RunGoesOn, ghosts, NoCrash, Slot, ConstantsFit, Threads
  <2>2. GuestReturnsToSentinel'
    BY <1>3, <1>6, SMT, Z3 DEF GuestReturnsToSentinel, On, IsTrap
  <2> QED
    BY <2>1, <2>2, Zenon DEF SentinelOK
<1> QED
  BY <1>2, <1>7, <1>9, <1>10, <1>11, <1>12, <1>13, Zenon DEF IInv, MainInv

LEMMA RunEndsStep == ASSUME ConstantsFit, IInv, RunEnds PROVE IInv'
<1>1. Types /\ MainInv /\ TrapOver(Main) /\ LeaveTrap(Main)
      /\ Guest(Main).what \in {"body", "resume"} /\ Main \in Threads
      /\ exit_code' = Result(Main) /\ phase' = "ended"
      /\ UNCHANGED <<crash_info, process, next_call, seh, rsp, sentinels, tables, ghosts>>
  BY Zenon DEF IInv, RunEnds, IsMainRun, Threads
<1>2. /\ Popped(Main) /\ stack' \in [Threads -> Seq(Frames)] /\ StacksInv'
      /\ Depth(Main) \in Nat /\ Depth(Main) >= 1 /\ Guest(Main) = stack[Main][Depth(Main)]
      /\ IsTrap(Main, Depth(Main)) /\ TrapPlace(Main, Depth(Main))
      /\ stack[Main][Depth(Main)].state # "body"
      /\ env' \in [Threads -> Nat] /\ code' \in [Threads -> Exits]
      /\ armed' \in [Threads -> BOOLEAN] /\ process = "running"
  BY <1>1, LeaveEffect, Zenon
<1>3. Depth(Main) = 1 /\ IsTrap(Main, 1) /\ Guest(Main) = stack[Main][1]
      /\ stack[Main][1].state # "body"
  BY <1>1, <1>2, Zenon DEF TrapPlace, ConstantsFit
<1>4. stack[Main][1].state \in {"returned", "landed"}
  <2>1. stack[Main][1] \in Frames
    BY <1>1, <1>3, StackTypes, SMT, Z3
  <2> QED
    BY <1>3, <2>1, Zenon DEF Frames
<1>5. phase \in {"body", "resumed"} /\ next_call > DllCalls
  <2>1. phase \in {"body", "resumed"}
    BY <1>1, <1>3, SMT, Z3 DEF MainInv, PhaseOK, On
  <2> QED
    BY <1>1, <1>3, <2>1, Zenon DEF MainInv, CallsOK, DllInitContained
<1>6. exit_code' = outcome'
  BY <1>1, <1>3, <1>4, <1>5, Zenon DEF MainInv, OutcomeOK, Result, ghosts
<1>7. Depth(Main)' = 0 /\ Len(stack'[Main]) = 0
  BY <1>2, <1>3, SMT, Z3 DEF Popped, Depth
<1>8. Types'
  BY <1>1, <1>2, Zenon DEF Types, seh, tables, ghosts
<1>9. \A w \in Workers : started'[w] \in {"no", "spawned"} => Depth(w)' = 0
  BY <1>1, <1>2, WorkersBegun, Zenon DEF MainInv, Popped, tables
<1>10. PhaseOK' /\ CallsOK'
  BY <1>1, <1>5, <1>7, <1>9, SMT, Z3 DEF PhaseOK, CallsOK, DllInitContained
<1>11. OutcomeOK'
  BY <1>1, <1>6, Zenon DEF OutcomeOK, ExitCodeIsMains
<1>12. FaultOK'
  BY <1>1, Zenon DEF MainInv, FaultOK, Dispatching, ghosts
<1>13. RspOK'
  BY <1>1, <1>7, SMT, Z3 DEF RspOK, Dispatching
<1>14. SentinelOK'
  BY <1>1, <1>7, SMT, Z3 DEF MainInv, SentinelOK, GuestReturnsToSentinel, ghosts
<1> QED
  BY <1>2, <1>8, <1>10, <1>11, <1>12, <1>13, <1>14, Zenon DEF IInv, MainInv

(* A loop begins on the trap of the body, or, of a handler, at the bottom. *)
LEMMA MainPushes ==
  ASSUME ConstantsFit, IInv, NEW what \in {"tls", "entry", "handler"}, NEW at \in Slots,
         Push(Main, Loop(what, at)), UNCHANGED <<env, armed>>,
         NEW d \in {0, 1}, d = Depth(Main), d = 1 => InBody, d = 0 <=> what = "handler"
  PROVE  /\ stack' \in [Threads -> Seq(Frames)] /\ StacksInv' /\ Depth(Main)' = d + 1
         /\ stack'[Main][d + 1].kind = "loop" /\ stack'[Main][d + 1].what = what
         /\ stack'[Main][d + 1].rsp = at
         /\ d = 1 => stack'[Main][1] = stack[Main][1]
         /\ \A w \in Workers : started[w] \in {"no", "spawned"} => Depth(w)' = 0
<1>1. Types /\ StacksInv /\ Nested(Main) /\ Placed(Main) /\ MainInv /\ Main \in Threads
      /\ what \in Whats /\ d \in Nat
  BY SMT, Z3 DEF IInv, StacksInv, Threads, Whats
<1>2. PICK f \in Frames : /\ f = Loop(what, at) /\ f.kind = "loop" /\ f.what = what
                          /\ f.state = "body" /\ f.rsp = at
  BY <1>1, LoopType, SMT, Z3
<1>3. Pushed(Main, f) /\ stack' \in [Threads -> Seq(Frames)]
  BY <1>1, <1>2, PushEffect, Zenon
<1>4. Nested(Main)'
  BY <1>1, <1>2, <1>3, PushNested, Zenon
<1>5. d = 1 => On(Main, 1, "body") /\ stack[Main][1].state = "body"
  BY InBodyFacts, Zenon
<1>6. /\ Depth(Main)' = d + 1 /\ stack'[Main][d + 1] = f
      /\ d = 1 => stack'[Main][1] = stack[Main][1]
  BY <1>3, SMT, Z3 DEF Pushed, Kept
<1>7. LoopPlace(Main, d + 1)'
  <2>1. CASE d = 0
    BY <1>2, <1>6, <2>1, SMT, Z3 DEF LoopPlace
  <2>2. CASE d = 1
    BY <1>2, <1>5, <1>6, <2>2, SMT, Z3 DEF LoopPlace, On, IsTrap
  <2> QED
    BY <2>1, <2>2, Zenon
<1>8. Placed(Main)'
  <2>1. d = 0 \/ stack[Main][d].state = "body"
    BY <1>5, Zenon
  <2> QED
    BY <1>1, <1>2, <1>3, <1>7, <2>1, PushPlaced, Zenon
<1>9. StacksInv'
  BY <1>1, <1>3, <1>4, <1>8, StacksStep, Zenon DEF Pushed
<1>10. \A w \in Workers : started[w] \in {"no", "spawned"} => Depth(w)' = 0
  <2> SUFFICES ASSUME NEW w \in Workers, started[w] \in {"no", "spawned"} PROVE Depth(w)' = 0
    BY Zenon
  <2>1. Depth(w) = 0 /\ w \in Threads /\ w # Main
    BY <1>1, Zenon DEF MainInv, PhaseOK, Threads, ConstantsFit
  <2> QED
    BY <1>3, <2>1, Zenon DEF Pushed, Others, Depth
<1> QED
  BY <1>2, <1>3, <1>6, <1>9, <1>10, Zenon

LEMMA TlsCallbackStep == ASSUME ConstantsFit, IInv, TlsCallback PROVE IInv'
<1>1. Types /\ MainInv /\ InBody /\ next_call > DllCalls /\ Invoke
      /\ Push(Main, Loop("tls", InvokeAt(rsp)))
      /\ UNCHANGED <<env, code, armed, crash_info, process, phase, next_call, exit_code,
                     seh, tables, ghosts>>
  BY SMT, Z3 DEF IInv, TlsCallback, ConstantsFit
<1>2. /\ Depth(Main) = 1 /\ phase = "body" /\ IsTrap(Main, 1) /\ On(Main, 1, "body")
      /\ stack[Main][1].state = "body"
      /\ outcome = NoExit /\ fault = NoCrash /\ code[Main] = 0
  BY <1>1, InBodyFacts, Zenon
<1>3. /\ InvokeAt(rsp) \in Slots /\ rsp' = InvokeAt(rsp) /\ rsp' \in Slots
      /\ sentinels' \subseteq Slots /\ rsp' \in sentinels'
  BY <1>1, InvokeEffect, Zenon
<1>4. PICK at \in Slots : at = InvokeAt(rsp)
  BY <1>3, Zenon
<1>5. /\ stack' \in [Threads -> Seq(Frames)] /\ StacksInv' /\ Depth(Main)' = 2
      /\ stack'[Main][2].kind = "loop" /\ stack'[Main][2].rsp = at
      /\ stack'[Main][1] = stack[Main][1]
      /\ \A w \in Workers : started[w] \in {"no", "spawned"} => Depth(w)' = 0
  <2>1. Push(Main, Loop("tls", at)) /\ UNCHANGED <<env, armed>>
    BY <1>1, <1>4, Zenon
  <2> QED
    BY <1>1, <1>2, <2>1, MainPushes, SMT, Z3
<1>6. Types'
  BY <1>1, <1>3, <1>5, Zenon DEF Types, seh, tables, ghosts
<1>7. PhaseOK' /\ CallsOK'
  BY <1>1, <1>2, <1>5, SMT, Z3 DEF PhaseOK, CallsOK, DllInitContained, On, IsTrap, tables
<1>8. OutcomeOK'
  BY <1>1, <1>2, <1>5, Zenon
     DEF OutcomeOK, RunGoesOn, ExitCodeIsMains, Dispatching, ghosts, IsTrap
<1>9. FaultOK'
  BY <1>1, <1>2, Zenon DEF MainInv, FaultOK, Dispatching, ghosts
<1>10. RspOK'
  BY <1>1, <1>2, <1>5, Zenon DEF RspOK, IsTrap, On, Dispatching
<1>11. SentinelOK'
  <2>1. fault'.rsp.of # Main
    BY <1>1, <1>2, Zenon DEF ghosts, NoCrash, Slot, ConstantsFit, Threads
  <2>2. \A i \in 1..Len(stack'[Main]) : i = 2 \/ stack'[Main][i].kind = "trap"
    BY <1>2, <1>5, SMT, Z3 DEF IsTrap, Depth
  <2>3. GuestReturnsToSentinel'
    BY <1>3, <1>4, <1>5, <2>2, ZenonT(40) DEF GuestReturnsToSentinel
  <2> QED
    BY <2>1, <2>3, SMT, Z3 DEF SentinelOK
<1> QED
  BY <1>5, <1>6, <1>7, <1>8, <1>9, <1>10, <1>11, Zenon DEF IInv, MainInv

(* ... and ends. *)
LEMMA MainPops ==
  ASSUME ConstantsFit, IInv, RunsGuest(Main), Guest(Main).what \in {"tls", "handler"}, Pop(Main),
         UNCHANGED <<env, armed>>
  PROVE  /\ stack' \in [Threads -> Seq(Frames)] /\ StacksInv' /\ process = "running"
         /\ Main \in Threads /\ Guest(Main).rsp \in Slots
         /\ \A w \in Workers : started[w] \in {"no", "spawned"} => Depth(w)' = 0
         /\ Guest(Main).what = "tls" =>
              /\ Depth(Main) = 2 /\ ~IsTrap(Main, 2) /\ On(Main, 1, "body")
              /\ stack[Main][1].state = "body"
              /\ Depth(Main)' = 1 /\ stack'[Main][1] = stack[Main][1]
         /\ Guest(Main).what = "handler" =>
              /\ Depth(Main) = 1 /\ ~IsTrap(Main, 1) /\ Guest(Main) = stack[Main][1]
              /\ Depth(Main)' = 0
<1>1. Types /\ StacksInv /\ Nested(Main) /\ Placed(Main) /\ MainInv /\ Main \in Threads
  BY Zenon DEF IInv, StacksInv, Threads
<1>2. stack[Main] # << >> /\ Guest(Main).kind = "loop" /\ process = "running"
  BY Zenon DEF RunsGuest, OnTop, Guest
<1>3. PICK d \in Nat : d = Depth(Main) /\ d >= 1 /\ ~IsTrap(Main, d) /\ Guest(Main) = stack[Main][d]
                       /\ Guest(Main).rsp \in Slots
  BY <1>1, <1>2, TopFacts, Zenon
<1>4. LoopPlace(Main, d)
  BY <1>1, <1>3, SMT, Z3 DEF Placed
<1>5. Popped(Main) /\ stack' \in [Threads -> Seq(Frames)]
  BY <1>1, <1>2, PopEffect, Zenon
<1>6. StacksInv'
  <2>1. Nested(Main)'
    BY <1>1, <1>3, <1>5, PopNested, Zenon
  <2>2. Placed(Main)'
    BY <1>1, <1>3, <1>5, PopPlaced, Zenon
  <2> QED
    BY <1>1, <1>5, <2>1, <2>2, StacksStep, Zenon DEF Popped
<1>7. \A w \in Workers : started[w] \in {"no", "spawned"} => Depth(w)' = 0
  <2> SUFFICES ASSUME NEW w \in Workers, started[w] \in {"no", "spawned"} PROVE Depth(w)' = 0
    BY Zenon
  <2>1. Depth(w) = 0 /\ w \in Threads /\ w # Main
    BY <1>1, Zenon DEF MainInv, PhaseOK, Threads, ConstantsFit
  <2> QED
    BY <1>5, <2>1, Zenon DEF Popped, Others, Depth
<1>8. Guest(Main).what = "tls" => d = 2 /\ On(Main, 1, "body")
  BY <1>3, <1>4, Zenon DEF LoopPlace
<1>9. Guest(Main).what = "handler" => d = 1
  BY <1>3, <1>4, Zenon DEF LoopPlace
<1>10. d = 2 => stack[Main][1].state = "body" /\ stack'[Main][1] = stack[Main][1]
  BY <1>1, <1>3, <1>5, SMT, Z3 DEF Placed, Popped, Kept
<1>11. Depth(Main)' = d - 1
  BY <1>3, <1>5, Zenon DEF Popped
<1> QED
  BY <1>1, <1>2, <1>3, <1>5, <1>6, <1>7, <1>8, <1>9, <1>10, <1>11, SMT, Z3

LEMMA Nearby ==
  ASSUME NEW s \in Slots
  PROVE  Below(s, -1) \in Slots /\ Below(s, -1).of = s.of /\ Below(s, -1).at = s.at + 1
BY SMT, Z3 DEF Below, Slots

LEMMA TlsCallbackEndsStep == ASSUME ConstantsFit, IInv, TlsCallbackEnds PROVE IInv'
<1>1. Types /\ MainInv /\ RunsGuest(Main) /\ Guest(Main).what = "tls" /\ Pop(Main)
      /\ rsp' \in {Guest(Main).rsp, Below(Guest(Main).rsp, -1)} /\ next_call' = next_call + 1
      /\ UNCHANGED <<env, code, armed, crash_info, process, phase, exit_code, seh,
                     sentinels, tables, ghosts>>
  BY Zenon DEF IInv, TlsCallbackEnds
<1>2. /\ stack' \in [Threads -> Seq(Frames)] /\ StacksInv' /\ process = "running"
      /\ Main \in Threads /\ Guest(Main).rsp \in Slots
      /\ \A w \in Workers : started[w] \in {"no", "spawned"} => Depth(w)' = 0
      /\ Depth(Main) = 2 /\ ~IsTrap(Main, 2) /\ On(Main, 1, "body")
      /\ stack[Main][1].state = "body"
      /\ Depth(Main)' = 1 /\ stack'[Main][1] = stack[Main][1]
  BY <1>1, MainPops, Zenon
<1>3. rsp' \in Slots
  <2>1. PICK s \in Slots : s = Guest(Main).rsp
    BY <1>2, Zenon
  <2> QED
    BY <1>1, <2>1, Nearby, Zenon
<1>4. Types'
  BY <1>1, <1>2, <1>3, SMT, Z3 DEF Types, seh, tables, ghosts
<1>5. phase = "body" /\ next_call > DllCalls /\ RunGoesOn
  <2>1. phase = "body"
    BY <1>1, <1>2, SMT, Z3 DEF MainInv, PhaseOK, On
  <2> QED
    BY <1>1, <1>2, <2>1, SMT, Z3 DEF MainInv, CallsOK, OutcomeOK
<1>6. next_call' > DllCalls + 1
  BY <1>1, <1>5, SMT, Z3 DEF Types, ConstantsFit
<1>7. PhaseOK' /\ CallsOK'
  BY <1>1, <1>2, <1>5, SMT, Z3 DEF PhaseOK, CallsOK, DllInitContained, On, IsTrap, tables
<1>8. OutcomeOK'
  BY <1>1, <1>2, <1>5, SMT, Z3 DEF OutcomeOK, RunGoesOn, ExitCodeIsMains, Dispatching, ghosts
<1>9. FaultOK'
  BY <1>1, <1>5, ZenonT(40) DEF MainInv, FaultOK, Dispatching, ghosts
<1>10. RspOK'
  <2>1. ~(next_call' <= DllCalls + 1)
    BY <1>1, <1>6, SMT, Z3 DEF Types, ConstantsFit
  <2> QED
    BY <1>1, <1>2, <1>5, <2>1, SMT, Z3 DEF RspOK, IsTrap, On, Dispatching
<1>11. SentinelOK'
  <2>1. fault'.rsp.of # Main
    BY <1>1, <1>5, Zenon DEF RunGoesOn, ghosts, NoCrash, Slot, ConstantsFit, Threads
  <2>2. GuestReturnsToSentinel'
    BY <1>2, SMT, Z3 DEF GuestReturnsToSentinel, On, IsTrap, Depth
  <2> QED
    BY <2>1, <2>2, SMT, Z3 DEF SentinelOK
<1> QED
  BY <1>2, <1>4, <1>7, <1>8, <1>9, <1>10, <1>11, Zenon DEF IInv, MainInv

LEMMA EntryPointStep == ASSUME ConstantsFit, IInv, EntryPoint PROVE IInv'
<1>1. Types /\ MainInv /\ InBody /\ next_call > DllCalls
      /\ Push(Main, Loop("entry", rsp)) /\ sentinels' = Spared(rsp)
      /\ next_call' = next_call + 1 /\ skewed' = (next_call > DllCalls + 1)
      /\ UNCHANGED <<env, code, armed, crash_info, process, phase, exit_code, seh, rsp,
                     tables, outcome, fault, others_faulted>>
  BY Zenon DEF IInv, EntryPoint
<1>2. /\ Depth(Main) = 1 /\ phase = "body" /\ IsTrap(Main, 1) /\ On(Main, 1, "body")
      /\ stack[Main][1].state = "body"
      /\ outcome = NoExit /\ fault = NoCrash /\ code[Main] = 0
      /\ next_call <= DllCalls + 1 => rsp = EntryRsp(Main) /\ AtEntry
  BY <1>1, InBodyFacts, Zenon
<1>3. PICK at \in Slots : at = rsp
  BY <1>1, ZenonT(40) DEF Types
<1>4. /\ stack' \in [Threads -> Seq(Frames)] /\ StacksInv' /\ Depth(Main)' = 2
      /\ stack'[Main][2].kind = "loop" /\ stack'[Main][2].rsp = at
      /\ stack'[Main][2].what = "entry" /\ stack'[Main][1] = stack[Main][1]
      /\ \A w \in Workers : started[w] \in {"no", "spawned"} => Depth(w)' = 0
  <2>1. Push(Main, Loop("entry", at)) /\ UNCHANGED <<env, armed>>
    BY <1>1, <1>3, Zenon
  <2>2. PICK d \in {0, 1} : d = 1 /\ d + 1 = 2 /\ d # 0
    OBVIOUS
  <2>3. "entry" \in {"tls", "entry", "handler"} /\ "entry" # "handler"
    OBVIOUS
  <2>4. /\ stack' \in [Threads -> Seq(Frames)] /\ StacksInv' /\ Depth(Main)' = d + 1
        /\ stack'[Main][d + 1].kind = "loop" /\ stack'[Main][d + 1].what = "entry"
        /\ stack'[Main][d + 1].rsp = at
        /\ d = 1 => stack'[Main][1] = stack[Main][1]
        /\ \A w \in Workers : started[w] \in {"no", "spawned"} => Depth(w)' = 0
    BY <1>1, <1>2, <2>1, <2>2, <2>3, MainPushes, Zenon
  <2> QED
    BY <2>2, <2>4, Zenon
<1>5. sentinels' \subseteq Slots /\ (~skewed' => at \in sentinels')
  <2>1. sentinels' \subseteq Slots
    BY <1>1, Zenon DEF Spared, Types
  <2>2. ~skewed' => next_call <= DllCalls + 1
    <3>1. next_call \in Nat /\ DllCalls \in Nat
      BY <1>1, Zenon DEF Types, ConstantsFit
    <3>2. ~(next_call > DllCalls + 1) => next_call <= DllCalls + 1
      BY <3>1, SMT, Z3
    <3> QED
      BY <1>1, <3>2, Zenon
  <2>3. ~skewed' => at \in sentinels
    BY <1>2, <1>3, <2>2, ZenonT(40) DEF AtEntry
  <2> QED
    BY <1>1, <1>3, <2>1, <2>3, Zenon DEF Spared
<1>6. Types'
  <2>1. skewed' \in BOOLEAN
    <3>1. (next_call > DllCalls + 1) \in BOOLEAN
      BY SMT, SMT, Z3
    <3> QED
      BY <1>1, <3>1, Zenon
  <2> QED
    BY <1>1, <1>4, <1>5, <2>1, SMT, Z3 DEF Types, seh, tables
<1>7. PhaseOK' /\ CallsOK'
  <2>1. next_call' > DllCalls
    BY <1>1, SMT, Z3 DEF Types, ConstantsFit
  <2> QED
    BY <1>1, <1>2, <1>4, <2>1, SMT, Z3 DEF PhaseOK, CallsOK, DllInitContained, On, IsTrap, tables
<1>8. OutcomeOK'
  BY <1>1, <1>2, <1>4, Zenon DEF OutcomeOK, RunGoesOn, ExitCodeIsMains, Dispatching, IsTrap
<1>9. FaultOK'
  BY <1>1, <1>2, Zenon DEF MainInv, FaultOK, Dispatching
<1>10. RspOK'
  BY <1>1, <1>2, <1>4, Zenon DEF RspOK, IsTrap, On, Dispatching
<1>11. SentinelOK'
  <2>1. fault'.rsp.of # Main
    BY <1>1, <1>2, Zenon DEF NoCrash, Slot, ConstantsFit, Threads
  <2>2. \A i \in 1..Len(stack'[Main]) : i = 2 \/ stack'[Main][i].kind = "trap"
    BY <1>2, <1>4, SMT, Z3 DEF IsTrap, Depth
  <2>3. GuestReturnsToSentinel'
    BY <1>4, <1>5, <2>2, Zenon DEF GuestReturnsToSentinel
  <2> QED
    BY <2>1, <2>3 DEF SentinelOK
<1> QED
  BY <1>4, <1>6, <1>7, <1>8, <1>9, <1>10, <1>11, Zenon DEF IInv, MainInv
-----------------------------------------------------------------------------
(* The exception loop, between two runs of the guest. *)
LEMMA BetweenRuns ==
  ASSUME ConstantsFit, IInv, NEW p, Between(p)
  PROVE  Types /\ StacksInv /\ MainInv /\ Main \in Threads /\ Depth(Main) = 0
         /\ process = "running" /\ phase = p
<1>1. Types /\ StacksInv /\ MainInv /\ Main \in Threads
  BY Zenon DEF IInv, Threads
<1> QED
  BY <1>1, EmptyDepth, Zenon DEF Between

(* A step of the loop that runs no guest code. *)
LEMMA LoopStep ==
  ASSUME ConstantsFit, IInv, NEW p \in {"ended"} \cup Dispatching, Between(p),
         NEW q \in {"done"} \cup Dispatching, phase' = q,
         UNCHANGED <<traps, process, next_call, exit_code, sentinels, tables,
                     outcome, fault, others_faulted>>,
         crash_info' \in Crashes, context' \in Crashes, rsp' \in Slots, skewed' \in BOOLEAN,
         FaultOK', skewed => skewed',
         q # "done" => rsp'.of = context'.rsp.of /\ rsp'.at <= context'.rsp.at,
         q = "resume" /\ ~skewed' => rsp' = context'.rsp
  PROVE  IInv'
<1>1. Types /\ StacksInv /\ MainInv /\ Main \in Threads /\ Depth(Main) = 0 /\ phase = p
  BY BetweenRuns, Zenon
<1>2. Types'
  BY <1>1, Zenon DEF Types, traps, tables
<1>3. StacksInv'
  BY <1>1, StacksSame, Zenon
<1>4. Depth(Main)' = 0 /\ Len(stack'[Main]) = 0
  BY <1>1, Zenon DEF Depth, traps
<1>5. \A w \in Workers : started'[w] \in {"no", "spawned"} => Depth(w)' = 0
  BY <1>1, Zenon DEF MainInv, PhaseOK, Depth, traps, tables
<1>6. p \notin {"start", "body", "resumed"} /\ q \notin {"start", "body", "resumed"}
  BY Zenon DEF Dispatching
<1>7. PhaseOK' /\ CallsOK'
  BY <1>1, <1>4, <1>5, <1>6, SMT, Z3 DEF MainInv, PhaseOK, CallsOK, DllInitContained
<1>8. OutcomeOK'
  BY <1>1, <1>6, Zenon DEF MainInv, OutcomeOK, ExitCodeIsMains
<1>9. RspOK'
  <2>1. q = "done" => q \notin Dispatching /\ q # "resume"
    BY Zenon DEF Dispatching
  <2> QED
    BY <1>4, <1>6, <2>1, SMT, Z3 DEF RspOK
<1>10. SentinelOK'
  BY <1>1, <1>4, SMT, Z3 DEF MainInv, SentinelOK, GuestReturnsToSentinel
<1> QED
  BY <1>2, <1>3, <1>7, <1>8, <1>9, <1>10, SMT, Z3 DEF IInv, MainInv

LEMMA StopStep ==
  ASSUME ConstantsFit, IInv, RunReturns \/ NoRecord \/ GiveUp
  PROVE  IInv'
<1>1. PICK p \in {"ended", "unhandled"} : Between(p)
  BY Zenon DEF RunReturns, NoRecord, GiveUp
<1>2. Go("done") /\ UNCHANGED <<crash_info, context, rsp>>
  BY Zenon DEF RunReturns, NoRecord, GiveUp, seh
<1>3. Types /\ MainInv
  BY Zenon DEF IInv
<1>4. FaultOK'
  BY <1>2, <1>3, Zenon DEF MainInv, FaultOK, Go, Dispatching, ghosts
<1> QED
  BY <1>1, <1>2, <1>3, <1>4, LoopStep, SMT, Z3 DEF Go, Types, ghosts, Dispatching

(* The registers during a dispatch. *)
LEMMA AtOrBelow ==
  ASSUME MainInv, phase \in Dispatching
  PROVE  rsp.of = context.rsp.of /\ rsp.at <= context.rsp.at
BY Zenon DEF MainInv, RspOK

LEMMA SearchGoesOn ==
  ASSUME ConstantsFit, IInv, VectoredDone \/ NoFilter \/ NoStatic
  PROVE  IInv'
<1>1. PICK p \in {"vectored", "filter", "static"} : Between(p)
  BY Zenon DEF VectoredDone, NoFilter, NoStatic
<1>2. PICK q \in {"filter", "static", "unhandled"} : Go(q)
  BY Zenon DEF VectoredDone, NoFilter, NoStatic
<1>3. UNCHANGED <<crash_info, context, rsp>> /\ phase = p
  BY <1>1, Zenon DEF VectoredDone, NoFilter, NoStatic, seh, Between
<1>4. Types /\ MainInv
  BY Zenon DEF IInv
<1>5. p \in Dispatching /\ q \in Dispatching /\ q # "resume" /\ q # "done"
  BY Zenon DEF Dispatching
<1>6. FaultOK'
  BY <1>2, <1>3, <1>4, <1>5, Zenon DEF MainInv, FaultOK, Go, ghosts
<1>7. rsp.of = context.rsp.of /\ rsp.at <= context.rsp.at
  BY <1>3, <1>4, <1>5, AtOrBelow, Zenon
<1> QED
  BY <1>1, <1>2, <1>3, <1>4, <1>5, <1>6, <1>7, LoopStep, SMT, Z3 DEF Go, Types, ghosts

LEMMA DispatchSehStep == ASSUME ConstantsFit, IInv, DispatchSeh PROVE IInv'
<1>1. Between("ended") /\ Go("vectored") /\ crash_info # NoCrash /\ crash_info' = NoCrash
      /\ context' = crash_info /\ rsp' = crash_info.rsp
  BY Zenon DEF DispatchSeh, BuildContext
<1>2. Types /\ MainInv /\ process = "running"
  BY <1>1, Zenon DEF IInv, Between
<1>3. NoCrash \in Crashes /\ crash_info.rsp \in Slots /\ crash_info.rsp.at \in Int
  BY <1>2, SMT, Z3 DEF Types, Crashes, NoCrash, Slot, Slots
<1>4. FaultOK'
  BY <1>1, <1>2, SMT, Z3 DEF MainInv, FaultOK, Go, ghosts
<1>5. rsp'.of = context'.rsp.of /\ rsp'.at <= context'.rsp.at
  BY <1>1, <1>3, SMT, Z3
<1> QED
  BY <1>1, <1>2, <1>3, <1>4, <1>5, LoopStep, Zenon DEF Go, Types, ghosts, Dispatching

LEMMA RecoverStep == ASSUME ConstantsFit, IInv, Recover PROVE IInv'
<1>1. Between("unhandled") /\ phase' = "resume" /\ phase = "unhandled"
      /\ skewed' = (skewed \/ rsp # context.rsp)
      /\ UNCHANGED <<traps, crash_info, process, next_call, exit_code, context, rsp, sentinels,
                     tables, outcome, fault, others_faulted>>
  BY Zenon DEF Recover, Between, seh
<1>2. Types /\ MainInv /\ phase \in Dispatching
  BY <1>1, Zenon DEF IInv, Dispatching
<1>3. skewed' \in BOOLEAN /\ (skewed => skewed') /\ (~skewed' => rsp' = context'.rsp)
  BY <1>1, Zenon
<1>4. FaultOK'
  BY <1>1, <1>2, Zenon DEF MainInv, FaultOK
<1>5. rsp.of = context.rsp.of /\ rsp.at <= context.rsp.at
  BY <1>2, AtOrBelow, Zenon
<1> QED
  BY <1>1, <1>2, <1>3, <1>4, <1>5, LoopStep, Zenon DEF Types, Dispatching

(* A handler is called, outside of any trap: below the fault, so that the   *)
(* sentinel of the code that faulted stays.                                 *)
LEMMA CallHandlerStep ==
  ASSUME ConstantsFit, IInv, CallVectored \/ CallFilter \/ CallStatic
  PROVE  IInv'
<1>1. PICK p \in {"vectored", "filter", "static"} : Between(p)
  BY Zenon DEF CallVectored, CallFilter, CallStatic
<1>2. CallHandler
  BY Zenon DEF CallVectored, CallFilter, CallStatic
<1>3. Types /\ StacksInv /\ MainInv /\ Main \in Threads /\ Depth(Main) = 0
      /\ process = "running" /\ phase = p
  BY <1>1, BetweenRuns, Zenon
<1>4. p \in Dispatching /\ p \notin {"start", "body", "resumed", "resume"}
  BY Zenon DEF Dispatching
<1>5. Push(Main, Loop("handler", InvokeAt(rsp))) /\ Invoke
      /\ UNCHANGED <<env, code, armed, crash_info, process, phase, next_call, exit_code,
                     seh_attempts, context, tables, ghosts>>
  BY <1>2, Zenon DEF CallHandler
<1>6. /\ InvokeAt(rsp) \in Slots /\ rsp' = InvokeAt(rsp) /\ rsp' \in Slots
      /\ rsp'.of = rsp.of /\ rsp'.at = rsp.at - 5 /\ rsp.at \in Int
      /\ sentinels' \subseteq Slots /\ rsp' \in sentinels'
      /\ \A s \in sentinels : (s.of = rsp.of => s.at >= rsp.at) => s \in sentinels'
  BY <1>3, <1>5, InvokeEffect, Zenon
<1>7. PICK at \in Slots : at = InvokeAt(rsp)
  BY <1>6, Zenon
<1>8. /\ stack' \in [Threads -> Seq(Frames)] /\ StacksInv' /\ Depth(Main)' = 1
      /\ stack'[Main][1].kind = "loop" /\ stack'[Main][1].rsp = at
      /\ \A w \in Workers : started[w] \in {"no", "spawned"} => Depth(w)' = 0
  <2>1. Push(Main, Loop("handler", at)) /\ UNCHANGED <<env, armed>>
    BY <1>5, <1>7, Zenon
  <2> QED
    BY <1>3, <2>1, MainPushes, SMT, Z3
<1>9. Types'
  BY <1>3, <1>5, <1>6, <1>8, Zenon DEF Types, tables, ghosts
<1>10. PhaseOK' /\ CallsOK'
  BY <1>3, <1>4, <1>5, <1>8, Zenon
     DEF MainInv, PhaseOK, CallsOK, DllInitContained, IsTrap, tables
<1>11. OutcomeOK' /\ FaultOK'
  BY <1>3, <1>4, <1>5, Zenon DEF MainInv, OutcomeOK, ExitCodeIsMains, FaultOK, ghosts
<1>12. /\ rsp.of = context.rsp.of /\ rsp.at <= context.rsp.at
       /\ context.rsp.at \in Int
  <2>1. context.rsp.at \in Int
    BY <1>3, Zenon DEF Types, Crashes, Slots
  <2> QED
    BY <1>3, <1>4, <2>1, AtOrBelow, Zenon
<1>13. rsp'.of = context.rsp.of /\ rsp'.at <= context.rsp.at /\ rsp'.at + 1 <= context.rsp.at
  BY <1>6, <1>12, SMT, Z3
<1>14. RspOK'
  BY <1>3, <1>4, <1>5, <1>6, <1>7, <1>8, <1>13, SMT, Z3 DEF RspOK
<1>15. SentinelOK'
  <2>1. GuestReturnsToSentinel'
    BY <1>6, <1>7, <1>8, SMT, Z3 DEF GuestReturnsToSentinel, Depth
  <2>2. ASSUME ~skewed, ~others_faulted, fault.rsp.of = Main PROVE fault.rsp \in sentinels'
    <3>1. fault.rsp \in sentinels /\ context = fault
      BY <1>3, <1>4, <2>2, Zenon DEF MainInv, SentinelOK, FaultOK
    <3>2. fault.rsp.at >= rsp.at
      BY <1>6, <1>12, <3>1, Zenon
    <3> QED
      BY <1>6, <3>1, <3>2, Zenon
  <2> QED
    BY <1>5, <2>1, <2>2, ZenonT(40) DEF SentinelOK, ghosts
<1> QED
  BY <1>8, <1>9, <1>10, <1>11, <1>14, <1>15, Zenon DEF IInv, MainInv

(* It returns, or fails. *)
LEMMA HandlerEndsStep ==
  ASSUME ConstantsFit, IInv, HandlerFails \/ \E d \in Dispositions : HandlerReturns(d)
  PROVE  IInv'
<1>1. RunsGuest(Main) /\ Guest(Main).what = "handler" /\ Pop(Main)
      /\ UNCHANGED <<env, code, armed, crash_info, process, next_call, exit_code,
                     seh_attempts, context, sentinels, tables, ghosts>>
  BY Zenon DEF HandlerFails, HandlerReturns
<1>2. Types /\ MainInv
  BY Zenon DEF IInv
<1>3. /\ stack' \in [Threads -> Seq(Frames)] /\ StacksInv' /\ process = "running"
      /\ Main \in Threads /\ Guest(Main).rsp \in Slots
      /\ \A w \in Workers : started[w] \in {"no", "spawned"} => Depth(w)' = 0
      /\ Depth(Main) = 1 /\ ~IsTrap(Main, 1) /\ Guest(Main) = stack[Main][1]
      /\ Depth(Main)' = 0
  BY <1>1, MainPops, ZenonT(40)
<1>4. phase \in {"vectored", "filter", "static"}
  BY <1>2, <1>3, SMT, Z3 DEF MainInv, PhaseOK, On
<1>5. PICK s \in Slots : s = Guest(Main).rsp
  BY <1>3, Zenon
<1>6. /\ phase' \in {"resume", "vectored", "static", "unhandled"}
      /\ phase' = "resume" => rsp' = context.rsp
      /\ phase' # "resume" => rsp' \in {s, Below(s, -1)}
  <2>1. CASE HandlerFails
    BY <1>5, <2>1, Zenon DEF HandlerFails
  <2>2. ASSUME NEW d \in Dispositions, HandlerReturns(d), d = "continue"
        PROVE  phase' = "resume" /\ rsp' = context.rsp
    BY <2>2, Zenon DEF HandlerReturns
  <2>3. ASSUME NEW d \in Dispositions, HandlerReturns(d), d # "continue"
        PROVE  phase' \in {"vectored", "static", "unhandled"} /\ rsp' \in {s, Below(s, -1)}
    <3>1. rsp' \in {s, Below(s, -1)}
      BY <1>5, <2>3, Zenon DEF HandlerReturns
    <3>2. phase' = CASE d = "continue" -> "resume"
                     [] d # "continue" /\ phase = "vectored" -> "vectored"
                     [] d # "continue" /\ phase = "filter" -> "static"
                     [] d # "continue" /\ phase = "static" -> "unhandled"
      BY <2>3, Zenon DEF HandlerReturns
    <3> QED
      BY <1>4, <2>3, <3>1, <3>2, Zenon
  <2> QED
    BY <2>1, <2>2, <2>3, Zenon
<1>7. s.of = context.rsp.of /\ s.at + 1 <= context.rsp.at /\ s.at \in Int
      /\ context.rsp \in Slots /\ context.rsp.at \in Int
  <2>1. s.of = context.rsp.of /\ s.at + 1 <= context.rsp.at
    BY <1>2, <1>3, <1>5, SMT, Z3 DEF MainInv, RspOK
  <2> QED
    BY <1>2, <2>1, Zenon DEF Types, Crashes, Slots
<1>8. rsp' \in Slots /\ rsp'.of = context.rsp.of /\ rsp'.at <= context.rsp.at
  <2>1. Below(s, -1) \in Slots /\ Below(s, -1).of = s.of /\ Below(s, -1).at = s.at + 1
    BY Nearby, Zenon
  <2>2. CASE phase' = "resume"
    BY <1>6, <1>7, <2>2, SMT, Z3
  <2>3. CASE rsp' = s
    BY <1>7, <2>3, SMT, Z3
  <2>4. CASE rsp' = Below(s, -1)
    BY <1>7, <2>1, <2>4, Zenon
  <2> QED
    BY <1>6, <2>2, <2>3, <2>4, Zenon
<1>9. Types'
  BY <1>1, <1>2, <1>3, <1>8, Zenon DEF Types, tables, ghosts
<1>10. phase \in Dispatching /\ phase' \in Dispatching
       /\ phase \notin {"start", "body", "resumed"} /\ phase' \notin {"start", "body", "resumed"}
  BY <1>4, <1>6, ZenonT(40) DEF Dispatching
<1>11. PhaseOK' /\ CallsOK'
  BY <1>1, <1>2, <1>3, <1>10, SMT, Z3 DEF MainInv, PhaseOK, CallsOK, DllInitContained, tables
<1>12. OutcomeOK' /\ FaultOK'
  BY <1>1, <1>2, <1>10, Zenon DEF MainInv, OutcomeOK, ExitCodeIsMains, FaultOK, ghosts
<1>13. RspOK'
  BY <1>1, <1>3, <1>6, <1>8, <1>10, Depths, Zenon DEF RspOK
<1>14. SentinelOK'
  BY <1>1, <1>2, <1>3, NobodyReturns, Zenon DEF MainInv, SentinelOK, Depth, ghosts
<1> QED
  BY <1>3, <1>9, <1>11, <1>12, <1>13, <1>14, Zenon DEF IInv, MainInv

LEMMA ResumeStep == ASSUME ConstantsFit, IInv, Resume PROVE IInv'
<1>1. Between("resume") /\ EnterTrap(Main, "resume", <<Loop("resume", rsp)>>)
      /\ phase' = "resumed" /\ context' = NoCrash /\ sentinels' = Spared(rsp)
      /\ outcome' = NoExit /\ fault' = NoCrash
      /\ UNCHANGED <<crash_info, process, next_call, exit_code, seh_attempts, snapshot, rsp,
                     tables, others_faulted, skewed>>
  BY Zenon DEF Resume
<1>2. Types /\ StacksInv /\ MainInv /\ Main \in Threads /\ Depth(Main) = 0
      /\ process = "running" /\ phase = "resume" /\ phase \in Dispatching
  BY <1>1, BetweenRuns, Zenon DEF Dispatching
<1>3. PICK f \in Frames : /\ f = Loop("resume", rsp) /\ f.kind = "loop" /\ f.what = "resume"
                          /\ f.state = "body" /\ f.rsp = rsp
  <2>1. "resume" \in Whats
    BY Zenon DEF Whats
  <2>2. PICK s \in Slots : s = rsp
    BY <1>2, Zenon DEF Types
  <2>3. Loop("resume", s) \in Frames /\ Loop("resume", s).kind = "loop"
        /\ Loop("resume", s).what = "resume"
        /\ Loop("resume", s).state = "body" /\ Loop("resume", s).rsp = s
    BY <2>1, LoopType, SMT, Z3
  <2> QED
    BY <2>2, <2>3, Zenon
<1>4. EnterTrap(Main, "resume", <<f>>) /\ <<f>> # << >> /\ <<f>>[1] = f /\ Len(<<f>>) = 1
  BY <1>1, <1>3, Zenon
<1>5. /\ Entered(Main, "resume", <<f>>) /\ stack' \in [Threads -> Seq(Frames)] /\ StacksInv'
      /\ env' \in [Threads -> Nat] /\ code' \in [Threads -> Exits]
      /\ armed' \in [Threads -> BOOLEAN] /\ code'[Main] = 0
      /\ \A w \in Workers : started[w] \in {"no", "spawned"} => Depth(w)' = 0
  BY <1>2, <1>3, <1>4, MainEnters, SMT, Z3
<1>6. Types'
  <2>1. NoCrash \in Crashes
    BY SMT, Z3 DEF Crashes, NoCrash, Slot, Slots
  <2>2. sentinels' \subseteq Slots
    BY <1>1, <1>2, Zenon DEF Spared, Types
  <2> QED
    BY <1>1, <1>2, <1>5, <2>1, <2>2, Zenon DEF Types, tables
<1>7. /\ Depth(Main)' = 2 /\ Len(stack'[Main]) = 2
      /\ stack'[Main][1].kind = "trap" /\ stack'[Main][1].what = "resume"
      /\ stack'[Main][1].state = "body" /\ stack'[Main][2] = f
  <2>1. "resume" \in Whats
    BY Zenon DEF Whats
  <2>2. stack'[Main][1] = Trap(Main, "resume") /\ stack'[Main][2] = f /\ Depth(Main)' = 2
    BY <1>2, <1>4, <1>5, SMT, Z3 DEF Entered
  <2> QED
    BY <1>2, <2>1, <2>2, TrapType, SMT, Z3 DEF Depth
<1>8. PhaseOK' /\ CallsOK'
  BY <1>1, <1>2, <1>5, <1>7, Depths, Zenon
     DEF MainInv, PhaseOK, CallsOK, DllInitContained, On, IsTrap, tables
<1>9. OutcomeOK'
  BY <1>1, <1>3, <1>5, <1>7, Zenon DEF OutcomeOK, RunGoesOn, ExitCodeIsMains, Dispatching, IsTrap
<1>10. FaultOK'
  BY <1>1, <1>2, Zenon DEF MainInv, FaultOK, Dispatching
<1>11. RspOK'
  BY <1>1, <1>7, Zenon DEF RspOK, IsTrap, Dispatching
<1>12. SentinelOK'
  <2>1. fault'.rsp.of # Main
    BY <1>1, Zenon DEF NoCrash, Slot, ConstantsFit, Threads
  <2>2. ASSUME ~skewed, ~others_faulted, rsp.of = Main PROVE rsp \in sentinels'
    <3>1. rsp = context.rsp /\ context = fault /\ (fault.rsp.of = Main => fault.rsp \in sentinels)
      BY <1>2, <2>2, Zenon DEF MainInv, RspOK, FaultOK, SentinelOK
    <3>2. rsp \in sentinels
      BY <2>2, <3>1, Zenon
    <3> QED
      BY <1>1, <3>2, Zenon DEF Spared
  <2>3. \A i \in 1..Len(stack'[Main]) : i = 2 \/ stack'[Main][i].kind = "trap"
    BY <1>7, SMT, Z3
  <2>4. GuestReturnsToSentinel'
    BY <1>1, <1>3, <1>7, <2>2, <2>3, Zenon DEF GuestReturnsToSentinel
  <2> QED
    BY <2>1, <2>4 DEF SentinelOK
<1> QED
  BY <1>5, <1>6, <1>8, <1>9, <1>10, <1>11, <1>12, Zenon DEF IInv, MainInv

LEMMA ProcessEndsStep == ASSUME ConstantsFit, IInv, ProcessEnds PROVE IInv'
<1>1. Types /\ StacksInv /\ MainInv /\ process' = "exited"
      /\ UNCHANGED <<traps, crash_info, main_vars, tables, ghosts>>
  BY Zenon DEF IInv, ProcessEnds
<1>2. Types'
  BY <1>1, Zenon DEF Types, traps, main_vars, seh, tables, ghosts
<1>3. StacksInv'
  BY <1>1, StacksSame, Zenon
<1>4. \A w \in Workers : started'[w] \in {"no", "spawned"} => Depth(w)' = 0
  BY <1>1, Zenon DEF MainInv, PhaseOK, Depth, traps, tables
<1>5. MainInv'
  BY <1>1, <1>4, MainSame, Zenon DEF traps, main_vars, seh, ghosts
<1> QED
  BY <1>2, <1>3, <1>5, Zenon DEF IInv
-----------------------------------------------------------------------------
(* The workers. *)
LEMMA WorkerStartStep ==
  ASSUME ConstantsFit, IInv, NEW w \in Workers, WorkerStart(w)
  PROVE  IInv'
<1>1. Types /\ StacksInv /\ Nested(w) /\ Placed(w) /\ MainInv /\ w \in Threads /\ w # Main
      /\ Main \in Threads
  BY Zenon DEF IInv, StacksInv, Threads, ConstantsFit
<1>2. process = "running" /\ started[w] = "spawned"
      /\ UNCHANGED <<crash_info, process, main_vars, handlers, filter, ghosts>>
  BY Zenon DEF WorkerStart
<1>3. CASE EnterTrap(w, "worker", <<Loop("worker", EntryRsp(w))>>)
           /\ started' = [started EXCEPT ![w] = "running"]
  <2>1. Depth(w) = 0 /\ "worker" \in Whats
    BY <1>1, <1>2, Zenon DEF MainInv, PhaseOK, Whats
  <2>2. PICK f \in Frames : /\ f = Loop("worker", EntryRsp(w)) /\ f.kind = "loop"
                            /\ f.what = "worker" /\ f.state = "body"
    <3>1. EntryRsp(w) \in Slots
      BY <1>1, SMT, Z3 DEF EntryRsp, Slot, Slots
    <3> QED
      BY <2>1, <3>1, LoopType, SMT, Z3
  <2>3. EnterTrap(w, "worker", <<f>>) /\ <<f>> # << >> /\ <<f>>[1] = f /\ Len(<<f>>) = 1
    BY <1>3, <2>2, Zenon
  <2>4. /\ Entered(w, "worker", <<f>>) /\ stack' \in [Threads -> Seq(Frames)]
        /\ env' = [env EXCEPT ![w] = Depth(w) + 1] /\ code' = [code EXCEPT ![w] = 0]
        /\ armed' = [armed EXCEPT ![w] = TRUE]
    BY <1>1, <2>1, <2>3, EnterEffect, Zenon
  <2>5. /\ env' \in [Threads -> Nat] /\ armed' \in [Threads -> BOOLEAN]
        /\ armed'[w] = TRUE /\ env'[w] = Depth(w) + 1
        /\ \A u \in Threads \ {w} : env'[u] = env[u] /\ armed'[u] = armed[u]
    BY <1>1, <2>1, <2>4, SMT, Z3 DEF Types
  <2>6. code' \in [Threads -> Exits] /\ code'[Main] = code[Main]
    BY <1>1, <2>4, Zenon DEF Types, Exits
  <2>7. Nested(w)'
    BY <1>1, <2>1, <2>2, <2>4, <2>5, EnterNested, ZenonT(40)
  <2>8. stack'[w][1].kind = "trap" /\ stack'[w][1].what = "worker" /\ stack'[w][2] = f
    BY <1>1, <2>1, <2>3, <2>4, TrapType, SMT, Z3 DEF Entered
  <2>9. TrapPlace(w, 1)' /\ LoopPlace(w, 2)'
    BY <2>2, <2>8, ZenonT(40) DEF TrapPlace, LoopPlace, On, IsTrap
  <2>10. Placed(w)'
    BY <1>1, <2>1, <2>2, <2>4, <2>9, EnterPlaced, SMT, Z3
  <2>11. StacksInv' /\ Others(w)
    BY <1>1, <2>4, <2>5, <2>7, <2>10, StacksStep, Zenon DEF Entered
  <2>12. started' \in [Workers -> {"no", "spawned", "failed", "running", "done"}]
         /\ started'[w] = "running" /\ \A v \in Workers \ {w} : started'[v] = started[v]
    BY <1>1, <1>3, Zenon DEF Types
  <2>13. Types'
    BY <1>1, <1>2, <2>4, <2>5, <2>6, <2>12, Zenon DEF Types, main_vars, seh, ghosts
  <2>14. \A v \in Workers : started'[v] \in {"no", "spawned"} => Depth(v)' = 0
    <3> SUFFICES ASSUME NEW v \in Workers, started'[v] \in {"no", "spawned"} PROVE Depth(v)' = 0
      BY Zenon
    <3>1. v # w /\ v \in Threads
      BY <2>12, Zenon DEF Threads
    <3>2. Depth(v) = 0
      BY <1>1, <2>12, <3>1, Zenon DEF MainInv, PhaseOK
    <3> QED
      BY <2>11, <3>1, <3>2, Zenon DEF Others, Depth
  <2>15. MainInv'
    BY <1>1, <1>2, <2>6, <2>11, <2>14, MainSame, Zenon DEF Others, main_vars, seh, ghosts
  <2> QED
    BY <2>11, <2>13, <2>15, Zenon DEF IInv
<1>4. CASE started' = [started EXCEPT ![w] = "failed"] /\ UNCHANGED traps
  <2>1. started' \in [Workers -> {"no", "spawned", "failed", "running", "done"}]
        /\ \A v \in Workers : started'[v] \in {"no", "spawned"} => started[v] \in {"no", "spawned"}
    BY <1>1, <1>4, Zenon DEF Types
  <2>2. Types'
    BY <1>1, <1>2, <1>4, <2>1, Zenon DEF Types, traps, main_vars, seh, ghosts
  <2>3. StacksInv'
    BY <1>1, <1>4, StacksSame, Zenon
  <2>4. \A v \in Workers : started'[v] \in {"no", "spawned"} => Depth(v)' = 0
    BY <1>1, <1>4, <2>1, Zenon DEF MainInv, PhaseOK, Depth, traps
  <2>5. MainInv'
    BY <1>1, <1>2, <1>4, <2>4, MainSame, Zenon DEF traps, main_vars, seh, ghosts
  <2> QED
    BY <2>2, <2>3, <2>5, Zenon DEF IInv
<1> QED
  BY <1>3, <1>4, Zenon DEF WorkerStart

LEMMA WorkerEndsStep ==
  ASSUME ConstantsFit, IInv, NEW w \in Workers, WorkerEnds(w)
  PROVE  IInv'
<1>1. Types /\ MainInv /\ w \in Threads /\ w # Main /\ Main \in Threads
  BY Zenon DEF IInv, Threads, ConstantsFit
<1>2. TrapOver(w) /\ LeaveTrap(w) /\ started' = [started EXCEPT ![w] = "done"]
      /\ UNCHANGED <<crash_info, process, main_vars, handlers, filter, ghosts>>
  BY Zenon DEF WorkerEnds
<1>3. /\ Popped(w) /\ stack' \in [Threads -> Seq(Frames)] /\ StacksInv'
      /\ env' \in [Threads -> Nat] /\ code' \in [Threads -> Exits]
      /\ armed' \in [Threads -> BOOLEAN] /\ code'[Main] = code[Main]
  BY <1>1, <1>2, LeaveEffect, Zenon
<1>4. started' \in [Workers -> {"no", "spawned", "failed", "running", "done"}]
      /\ started'[w] = "done" /\ \A v \in Workers \ {w} : started'[v] = started[v]
  BY <1>1, <1>2, Zenon DEF Types
<1>5. Types'
  BY <1>1, <1>2, <1>3, <1>4, Zenon DEF Types, main_vars, seh, ghosts
<1>6. \A v \in Workers : started'[v] \in {"no", "spawned"} => Depth(v)' = 0
  <2> SUFFICES ASSUME NEW v \in Workers, started'[v] \in {"no", "spawned"} PROVE Depth(v)' = 0
    BY Zenon
  <2>1. v # w /\ v \in Threads
    BY <1>4, Zenon DEF Threads
  <2>2. Depth(v) = 0
    BY <1>1, <1>4, <2>1, Zenon DEF MainInv, PhaseOK
  <2> QED
    BY <1>3, <2>1, <2>2, Zenon DEF Popped, Others, Depth
<1>7. MainInv'
  BY <1>1, <1>2, <1>3, <1>6, MainSame, Zenon DEF Popped, Others, main_vars, seh, ghosts
<1> QED
  BY <1>3, <1>5, <1>7, Zenon DEF IInv
-----------------------------------------------------------------------------
LEMMA InitIInv == ASSUME ConstantsFit, Init PROVE IInv
<1>1. NoCrash \in Crashes /\ EntryRsp(Main) \in Slots /\ NoCrash.rsp.of # Main
  BY SMT, Z3 DEF NoCrash, Crashes, EntryRsp, Slot, Slots, Threads, ConstantsFit
<1>2. Types
  <2>1. stack \in [Threads -> Seq(Frames)]
    BY SMT, Z3 DEF Init
  <2>2. env \in [Threads -> Nat] /\ code \in [Threads -> Exits] /\ armed \in [Threads -> BOOLEAN]
    BY Zenon DEF Init, Exits
  <2>3. started \in [Workers -> {"no", "spawned", "failed", "running", "done"}]
    BY Zenon DEF Init
  <2> QED
    BY <1>1, <2>1, <2>2, <2>3, Zenon DEF Init, Types
<1>3. \A t \in Threads : Depth(t) = 0 /\ armed[t] = FALSE
  BY ZenonT(40) DEF Init, Depth
<1>4. StacksInv
  BY <1>3, SMT, Z3 DEF StacksInv, Nested, Covers, Placed
<1>5. Depth(Main) = 0 /\ Len(stack[Main]) = 0 /\ \A w \in Workers : Depth(w) = 0
  BY <1>3, Zenon DEF Threads, Depth
<1>6. PhaseOK /\ CallsOK
  BY <1>5, SMT, Z3 DEF Init, PhaseOK, CallsOK, DllInitContained
<1>7. OutcomeOK /\ FaultOK
  BY Zenon DEF Init, OutcomeOK, ExitCodeIsMains, FaultOK, Dispatching
<1>8. RspOK
  BY <1>5, SMT, Z3 DEF Init, RspOK, AtEntry, Dispatching
<1>9. SentinelOK
  BY <1>1, <1>5, SMT, Z3 DEF Init, SentinelOK, GuestReturnsToSentinel
<1> QED
  BY <1>2, <1>4, <1>6, <1>7, <1>8, <1>9, ZenonT(40) DEF IInv, MainInv

LEMMA NextIInv == ASSUME ConstantsFit, IInv, [Next]_vars PROVE IInv'
<1>1. CASE UNCHANGED vars
  <2>1. UNCHANGED <<traps, crash_info, process, main_vars, started, ghosts>>
    BY <1>1, Zenon DEF vars, tables
  <2>2. Types'
    BY <2>1, Zenon DEF IInv, Types, traps, main_vars, seh, ghosts
  <2>3. StacksInv'
    BY <2>1, StacksSame, Zenon DEF IInv
  <2>4. \A w \in Workers : started'[w] \in {"no", "spawned"} => Depth(w)' = 0
    BY <2>1, Zenon DEF IInv, MainInv, PhaseOK, Depth, traps
  <2>5. MainInv'
    BY <2>1, <2>4, MainSame, Zenon DEF IInv, traps, main_vars, seh, ghosts
  <2> QED
    BY <2>2, <2>3, <2>5, Zenon DEF IInv
<1>2. ASSUME NEW t \in Threads, GuestStep(t) PROVE IInv'
  BY <1>2, BodyReturnsStep, CallbackStep, CallbackReturnsStep, ExitProcessStep,
     ExitThreadStep, FaultStep, TablesStep, ZenonT(40) DEF GuestStep
<1>3. CASE MainStep
  BY <1>3, RunBodyStep, InitDllStep, DllCallEndsStep, TlsCallbackStep, TlsCallbackEndsStep,
     EntryPointStep, RunEndsStep, StopStep, DispatchSehStep, CallHandlerStep, SearchGoesOn,
     HandlerEndsStep, RecoverStep, ResumeStep, ProcessEndsStep, SMT, Z3 DEF MainStep
<1>4. ASSUME NEW w \in Workers, WorkerStart(w) \/ WorkerEnds(w) PROVE IInv'
  BY <1>4, WorkerStartStep, WorkerEndsStep, Zenon
<1> QED
  BY <1>1, <1>2, <1>3, <1>4, Zenon DEF Next

(* The inductive invariant holds in every state of a process. *)
THEOREM Invariance == ASSUME ConstantsFit PROVE Spec => []IInv
BY InitIInv, NextIInv, PTL DEF Spec

(* run_with_exit_trap: on any thread, however traps, callbacks and handlers *)
(* nest, longjmp goes to the innermost call that is still on the host stack *)
(* and only when there is one; so a DLL whose initialisation faults or      *)
(* exits does not end the body of run_pe_with_dir.                          *)
THEOREM LongjmpIsSafe == ASSUME ConstantsFit PROVE Spec => []LongjmpLandsLive
<1>1. ASSUME IInv PROVE TrapsAreLive
  <2> SUFFICES ASSUME NEW t \in Threads
               PROVE  /\ armed[t] <=> {i \in 1..Len(stack[t]) : stack[t][i].kind = "trap"} # {}
                      /\ armed[t] => /\ env[t] \in {i \in 1..Len(stack[t]) : stack[t][i].kind = "trap"}
                                     /\ \A i \in {i \in 1..Len(stack[t]) : stack[t][i].kind = "trap"} :
                                          i <= env[t]
    BY Zenon DEF TrapsAreLive
  <2>1. Covers(t, Len(stack[t]), armed[t], env[t])
    BY <1>1, Zenon DEF IInv, StacksInv, Nested, Depth
  <2> QED
    BY <2>1, Zenon DEF Covers, IsTrap
<1>2. ASSUME IInv PROVE LongjmpLandsLive
  BY <1>1, <1>2, Zenon DEF IInv, MainInv, CallsOK, LongjmpLandsLive
<1> QED
  BY <1>2, Invariance, PTL

(* run_pe_with_dir reports the exit code of the main thread's last run,     *)
(* whatever DLLs and workers exited with.                                   *)
THEOREM ExitCodeReported == ASSUME ConstantsFit PROVE Spec => []ExitCodeIsMains
<1>1. ASSUME IInv PROVE ExitCodeIsMains
  BY <1>1, Zenon DEF IInv, MainInv, OutcomeOK
<1> QED
  BY <1>1, Invariance, PTL

(* dispatch_seh is given the fault that ended the main thread's last run:   *)
(* take_crash_info never returns the record of an earlier one.              *)
THEOREM FaultDispatched == ASSUME ConstantsFit PROVE Spec => []SehSeesItsFault
<1>1. ASSUME IInv PROVE SehSeesItsFault
  BY <1>1, Zenon DEF IInv, MainInv, FaultOK, SehSeesItsFault
<1> QED
  BY <1>1, Invariance, PTL

(* invoke_guest_function: what it calls on the main stack, and what is      *)
(* resumed there after a fault, has STOP_SENTINEL under it while it runs.   *)
THEOREM SentinelStays == ASSUME ConstantsFit PROVE Spec => []GuestReturnsToSentinel
<1>1. ASSUME IInv PROVE GuestReturnsToSentinel
  BY <1>1, Zenon DEF IInv, MainInv, SentinelOK
<1> QED
  BY <1>1, Invariance, PTL
=============================================================================
