--------------------------- MODULE ProcessStacks ----------------------------
(***************************************************************************)
(* The inductive invariant of ProcessLife, what entering and leaving guest *)
(* code does to the stacks and ExitStates of the threads, and the steps    *)
(* that only the stacks or the tables are about.                           *)
(***************************************************************************)
EXTENDS ProcessLife, TLAPS

(* The types; those of the handler lists are left to TLC. *)
Types ==
  /\ stack \in [Threads -> Seq(Frames)]
  /\ env \in [Threads -> Nat] /\ code \in [Threads -> Exits]
  /\ armed \in [Threads -> BOOLEAN]
  /\ crash_info \in Crashes /\ context \in Crashes /\ fault \in Crashes
  /\ rsp \in Slots /\ sentinels \subseteq Slots
  /\ started \in [Workers -> {"no", "spawned", "failed", "running", "done"}]
  /\ next_call \in Nat /\ skewed \in BOOLEAN /\ others_faulted \in BOOLEAN

Depth(t) == Len(stack[t])
IsTrap(t, i) == stack[t][i].kind = "trap"

(* An ExitState describes the traps among the first n frames of a stack: it *)
(* is armed when there are any, and then for the last one.                  *)
Covers(t, n, a, e) ==
  /\ a <=> \E i \in 1..n : IsTrap(t, i)
  /\ a => e \in 1..n /\ IsTrap(t, e) /\ \A i \in 1..n : IsTrap(t, i) => i <= e

(* The ExitState of the thread describes its stack, and what a trap has     *)
(* saved describes the frames below it.                                     *)
Nested(t) ==
  /\ Covers(t, Depth(t), armed[t], env[t])
  /\ \A i \in 1..Depth(t) :
       IsTrap(t, i) => Covers(t, i - 1, stack[t][i].armed, stack[t][i].env)

(* What is on a stack, and on what: the trap of a run or of a worker at the *)
(* bottom, that of a DLL on the one of the body; a loop on its trap, or, of *)
(* a callback, on another loop; a handler at the bottom.                    *)
On(t, i, what) == IsTrap(t, i) /\ stack[t][i].what = what
TrapPlace(t, i) ==
  \/ i = 1 /\ t = Main /\ stack[t][i].what \in {"body", "resume"}
  \/ i = 1 /\ t \in Workers /\ stack[t][i].what = "worker"
  \/ i = 2 /\ t = Main /\ stack[t][i].what = "dll" /\ On(t, 1, "body")
LoopPlace(t, i) ==
  \/ i = 1 /\ t = Main /\ stack[t][i].what = "handler"
  \/ i = 2 /\ stack[t][i].what \in {"tls", "entry"} /\ On(t, 1, "body")
  \/ i = 2 /\ stack[t][i].what = "resume" /\ On(t, 1, "resume")
  \/ i = 2 /\ stack[t][i].what = "worker" /\ On(t, 1, "worker")
  \/ i = 3 /\ stack[t][i].what = "dll" /\ On(t, 2, "dll")
  \/ i > 1 /\ stack[t][i].what = "callback" /\ stack[t][i - 1].kind = "loop"
Placed(t) ==
  \A i \in 1..Depth(t) :
    /\ IsTrap(t, i) => TrapPlace(t, i)
    /\ ~IsTrap(t, i) => LoopPlace(t, i)
    /\ stack[t][i].state # "body" => IsTrap(t, i) /\ i = Depth(t)

(* A worker that has not begun has no frames; what is at the bottom of the  *)
(* main thread's stack is what run_pe_with_dir is doing.                    *)
PhaseOK ==
  /\ \A w \in Workers : started[w] \in {"no", "spawned"} => Depth(w) = 0
  /\ Depth(Main) >= 1 =>
       \/ phase = "body" /\ On(Main, 1, "body")
       \/ phase = "resumed" /\ On(Main, 1, "resume")
       \/ phase \in {"vectored", "filter", "static"} /\ ~IsTrap(Main, 1)
  /\ phase \in {"body", "resumed"} => Depth(Main) >= 1

(* The body gets past the DLLs before it gets anywhere else. *)
CallsOK ==
  /\ phase = "body" /\ Depth(Main) = 1 /\ stack[Main][1].state # "body" => next_call > DllCalls
  /\ phase = "body" /\ Depth(Main) >= 2 /\ ~IsTrap(Main, 2) => next_call > DllCalls
  /\ DllInitContained

(* While a run of the main thread lasts there is no outcome, and the exit   *)
(* code it would report is 0; a DLL's trap has this 0 saved.                *)
RunGoesOn ==
  /\ outcome = NoExit /\ fault = NoCrash
  /\ IF Depth(Main) >= 2 /\ IsTrap(Main, 2) THEN stack[Main][2].code = 0 ELSE code[Main] = 0
OutcomeOK ==
  /\ phase = "start" => outcome = NoExit /\ fault = NoCrash
  /\ phase \in {"body", "resumed"} =>
       /\ stack[Main][1].state = "body" => RunGoesOn
       /\ stack[Main][1].state = "landed" => outcome = code[Main]
       /\ stack[Main][1].state = "returned" => outcome = NoExit
  /\ ExitCodeIsMains

(* Unless others have faulted, the crash record is that of the fault that   *)
(* ended the last run, or has been taken.                                   *)
FaultOK ==
  ~others_faulted =>
    /\ phase \in Dispatching => fault # NoCrash /\ context = fault
    /\ process = "running" => crash_info \in {NoCrash, fault}
    /\ process = "running" /\ phase \in Dispatching => crash_info = NoCrash

(* Where the registers and the sentinels of the main stack are.  Handlers   *)
(* run below the fault, so that its sentinel outlives them.                 *)
AtEntry == EntryRsp(Main) \in sentinels
RspOK ==
  /\ phase = "start" => rsp = EntryRsp(Main) /\ AtEntry
  /\ phase = "body" /\ Depth(Main) = 1 /\ stack[Main][1].state = "body"
       /\ next_call <= DllCalls + 1 => rsp = EntryRsp(Main) /\ AtEntry
  /\ phase = "body" /\ Depth(Main) >= 2 /\ IsTrap(Main, 2)
       => stack[Main][2].rsp = EntryRsp(Main) /\ AtEntry
  /\ phase \in Dispatching => rsp.of = context.rsp.of /\ rsp.at <= context.rsp.at
  /\ Depth(Main) >= 1 /\ ~IsTrap(Main, 1) =>
       /\ stack[Main][1].rsp.of = context.rsp.of
       /\ stack[Main][1].rsp.at + 1 <= context.rsp.at
  /\ phase = "resume" /\ ~skewed => rsp = context.rsp
SentinelOK ==
  /\ GuestReturnsToSentinel
  /\ ~skewed /\ ~others_faulted /\ fault.rsp.of = Main => fault.rsp \in sentinels

(* The inductive invariant. *)
MainInv == PhaseOK /\ CallsOK /\ OutcomeOK /\ FaultOK /\ RspOK /\ SentinelOK
StacksInv == \A t \in Threads : Nested(t) /\ Placed(t)
IInv == Types /\ StacksInv /\ MainInv
-----------------------------------------------------------------------------
(* What the operations on stacks do, frame by frame. *)
Others(t) == \A u \in Threads \ {t} : stack'[u] = stack[u]
Kept(t, n) == \A i \in 1..n : stack'[t][i] = stack[t][i]

Pushed(t, f) ==
  /\ Others(t) /\ Kept(t, Depth(t))
  /\ Depth(t)' = Depth(t) + 1 /\ stack'[t][Depth(t) + 1] = f
Popped(t) ==
  /\ Others(t) /\ Kept(t, Depth(t) - 1) /\ Depth(t)' = Depth(t) - 1
WasCut(t, n, how) ==
  /\ Others(t) /\ Kept(t, n - 1) /\ Depth(t)' = n /\ n \in 1..Depth(t)
  /\ stack'[t][n].state = how /\ stack'[t][n].kind = stack[t][n].kind
  /\ stack'[t][n].what = stack[t][n].what /\ stack'[t][n].rsp = stack[t][n].rsp
  /\ stack'[t][n].code = stack[t][n].code
  /\ stack'[t][n].env = stack[t][n].env /\ stack'[t][n].armed = stack[t][n].armed
Entered(t, what, loops) ==
  /\ Others(t) /\ Kept(t, Depth(t))
  /\ Depth(t)' = Depth(t) + 1 + Len(loops)
  /\ stack'[t][Depth(t) + 1] = Trap(t, what)
  /\ loops # << >> => stack'[t][Depth(t) + 2] = loops[1]

LEMMA StackTypes ==
  ASSUME Types, NEW t \in Threads
  PROVE  stack[t] \in Seq(Frames) /\ Depth(t) \in Nat
         /\ \A i \in 1..Depth(t) : stack[t][i] \in Frames
BY DEF Types, Depth

LEMMA PushEffect ==
  ASSUME Types, NEW t \in Threads, NEW f \in Frames, Push(t, f)
  PROVE  Pushed(t, f) /\ stack' \in [Threads -> Seq(Frames)]
<1>1. stack'[t] = Append(stack[t], f) /\ Others(t) /\ stack' \in [Threads -> Seq(Frames)]
  BY DEF Push, Types, Others
<1> QED
  BY <1>1, StackTypes DEF Pushed, Kept, Depth

LEMMA PopEffect ==
  ASSUME Types, NEW t \in Threads, stack[t] # << >>, Pop(t)
  PROVE  Popped(t) /\ stack' \in [Threads -> Seq(Frames)] /\ Depth(t) >= 1
<1>1. stack[t] \in Seq(Frames) /\ Len(stack[t]) \in Nat /\ Len(stack[t]) >= 1
  BY DEF Types
<1>2. stack'[t] = SubSeq(stack[t], 1, Len(stack[t]) - 1) /\ Others(t)
  BY Zenon DEF Pop, Types, Others
<1>3. SubSeq(stack[t], 1, Len(stack[t]) - 1) \in Seq(Frames)
  BY <1>1
<1>4. stack' \in [Threads -> Seq(Frames)]
  BY <1>3, Zenon DEF Pop, Types
<1> QED
  BY <1>1, <1>2, <1>4 DEF Popped, Kept, Depth

LEMMA CutEffect ==
  ASSUME Types, NEW t \in Threads, NEW n \in 1..Depth(t),
         NEW how \in {"returned", "landed"}, CutTo(t, n, how)
  PROVE  WasCut(t, n, how) /\ stack' \in [Threads -> Seq(Frames)]
<1>1. stack[t] \in Seq(Frames) /\ Len(stack[t]) \in Nat /\ n \in 1..Len(stack[t])
  BY DEF Types, Depth
<1>2. PICK f \in Frames : f = stack[t][n]
  BY <1>1
<1>3. PICK g \in Frames : g = [f EXCEPT !.state = how]
  BY <1>2, Zenon DEF Frames
<1>4. /\ g.state = how /\ g.kind = f.kind /\ g.what = f.what /\ g.rsp = f.rsp
      /\ g.env = f.env /\ g.code = f.code /\ g.armed = f.armed
  BY <1>3, Zenon DEF Frames
<1>5. stack' = [stack EXCEPT ![t] = Append(SubSeq(stack[t], 1, n - 1), g)]
  BY <1>2, <1>3, Zenon DEF CutTo, Types
<1>6. SubSeq(stack[t], 1, n - 1) \in Seq(Frames) /\ Len(SubSeq(stack[t], 1, n - 1)) = n - 1
      /\ \A i \in 1..(n - 1) : SubSeq(stack[t], 1, n - 1)[i] = stack[t][i]
  BY <1>1
<1>7. stack'[t] = Append(SubSeq(stack[t], 1, n - 1), g) /\ Others(t)
      /\ stack' \in [Threads -> Seq(Frames)]
  BY <1>5, <1>6, SMT, Z3 DEF Types, Others
<1>8. Kept(t, n - 1) /\ Depth(t)' = n /\ stack'[t][n] = g
  BY <1>6, <1>7 DEF Kept, Depth
<1> QED
  BY <1>2, <1>4, <1>7, <1>8, Zenon DEF WasCut

Whats == {"body", "dll", "tls", "entry", "callback", "handler", "resume", "worker"}

LEMMA TrapType ==
  ASSUME Types, NEW t \in Threads, NEW what \in Whats
  PROVE  /\ Trap(t, what) \in Frames /\ Trap(t, what).kind = "trap"
         /\ Trap(t, what).what = what /\ Trap(t, what).state = "body"
         /\ Trap(t, what).rsp = rsp /\ Trap(t, what).env = env[t]
         /\ Trap(t, what).code = code[t] /\ Trap(t, what).armed = armed[t]
BY Zenon DEF Types, Trap, Frames, Whats

LEMMA LoopType ==
  ASSUME NEW what \in Whats, NEW at \in Slots
  PROVE  /\ Loop(what, at) \in Frames /\ Loop(what, at).kind = "loop"
         /\ Loop(what, at).what = what /\ Loop(what, at).state = "body"
         /\ Loop(what, at).rsp = at
BY Zenon DEF Loop, Frames, Whats, Exits

LEMMA EnterEffect ==
  ASSUME Types, NEW t \in Threads, NEW what \in Whats, NEW loops,
         loops = << >> \/ \E f \in Frames : loops = <<f>>, EnterTrap(t, what, loops)
  PROVE  /\ Entered(t, what, loops) /\ stack' \in [Threads -> Seq(Frames)]
         /\ env' = [env EXCEPT ![t] = Depth(t) + 1] /\ code' = [code EXCEPT ![t] = 0]
         /\ armed' = [armed EXCEPT ![t] = TRUE]
<1>1. stack[t] \in Seq(Frames) /\ Len(stack[t]) \in Nat
  BY SMT, Z3 DEF Types
<1>2. PICK f \in Frames : f = Trap(t, what)
  BY TrapType, Zenon
<1>3. stack' = [stack EXCEPT ![t] = Append(stack[t], f) \o loops]
  BY <1>2, Zenon DEF EnterTrap, Types
<1>4. loops \in Seq(Frames) /\ Append(stack[t], f) \o loops \in Seq(Frames)
  <2>1. loops \in Seq(Frames)
    <3>1. CASE loops = << >>
      BY <3>1
    <3>2. ASSUME NEW g \in Frames, loops = <<g>> PROVE loops \in Seq(Frames)
      BY <3>2
    <3> QED
      BY <3>1, <3>2, Zenon
  <2>2. Append(stack[t], f) \in Seq(Frames)
    BY <1>1, SMT, Z3
  <2> QED
    BY <2>1, <2>2, SMT, Z3
<1>5. stack'[t] = Append(stack[t], f) \o loops /\ Others(t)
      /\ stack' \in [Threads -> Seq(Frames)]
  BY <1>3, <1>4, Zenon DEF Types, Others
<1>6. Kept(t, Depth(t)) /\ Depth(t)' = Depth(t) + 1 + Len(loops)
      /\ stack'[t][Depth(t) + 1] = f
  BY <1>1, <1>4, <1>5, SMT, Z3 DEF Kept, Depth
<1>7. loops # << >> => stack'[t][Depth(t) + 2] = loops[1]
  BY <1>1, <1>4, <1>5 DEF Depth
<1> QED
  BY <1>2, <1>5, <1>6, <1>7, Zenon DEF Entered, EnterTrap, Depth
-----------------------------------------------------------------------------
(* Nested survives every operation on a stack. *)
LEMMA NestedElsewhere ==
  ASSUME NEW u \in Threads, Nested(u), stack'[u] = stack[u], armed'[u] = armed[u],
         env'[u] = env[u]
  PROVE  Nested(u)'
BY DEF Nested, Covers, Depth, IsTrap

LEMMA PushNested ==
  ASSUME Types, NEW t \in Threads, Nested(t), NEW f \in Frames, f.kind = "loop", Pushed(t, f),
         armed'[t] = armed[t], env'[t] = env[t]
  PROVE  Nested(t)'
<1>1. PICK d \in Nat : d = Depth(t)
  BY StackTypes, Zenon
<1>2. \A i \in 1..d : stack'[t][i] = stack[t][i] /\ (IsTrap(t, i)' <=> IsTrap(t, i))
  BY <1>1, Zenon DEF Pushed, Kept, IsTrap
<1>3. ~IsTrap(t, d + 1)' /\ Depth(t)' = d + 1
  BY <1>1, Zenon DEF Pushed, IsTrap
<1>4. Covers(t, d, armed[t], env[t])
      /\ \A i \in 1..d : IsTrap(t, i) => Covers(t, i - 1, stack[t][i].armed, stack[t][i].env)
  BY <1>1, Zenon DEF Nested
<1>5. Covers(t, Depth(t), armed[t], env[t])'
  BY <1>1, <1>2, <1>3, <1>4, SMT, Z3 DEF Covers
<1>6. ASSUME NEW i \in 1..(d + 1), IsTrap(t, i)'
      PROVE  Covers(t, i - 1, stack[t][i].armed, stack[t][i].env)'
  <2>1. i \in 1..d
    BY <1>3, <1>6
  <2> QED
    BY <1>2, <1>4, <1>6, <2>1, SMT, Z3 DEF Covers
<1> QED
  BY <1>3, <1>5, <1>6, Zenon DEF Nested

LEMMA PopNested ==
  ASSUME Types, NEW t \in Threads, Nested(t), Depth(t) >= 1, ~IsTrap(t, Depth(t)), Popped(t),
         armed'[t] = armed[t], env'[t] = env[t]
  PROVE  Nested(t)'
<1>1. PICK d \in Nat : d + 1 = Depth(t)
  <2>1. PICK k \in Nat : k = Depth(t)
    BY StackTypes, Zenon
  <2>2. k - 1 \in Nat /\ (k - 1) + 1 = Depth(t)
    BY <2>1, SMT, Z3
  <2> QED
    BY <2>2, Zenon
<1>2. \A i \in 1..d : stack'[t][i] = stack[t][i] /\ (IsTrap(t, i)' <=> IsTrap(t, i))
  BY <1>1, SMT, Z3 DEF Popped, Kept, IsTrap
<1>3. ~IsTrap(t, d + 1) /\ Depth(t)' = d
  BY <1>1, SMT, Z3 DEF Popped
<1>4. Covers(t, d + 1, armed[t], env[t])
      /\ \A i \in 1..d : IsTrap(t, i) => Covers(t, i - 1, stack[t][i].armed, stack[t][i].env)
  BY <1>1, SMT, Z3 DEF Nested
<1>5. Covers(t, Depth(t), armed[t], env[t])'
  BY <1>2, <1>3, <1>4, SMT, Z3 DEF Covers
<1>6. ASSUME NEW i \in 1..d, IsTrap(t, i)'
      PROVE  Covers(t, i - 1, stack[t][i].armed, stack[t][i].env)'
  BY <1>2, <1>4, <1>6, SMT, Z3 DEF Covers
<1> QED
  BY <1>3, <1>5, <1>6, Zenon DEF Nested

(* A cut to the frame n, above which there are only loops. *)
LEMMA CutNested ==
  ASSUME Types, NEW t \in Threads, Nested(t), NEW n \in 1..Depth(t), NEW how,
         \A i \in (n + 1)..Depth(t) : ~IsTrap(t, i), WasCut(t, n, how),
         armed'[t] = armed[t], env'[t] = env[t]
  PROVE  Nested(t)'
<1>1. PICK d \in Nat : d = Depth(t)
  BY StackTypes, Zenon
<1>2. \A i \in 1..n : (IsTrap(t, i)' <=> IsTrap(t, i)) /\ stack'[t][i].armed = stack[t][i].armed
                      /\ stack'[t][i].env = stack[t][i].env
  <2>1. \A i \in 1..(n - 1) : stack'[t][i] = stack[t][i]
    BY Zenon DEF WasCut, Kept
  <2>2. stack'[t][n].kind = stack[t][n].kind /\ stack'[t][n].armed = stack[t][n].armed
        /\ stack'[t][n].env = stack[t][n].env
    BY Zenon DEF WasCut
  <2> QED
    BY <1>1, <2>1, <2>2, SMT, Z3 DEF IsTrap
<1>3. Depth(t)' = n /\ n \in 1..d /\ \A i \in (n + 1)..d : ~IsTrap(t, i)
  BY <1>1, Zenon DEF WasCut
<1>4. Covers(t, d, armed[t], env[t])
      /\ \A i \in 1..d : IsTrap(t, i) => Covers(t, i - 1, stack[t][i].armed, stack[t][i].env)
  BY <1>1, Zenon DEF Nested
<1>5. Covers(t, Depth(t), armed[t], env[t])'
  BY <1>2, <1>3, <1>4, SMT, Z3 DEF Covers
<1>6. ASSUME NEW i \in 1..n, IsTrap(t, i)'
      PROVE  Covers(t, i - 1, stack[t][i].armed, stack[t][i].env)'
  BY <1>2, <1>3, <1>4, <1>6, SMT, Z3 DEF Covers
<1> QED
  BY <1>3, <1>5, <1>6, Zenon DEF Nested

LEMMA LeaveNested ==
  ASSUME Types, NEW t \in Threads, Nested(t), Depth(t) >= 1, IsTrap(t, Depth(t)), Popped(t),
         armed'[t] = stack[t][Depth(t)].armed, env'[t] = stack[t][Depth(t)].env
  PROVE  Nested(t)'
<1>1. PICK d \in Nat : d + 1 = Depth(t)
  <2>1. PICK k \in Nat : k = Depth(t)
    BY StackTypes, Zenon
  <2>2. k - 1 \in Nat /\ (k - 1) + 1 = Depth(t)
    BY <2>1, SMT, Z3
  <2> QED
    BY <2>2, Zenon
<1>2. \A i \in 1..d : stack'[t][i] = stack[t][i] /\ (IsTrap(t, i)' <=> IsTrap(t, i))
  BY <1>1, SMT, Z3 DEF Popped, Kept, IsTrap
<1>3. IsTrap(t, d + 1) /\ Depth(t)' = d
      /\ armed'[t] = stack[t][d + 1].armed /\ env'[t] = stack[t][d + 1].env
  BY <1>1 DEF Popped
<1>4. \A i \in 1..(d + 1) :
        IsTrap(t, i) => Covers(t, i - 1, stack[t][i].armed, stack[t][i].env)
  BY <1>1, Zenon DEF Nested
<1>5. Covers(t, d, stack[t][d + 1].armed, stack[t][d + 1].env)
  BY <1>3, <1>4, SMT, Z3
<1>6. Covers(t, Depth(t), armed[t], env[t])'
  BY <1>2, <1>3, <1>5, Zenon DEF Covers
<1>7. ASSUME NEW i \in 1..d, IsTrap(t, i)'
      PROVE  Covers(t, i - 1, stack[t][i].armed, stack[t][i].env)'
  BY <1>2, <1>4, <1>7, SMT, Z3 DEF Covers
<1> QED
  BY <1>3, <1>6, <1>7, Zenon DEF Nested

LEMMA EnterNested ==
  ASSUME Types, NEW t \in Threads, Nested(t), NEW what \in Whats, NEW loops,
         loops = << >> \/ \E f \in Frames : f.kind = "loop" /\ loops = <<f>>,
         Entered(t, what, loops), armed'[t] = TRUE, env'[t] = Depth(t) + 1
  PROVE  Nested(t)'
<1>1. PICK d \in Nat : d = Depth(t)
  BY StackTypes, Zenon
<1>2. \A i \in 1..d : stack'[t][i] = stack[t][i] /\ (IsTrap(t, i)' <=> IsTrap(t, i))
  BY <1>1, Zenon DEF Entered, Kept, IsTrap
<1>3. /\ IsTrap(t, d + 1)' /\ env'[t] = d + 1
      /\ stack'[t][d + 1].armed = armed[t] /\ stack'[t][d + 1].env = env[t]
  BY <1>1, TrapType, SMT, Z3 DEF Entered, IsTrap
<1>4. \/ Depth(t)' = d + 1
      \/ Depth(t)' = d + 2 /\ ~IsTrap(t, d + 2)'
  <2>1. CASE loops = << >>
    BY <1>1, <2>1, SMT, Z3 DEF Entered
  <2>2. ASSUME NEW f \in Frames, f.kind = "loop", loops = <<f>>
        PROVE  Depth(t)' = d + 2 /\ ~IsTrap(t, d + 2)'
    BY <1>1, <2>2, SMT, Z3 DEF Entered, IsTrap
  <2> QED
    BY <2>1, <2>2, Zenon
<1>5. Covers(t, d, armed[t], env[t])
      /\ \A i \in 1..d : IsTrap(t, i) => Covers(t, i - 1, stack[t][i].armed, stack[t][i].env)
  BY <1>1, Zenon DEF Nested
<1>6. Covers(t, Depth(t), armed[t], env[t])'
  BY <1>3, <1>4, SMT, Z3 DEF Covers
<1>7. ASSUME NEW i \in 1..(d + 2), i <= Depth(t)', IsTrap(t, i)'
      PROVE  Covers(t, i - 1, stack[t][i].armed, stack[t][i].env)'
  <2>1. CASE i \in 1..d
    <3>1. IsTrap(t, i) /\ stack'[t][i] = stack[t][i]
      BY <1>2, <1>7, <2>1, Zenon
    <3>2. Covers(t, i - 1, stack[t][i].armed, stack[t][i].env)
      BY <1>5, <2>1, <3>1, Zenon
    <3> QED
      BY <1>2, <2>1, <3>1, <3>2, SMT, Z3 DEF Covers
  <2>2. CASE i = d + 1
    BY <1>2, <1>3, <1>5, <2>2, SMT, Z3 DEF Covers
  <2> QED
    BY <1>4, <1>7, <2>1, <2>2, SMT, Z3
<1> QED
  BY <1>4, <1>6, <1>7, SMT, Z3 DEF Nested
-----------------------------------------------------------------------------
(* Placed survives them too, where the new frame has its place. *)
LEMMA PlacedElsewhere ==
  ASSUME NEW u \in Threads, Placed(u), stack'[u] = stack[u]
  PROVE  Placed(u)'
BY SMT, Z3 DEF Placed, TrapPlace, LoopPlace, On, Depth, IsTrap

(* The place of a frame depends on the frames below it. *)
LEMMA SamePlace ==
  ASSUME Types, NEW t \in Threads, NEW n \in Nat, Kept(t, n), NEW i \in 1..n
  PROVE  /\ IsTrap(t, i)' <=> IsTrap(t, i)
         /\ TrapPlace(t, i)' <=> TrapPlace(t, i)
         /\ LoopPlace(t, i)' <=> LoopPlace(t, i)
<1>1. \A j \in 1..i : stack'[t][j] = stack[t][j]
  BY SMT, Z3 DEF Kept
<1>2. stack'[t][i] = stack[t][i] /\ stack'[t][1] = stack[t][1]
  BY <1>1, SMT, Z3
<1>3. i >= 2 => stack'[t][2] = stack[t][2] /\ stack'[t][i - 1] = stack[t][i - 1]
  BY <1>1
<1> QED
  BY <1>2, <1>3, SMT, Z3 DEF IsTrap, TrapPlace, LoopPlace, On

LEMMA PushPlaced ==
  ASSUME Types, NEW t \in Threads, Placed(t), NEW f \in Frames, Pushed(t, f),
         f.kind = "loop", f.state = "body", NEW d \in Nat, d = Depth(t),
         d = 0 \/ stack[t][d].state = "body", LoopPlace(t, d + 1)'
  PROVE  Placed(t)'
<1>1. Depth(t)' = d + 1 /\ Kept(t, d) /\ stack'[t][d + 1] = f
  BY Zenon DEF Pushed
<1>2. ~IsTrap(t, d + 1)'
  BY <1>1, Zenon DEF IsTrap
<1>3. ASSUME NEW i \in 1..d
      PROVE  /\ (IsTrap(t, i) => TrapPlace(t, i))'
             /\ (~IsTrap(t, i) => LoopPlace(t, i))'
             /\ stack'[t][i].state = "body"
  <2>1. stack'[t][i] = stack[t][i] /\ stack[t][i].state = "body"
    BY <1>1, SMT, Z3 DEF Kept, Placed
  <2> QED
    BY <1>1, <2>1, SamePlace, Zenon DEF Placed
<1>4. ASSUME NEW i \in 1..(d + 1)
      PROVE  /\ (IsTrap(t, i) => TrapPlace(t, i))'
             /\ (~IsTrap(t, i) => LoopPlace(t, i))'
             /\ stack'[t][i].state = "body"
  <2>1. CASE i \in 1..d
    BY <1>3, <2>1, Zenon
  <2>2. CASE i = d + 1
    BY <1>1, <1>2, <2>2, Zenon
  <2> QED
    BY <2>1, <2>2, SMT, Z3
<1> QED
  BY <1>1, <1>4, Zenon DEF Placed

LEMMA PopPlaced ==
  ASSUME Types, NEW t \in Threads, Placed(t), Depth(t) >= 1, Popped(t)
  PROVE  Placed(t)'
<1>1. PICK d \in Nat : d + 1 = Depth(t)
  <2>1. PICK k \in Nat : k = Depth(t)
    BY StackTypes, Zenon
  <2>2. k - 1 \in Nat /\ (k - 1) + 1 = Depth(t)
    BY <2>1, SMT, Z3
  <2> QED
    BY <2>2, Zenon
<1>2. Depth(t)' = d /\ Kept(t, d)
  BY <1>1 DEF Popped
<1>3. ASSUME NEW i \in 1..d
      PROVE  /\ (IsTrap(t, i) => TrapPlace(t, i))'
             /\ (~IsTrap(t, i) => LoopPlace(t, i))'
             /\ stack'[t][i].state = "body"
  <2>1. stack'[t][i] = stack[t][i] /\ stack[t][i].state = "body"
    BY <1>1, <1>2, SMT, Z3 DEF Kept, Placed
  <2>2. (IsTrap(t, i) => TrapPlace(t, i)) /\ (~IsTrap(t, i) => LoopPlace(t, i))
    BY <1>1 DEF Placed
  <2> QED
    BY <1>2, <2>1, <2>2, SamePlace, Zenon
<1> QED
  BY <1>2, <1>3, Zenon DEF Placed

LEMMA CutPlaced ==
  ASSUME Types, NEW t \in Threads, Placed(t), NEW n \in 1..Depth(t), IsTrap(t, n), NEW how,
         WasCut(t, n, how)
  PROVE  Placed(t)'
<1>1. PICK d \in Nat : d = Depth(t)
  BY StackTypes, Zenon
<1>2. Depth(t)' = n /\ Kept(t, n - 1) /\ n - 1 \in Nat /\ n \in 1..d
  BY <1>1, SMT, Z3 DEF WasCut
<1>3. ASSUME NEW i \in 1..(n - 1)
      PROVE  /\ (IsTrap(t, i) => TrapPlace(t, i))'
             /\ (~IsTrap(t, i) => LoopPlace(t, i))'
             /\ stack'[t][i].state = "body"
  <2>1. stack'[t][i] = stack[t][i] /\ stack[t][i].state = "body"
    BY <1>1, <1>2, SMT, Z3 DEF Kept, Placed
  <2>2. (IsTrap(t, i) => TrapPlace(t, i)) /\ (~IsTrap(t, i) => LoopPlace(t, i))
    BY <1>1, <1>2, SMT, Z3 DEF Placed
  <2> QED
    BY <1>2, <2>1, <2>2, SamePlace, Zenon
<1>4. IsTrap(t, n)' /\ TrapPlace(t, n)'
  <2>1. stack'[t][n].kind = stack[t][n].kind /\ stack'[t][n].what = stack[t][n].what
    BY Zenon DEF WasCut
  <2>2. TrapPlace(t, n)
    BY Zenon DEF Placed
  <2>3. n = 2 => stack'[t][1] = stack[t][1]
    BY <1>2, SMT, Z3 DEF Kept
  <2> QED
    BY <2>1, <2>2, <2>3, Zenon DEF TrapPlace, IsTrap, On
<1>5. \A i \in 1..n : i \in 1..(n - 1) \/ i = n
  BY <1>2, SMT, Z3
<1> QED
  BY <1>2, <1>3, <1>4, <1>5, Zenon DEF Placed

LEMMA EnterPlaced ==
  ASSUME Types, NEW t \in Threads, Placed(t), NEW what \in Whats, NEW loops,
         NEW d \in Nat, d = Depth(t), d = 0 \/ stack[t][d].state = "body",
         loops = << >> \/ \E f \in Frames : f.kind = "loop" /\ f.state = "body" /\ loops = <<f>>,
         Entered(t, what, loops), TrapPlace(t, d + 1)', loops # << >> => LoopPlace(t, d + 2)'
  PROVE  Placed(t)'
<1>1. Kept(t, d) /\ stack'[t][d + 1] = Trap(t, what)
  BY Zenon DEF Entered
<1>2. IsTrap(t, d + 1)' /\ stack'[t][d + 1].state = "body"
  BY <1>1, TrapType, SMT, Z3 DEF IsTrap
<1>3. \/ Depth(t)' = d + 1
      \/ /\ Depth(t)' = d + 2 /\ ~IsTrap(t, d + 2)' /\ LoopPlace(t, d + 2)'
         /\ stack'[t][d + 2].state = "body"
  <2>1. CASE loops = << >>
    BY <2>1, SMT, Z3 DEF Entered
  <2>2. ASSUME NEW f \in Frames, f.kind = "loop", f.state = "body", loops = <<f>>
        PROVE  /\ Depth(t)' = d + 2 /\ ~IsTrap(t, d + 2)' /\ LoopPlace(t, d + 2)'
               /\ stack'[t][d + 2].state = "body"
    BY <2>2, SMT, Z3 DEF Entered, IsTrap
  <2> QED
    BY <2>1, <2>2, Zenon
<1>4. ASSUME NEW i \in 1..d
      PROVE  /\ (IsTrap(t, i) => TrapPlace(t, i))'
             /\ (~IsTrap(t, i) => LoopPlace(t, i))'
             /\ stack'[t][i].state = "body"
  <2>1. stack'[t][i] = stack[t][i] /\ stack[t][i].state = "body"
    BY <1>1 DEF Kept, Placed
  <2>2. (IsTrap(t, i) => TrapPlace(t, i)) /\ (~IsTrap(t, i) => LoopPlace(t, i))
    BY Zenon DEF Placed
  <2> QED
    BY <1>1, <2>1, <2>2, SamePlace, Zenon
<1>5. \A i \in 1..(d + 2) : i \in 1..d \/ i = d + 1 \/ i = d + 2
  OBVIOUS
<1> QED
  BY <1>2, <1>3, <1>4, <1>5, SMT, Z3 DEF Placed
-----------------------------------------------------------------------------
(* What is on top of a stack. *)
LEMMA TopFacts ==
  ASSUME Types, NEW t \in Threads, stack[t] # << >>
  PROVE  /\ Depth(t) \in Nat /\ Depth(t) >= 1
         /\ Guest(t) = stack[t][Depth(t)] /\ Guest(t) \in Frames
         /\ Guest(t).kind = "trap" <=> IsTrap(t, Depth(t))
         /\ Guest(t).kind = "loop" <=> ~IsTrap(t, Depth(t))
         /\ Guest(t).rsp \in Slots /\ Guest(t).env \in Nat /\ Guest(t).code \in Exits
         /\ Guest(t).armed \in BOOLEAN
<1>1. Depth(t) \in Nat /\ Depth(t) >= 1 /\ Guest(t) = stack[t][Depth(t)]
  BY SMT, Z3 DEF Types, Depth, Guest
<1>2. stack[t][Depth(t)] \in Frames
  BY <1>1, StackTypes, SMT, Z3
<1>3. \A f \in Frames : f.kind \in {"trap", "loop"} /\ f.rsp \in Slots /\ f.env \in Nat
                        /\ f.code \in Exits /\ f.armed \in BOOLEAN
  BY Zenon DEF Frames
<1> QED
  BY <1>1, <1>2, <1>3, Zenon DEF IsTrap

LEMMA EmptyDepth ==
  ASSUME Types, NEW t \in Threads PROVE stack[t] = << >> <=> Depth(t) = 0
BY DEF Types, Depth

(* One thread moves. *)
LEMMA StacksStep ==
  ASSUME StacksInv, NEW t \in Threads, Others(t), Nested(t)', Placed(t)',
         \A u \in Threads \ {t} : env'[u] = env[u] /\ armed'[u] = armed[u]
  PROVE  StacksInv'
<1>1. ASSUME NEW u \in Threads, u # t PROVE Nested(u)' /\ Placed(u)'
  BY <1>1, NestedElsewhere, PlacedElsewhere, Zenon DEF StacksInv, Others
<1> QED
  BY <1>1, Zenon DEF StacksInv

(* Nobody does. *)
LEMMA StacksSame == StacksInv /\ UNCHANGED traps => StacksInv'
<1>1. SUFFICES ASSUME StacksInv, UNCHANGED traps, NEW t \in Threads
               PROVE  Nested(t)' /\ Placed(t)'
  BY Zenon DEF StacksInv
<1>2. Nested(t) /\ Placed(t) /\ stack' = stack /\ armed' = armed /\ env' = env
  BY <1>1, Zenon DEF StacksInv, traps
<1> QED
  BY <1>2, NestedElsewhere, PlacedElsewhere, Zenon

(* The depths that tell the phases of the main thread apart. *)
LEMMA Depths ==
  /\ ~(0 >= 1) /\ ~(0 >= 2) /\ 0 # 1
  /\ 1 >= 1 /\ ~(1 >= 2)
  /\ 2 >= 1 /\ 2 >= 2 /\ 2 # 1
  /\ 3 >= 1 /\ 3 >= 2 /\ 3 # 1
OBVIOUS

(* A main stack that is the same, or empty, returns to its sentinels. *)
LEMMA SentinelsStay ==
  ASSUME GuestReturnsToSentinel, stack'[Main] = stack[Main], sentinels' = sentinels,
         skewed' = skewed, others_faulted => others_faulted'
  PROVE  GuestReturnsToSentinel'
<1>1. SUFFICES ASSUME NEW i \in 1..Len(stack[Main]),
                      stack[Main][i].kind = "loop", stack[Main][i].rsp.of = Main,
                      stack[Main][i].what \in {"entry", "resume"} => ~skewed' /\ ~others_faulted'
               PROVE  stack[Main][i].rsp \in sentinels
  BY Zenon DEF GuestReturnsToSentinel
<1> QED
  BY <1>1, Zenon DEF GuestReturnsToSentinel

LEMMA NobodyReturns == ASSUME Len(stack'[Main]) = 0 PROVE GuestReturnsToSentinel'
BY DEF GuestReturnsToSentinel

(* What the main thread's part depends on. *)
LEMMA MainSame ==
  ASSUME MainInv, stack'[Main] = stack[Main], code'[Main] = code[Main],
         UNCHANGED <<phase, next_call, exit_code, rsp, sentinels, context, outcome, fault, skewed>>,
         process' \in {process, "exited"},
         \A w \in Workers : started'[w] \in {"no", "spawned"} => Depth(w)' = 0,
         \/ UNCHANGED <<others_faulted, crash_info>>
         \/ others_faulted'
         \/ UNCHANGED others_faulted /\ process' = "exited"
  PROVE  MainInv'
<1>1. PhaseOK' /\ CallsOK'
  BY Zenon DEF MainInv, PhaseOK, CallsOK, DllInitContained, Depth, On, IsTrap
<1>2. OutcomeOK'
  BY Zenon DEF MainInv, OutcomeOK, RunGoesOn, ExitCodeIsMains, Depth, IsTrap
<1>3. FaultOK'
  BY Zenon DEF MainInv, FaultOK
<1>4. RspOK'
  BY Zenon DEF MainInv, RspOK, AtEntry, Depth, IsTrap, EntryRsp
<1>5. SentinelOK'
  <2>1. GuestReturnsToSentinel
    BY Zenon DEF MainInv, SentinelOK
  <2>2. others_faulted => others_faulted'
    BY Zenon
  <2>3. GuestReturnsToSentinel'
    BY <2>1, <2>2, SentinelsStay, Zenon
  <2> QED
    BY <2>3, Zenon DEF MainInv, SentinelOK
<1> QED
  BY <1>1, <1>2, <1>3, <1>4, <1>5, Zenon DEF MainInv

(* The steps of guest code that leave every stack alone: the handler tables *)
(* and CreateThread.                                                        *)
LEMMA TablesStep ==
  ASSUME IInv, NEW t \in Threads,
         \/ \E h \in Handlers, first \in BOOLEAN : AddVectored(t, h, first)
         \/ \E h \in Handlers : RemoveVectored(t, h)
         \/ \E set \in BOOLEAN : SetUnhandledExceptionFilter(t, set)
         \/ \E w \in Workers : CreateThread(t, w)
  PROVE  IInv'
<1>1. UNCHANGED <<traps, crash_info, process, main_vars, ghosts>>
  BY Zenon DEF AddVectored, RemoveVectored, SetUnhandledExceptionFilter, CreateThread
<1>2. /\ \A w \in Workers :
           started'[w] \in {"no", "spawned"} => started[w] \in {"no", "spawned"}
      /\ started' \in [Workers -> {"no", "spawned", "failed", "running", "done"}]
  <2>1. started \in [Workers -> {"no", "spawned", "failed", "running", "done"}]
    BY Zenon DEF IInv, Types
  <2>2. CASE UNCHANGED started
    BY <2>1, <2>2, Zenon
  <2>3. ASSUME NEW w \in Workers, started[w] = "no",
               \E x \in {"spawned", "failed"} : started' = [started EXCEPT ![w] = x]
        PROVE  (\A v \in Workers :
                  started'[v] \in {"no", "spawned"} => started[v] \in {"no", "spawned"})
               /\ started' \in [Workers -> {"no", "spawned", "failed", "running", "done"}]
    BY <2>1, <2>3, Zenon
  <2> QED
    BY <2>2, <2>3, Zenon DEF AddVectored, RemoveVectored, SetUnhandledExceptionFilter, CreateThread
<1>3. Types'
  BY <1>1, <1>2, Zenon DEF IInv, Types, traps, main_vars, seh, ghosts
<1>4. StacksInv'
  BY <1>1, StacksSame, Zenon DEF IInv
<1>5. \A w \in Workers : started'[w] \in {"no", "spawned"} => Depth(w)' = 0
  BY <1>1, <1>2, Zenon DEF IInv, MainInv, PhaseOK, Depth, traps
<1>6. MainInv'
  BY <1>1, <1>5, MainSame, Zenon DEF IInv, traps, main_vars, seh, ghosts
<1> QED
  BY <1>3, <1>4, <1>6, Zenon DEF IInv

(* A worker's stack is not empty when it has frames to lose. *)
LEMMA WorkersBegun ==
  ASSUME Types, PhaseOK, NEW t \in Threads, Depth(t) >= 1, Others(t), UNCHANGED started
  PROVE  \A w \in Workers : started'[w] \in {"no", "spawned"} => Depth(w)' = 0
<1> SUFFICES ASSUME NEW w \in Workers, started[w] \in {"no", "spawned"} PROVE Depth(w)' = 0
  BY Zenon
<1>1. Depth(w) = 0 /\ w \in Threads
  BY Zenon DEF PhaseOK, Threads
<1>2. w # t
  BY <1>1, SMT, Z3
<1> QED
  BY <1>1, <1>2, Zenon DEF Others, Depth

(* A window procedure is called. *)
LEMMA CallbackStep ==
  ASSUME ConstantsFit, IInv, NEW t \in Threads, Callback(t)
  PROVE  IInv'
<1>1. Types /\ Nested(t) /\ Placed(t) /\ MainInv /\ StacksInv
  BY Zenon DEF IInv, StacksInv
<1>2. stack[t] # << >> /\ Guest(t).kind = "loop" /\ process = "running"
  BY Zenon DEF Callback, RunsGuest, OnTop, Guest
<1>3. PICK d \in Nat : d = Depth(t) /\ d >= 1 /\ ~IsTrap(t, d)
  BY <1>1, <1>2, TopFacts, Zenon
<1>4. InvokeAt(EntryRsp("callback")) \in Slots
        /\ InvokeAt(EntryRsp("callback")).of = "callback"
  BY SMT, Z3 DEF InvokeAt, Below, EntryRsp, Slot, Slots
<1>5. PICK f \in Frames : /\ f = Loop("callback", InvokeAt(EntryRsp("callback")))
                          /\ f.kind = "loop" /\ f.what = "callback" /\ f.state = "body"
                          /\ f.rsp.of = "callback"
  BY <1>4, LoopType, SMT, Z3 DEF Whats
<1>6. Pushed(t, f) /\ stack' \in [Threads -> Seq(Frames)]
  BY <1>1, <1>5, PushEffect, Zenon DEF Callback
<1>7. UNCHANGED <<env, code, armed, crash_info, process, main_vars, tables, ghosts>>
  BY Zenon DEF Callback
<1>8. Types'
  BY <1>1, <1>6, <1>7, Zenon DEF Types, main_vars, seh, ghosts, tables
<1>9. Nested(t)'
  BY <1>1, <1>5, <1>6, <1>7, PushNested, Zenon
<1>10. stack[t][d].state = "body" /\ stack[t][d].kind = "loop"
  BY <1>1, <1>2, <1>3, TopFacts, SMT, Z3 DEF Placed
<1>11. LoopPlace(t, d + 1)'
  BY <1>3, <1>5, <1>6, <1>10, SMT, Z3 DEF LoopPlace, Pushed, Kept
<1>12. Placed(t)'
  BY <1>1, <1>3, <1>5, <1>6, <1>10, <1>11, PushPlaced, Zenon
<1>13. StacksInv'
  BY <1>1, <1>6, <1>7, <1>9, <1>12, StacksStep, Zenon DEF Pushed
<1>14. \A w \in Workers : started'[w] \in {"no", "spawned"} => Depth(w)' = 0
  BY <1>1, <1>3, <1>6, <1>7, WorkersBegun, Zenon DEF MainInv, Pushed, tables
<1>15. MainInv'
  <2>1. CASE t # Main
    <3>1. stack'[Main] = stack[Main]
      BY <1>6, <2>1, Zenon DEF Pushed, Others, Threads
    <3> QED
      BY <1>1, <1>7, <1>14, <3>1, MainSame, Zenon DEF main_vars, seh, ghosts
  <2>2. CASE t = Main
    <3>1. /\ Depth(Main)' = d + 1 /\ Depth(Main) = d /\ d >= 1
          /\ stack'[Main][d + 1] = f
          /\ \A i \in 1..d : stack'[Main][i] = stack[Main][i]
      BY <1>3, <1>6, <2>2, Zenon DEF Pushed, Kept
    <3>2. IsTrap(Main, 1)' <=> IsTrap(Main, 1)
      BY <3>1, SMT, Z3 DEF IsTrap
    <3>3. /\ Depth(Main)' >= 1 /\ stack'[Main][1] = stack[Main][1]
          /\ d >= 2 => stack'[Main][2] = stack[Main][2]
          /\ d = 1 => stack'[Main][2] = f
      BY <3>1, SMT, Z3
    <3>4. d = 1 => ~IsTrap(Main, 1)
      BY <1>3, <2>2, Zenon
    <3>5. PhaseOK'
      BY <1>1, <1>7, <1>14, <3>1, <3>3, ZenonT(40) DEF MainInv, PhaseOK, On, IsTrap, main_vars
    <3>6. CallsOK'
      BY <1>1, <1>7, <3>1, <3>3, <3>4, SMT, Z3 DEF MainInv, CallsOK, DllInitContained, PhaseOK, On, IsTrap, main_vars
    <3>7. OutcomeOK'
      BY <1>1, <1>7, <3>1, <3>3, <3>4, SMT, Z3
         DEF MainInv, OutcomeOK, RunGoesOn, ExitCodeIsMains, PhaseOK, On, IsTrap, main_vars, ghosts
    <3>8. FaultOK'
      BY <1>1, <1>7, ZenonT(40) DEF MainInv, FaultOK, main_vars, seh, ghosts
    <3>9. RspOK'
      BY <1>1, <1>7, <3>1, <3>3, <3>4, SMT, Z3
         DEF MainInv, RspOK, AtEntry, PhaseOK, On, IsTrap, main_vars, seh, ghosts
    <3>10. SentinelOK'
      <4>1. GuestReturnsToSentinel
        BY <1>1, Zenon DEF MainInv, SentinelOK
      <4>2. f.rsp.of # Main
        BY <1>5, Zenon DEF ConstantsFit, Threads
      <4>3. Len(stack'[Main]) = d + 1 /\ Len(stack[Main]) = d
        BY <3>1, Zenon DEF Depth
      <4>4. \A i \in 1..(d + 1) : i \in 1..d \/ i = d + 1
        OBVIOUS
      <4>5. GuestReturnsToSentinel'
        BY <1>7, <3>1, <4>1, <4>2, <4>3, <4>4, Zenon DEF GuestReturnsToSentinel, main_vars, ghosts
      <4> QED
        BY <1>1, <1>7, <4>5, Zenon DEF MainInv, SentinelOK, main_vars, ghosts
    <3> QED
      BY <3>5, <3>6, <3>7, <3>8, <3>9, <3>10, Zenon DEF MainInv
  <2> QED
    BY <2>1, <2>2, Zenon
<1> QED
  BY <1>8, <1>13, <1>15, Zenon DEF IInv
=============================================================================
