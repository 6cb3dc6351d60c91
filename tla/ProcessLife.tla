----------------------------- MODULE ProcessLife -----------------------------
(***************************************************************************)
(* How guest code is started and how it ends: run_pe_with_dir and the      *)
(* thread spawner of quantum-cli/src/process.rs, the exit trap and crash   *)
(* handler of quantum-kernel32/src/process.rs, the exception dispatch.     *)
(*                                                                         *)
(* Every host thread has a stack of two kinds of frames: `trap`, a call of *)
(* run_with_exit_trap, with what it saved, and `loop`, a dispatcher loop   *)
(* running guest code.  The guest runs in a thread whose top frame is a    *)
(* loop.  longjmp cuts the stack back to the frame the thread's `env`      *)
(* names.  Everything of a thread but crash_info is thread-local, so what  *)
(* it does up to the next guest code is one step.                          *)
(*                                                                         *)
(* Of the guest's registers RSP is kept, in slots of 8 bytes, and of its   *)
(* memory the slots of the main stack that hold STOP_SENTINEL.             *)
(***************************************************************************)
EXTENDS Integers, Sequences

CONSTANTS Main, Workers,
          Codes,        \* exit codes the guest uses, in 0..254
          DllCalls,     \* TLS callbacks and DllMains of the side DLLs
          TlsCalls,     \* bound: TLS callbacks of the main image
          MaxAttempts,  \* 16 in the code
          Handlers,     \* bound: handlers registered at a time
          MaxNest       \* bound: frames of a host stack

CrashCode == 254        \* 0xFFFF_FFFE
NoExit == 255           \* u32::MAX
Threads == {Main} \cup Workers
Dispositions == {"continue", "search", "other"}

ConstantsFit ==
  /\ Main \notin Workers /\ "none" \notin Threads /\ "callback" \notin Threads
  /\ DllCalls \in Nat /\ TlsCalls \in Nat /\ MaxAttempts \in Nat

VARIABLES stack,        \* host stack of each thread
          env, code, armed,  \* ExitState of each thread; env is a stack depth
          crash_info,   \* CRASH_INFO: who faulted, and its RSP
          process,      \* "running", or "exited"
          phase,        \* where run_pe_with_dir is
          next_call,    \* the next call of the body: DLLs, TLS callbacks, entry
          exit_code, seh_attempts,
          snapshot, context,  \* of dispatch_seh: handlers left, CONTEXT
          rsp,          \* ctx.gprs[4] of run_pe_with_dir
          sentinels,    \* slots of the main stack that hold STOP_SENTINEL
          handlers, filter,  \* VECTORED_HANDLERS, UNHANDLED_EXCEPTION_FILTER
          started, finished, \* the workers and their ThreadFinished flags
          outcome,      \* ghost: how the last run of the main thread ended
          fault,        \* ghost: the fault it ended with, if any
          others_faulted, \* ghost: a worker or a DLL's initialisation faulted
          skewed        \* ghost: guest code began with RSP off its return address

traps == <<stack, env, code, armed>>
seh == <<seh_attempts, snapshot, context>>
tables == <<handlers, filter, started, finished>>
ghosts == <<outcome, fault, others_faulted, skewed>>
main_vars == <<phase, next_call, exit_code, seh, rsp, sentinels>>
vars == <<traps, crash_info, process, main_vars, tables, ghosts>>

Slot(of, at) == [of |-> of, at |-> at]
Below(s, n) == [s EXCEPT !.at = @ - n]
NoCrash == [who |-> "none", rsp |-> Slot("none", 0)]

(* GuestStack::entry_rsp: the slot under the top, slot 0. *)
EntryRsp(t) == Slot(t, -1)

Trap(t, what) ==
  [kind |-> "trap", what |-> what, rsp |-> rsp, state |-> "body",
   env |-> env[t], code |-> code[t], armed |-> armed[t]]
Loop(what, at) ==
  [kind |-> "loop", what |-> what, rsp |-> at, state |-> "body",
   env |-> 0, code |-> 0, armed |-> FALSE]
Guest(t) == stack[t][Len(stack[t])]
OnTop(t, kind) == process = "running" /\ stack[t] # << >> /\ Guest(t).kind = kind
RunsGuest(t) == OnTop(t, "loop")
Pop(t) == stack' = [stack EXCEPT ![t] = SubSeq(@, 1, Len(@) - 1)]

Init ==
  /\ stack = [t \in Threads |-> << >>]
  /\ env = [t \in Threads |-> 0]
  /\ code = [t \in Threads |-> 0]
  /\ armed = [t \in Threads |-> FALSE]
  /\ crash_info = NoCrash /\ process = "running"
  /\ phase = "start" /\ next_call = 1
  /\ exit_code = NoExit /\ seh_attempts = 0 /\ snapshot = << >> /\ context = NoCrash
  /\ rsp = EntryRsp(Main) /\ sentinels = {EntryRsp(Main)}
  /\ handlers = << >> /\ filter = FALSE
  /\ started = [w \in Workers |-> "no"]
  /\ finished = [w \in Workers |-> FALSE]
  /\ outcome = NoExit /\ fault = NoCrash /\ others_faulted = FALSE /\ skewed = FALSE
-----------------------------------------------------------------------------
(* run_with_exit_trap up to body(): save the ExitState in the frame, arm it *)
(* and setjmp here.  `frames` are the loops that the body starts with.      *)
EnterTrap(t, what, frames) ==
  /\ stack' = [stack EXCEPT ![t] = Append(@, Trap(t, what)) \o frames]
  /\ env' = [env EXCEPT ![t] = Len(stack[t]) + 1]
  /\ code' = [code EXCEPT ![t] = 0]
  /\ armed' = [armed EXCEPT ![t] = TRUE]

(* The stack of t cut back to its trap at depth n. *)
CutTo(t, n, how) ==
  stack' = [stack EXCEPT ![t] = Append(SubSeq(@, 1, n - 1), [@[n] EXCEPT !.state = how])]

(* longjmp to the thread's setjmp buffer. *)
Longjmp(t) == CutTo(t, env[t], "landed")

(* What a trap reports once its body has returned or longjmp has landed. *)
TrapOver(t) == OnTop(t, "trap") /\ Guest(t).state # "body"
Result(t) == IF Guest(t).state = "landed" THEN code[t] ELSE NoExit

(* Mutant: the setjmp buffer of the caller is not put back. *)
LeaveTrap_NoEnv(t) ==
  /\ Pop(t)
  /\ code' = [code EXCEPT ![t] = Guest(t).code]
  /\ armed' = [armed EXCEPT ![t] = Guest(t).armed]
  /\ UNCHANGED env

(* Mutant: the exit code of the caller is not put back. *)
LeaveTrap_NoCode(t) ==
  /\ Pop(t)
  /\ env' = [env EXCEPT ![t] = Guest(t).env]
  /\ armed' = [armed EXCEPT ![t] = Guest(t).armed]
  /\ UNCHANGED code

(* The end of run_with_exit_trap: the caller's ExitState is restored. *)
LeaveTrap(t) ==
  /\ Pop(t)
  /\ env' = [env EXCEPT ![t] = Guest(t).env]
  /\ code' = [code EXCEPT ![t] = Guest(t).code]
  /\ armed' = [armed EXCEPT ![t] = Guest(t).armed]

(* Ghost: a run that run_pe_with_dir will look at has ended. *)
IsMainRun(f) == f.what \in {"body", "resume"}
Ended(f, how, crash) ==
  IF IsMainRun(f) THEN outcome' = how /\ fault' = crash ELSE UNCHANGED <<outcome, fault>>
-----------------------------------------------------------------------------
(* A guest function that starts with RSP at e owns what is below and the  *)
(* home space above its return address: no sentinel is safe there.        *)
Spared(e) == {s \in sentinels : s.of = e.of => s = e \/ s.at > e.at + 4}

(* Mutant: room for the return address only. *)
InvokeAt_NoShadow(s) == Below(s, 1)

(* invoke_guest_function: the return address and 0x20 bytes of home space. *)
InvokeAt(s) == Below(s, 5)

Push(t, f) == stack' = [stack EXCEPT ![t] = Append(@, f)]

(* invoke_guest_function on run_pe_with_dir's context, up to the loop. *)
Invoke ==
  /\ rsp' = InvokeAt(rsp)
  /\ sentinels' = Spared(rsp') \cup {rsp'}

(* The body of run_pe_with_dir, call by call. *)
RunBody ==
  /\ process = "running" /\ phase = "start"
  /\ EnterTrap(Main, "body", << >>)
  /\ phase' = "body"
  /\ UNCHANGED <<crash_info, process, next_call, exit_code, seh, rsp, sentinels,
                 tables, ghosts>>

InBody == OnTop(Main, "trap") /\ Guest(Main).what = "body" /\ Guest(Main).state = "body"

(* One call of init_side_module, in a trap of its own. *)
InitDll ==
  /\ InBody /\ next_call <= DllCalls
  /\ EnterTrap(Main, "dll", <<Loop("dll", InvokeAt(rsp))>>)
  /\ Invoke
  /\ UNCHANGED <<crash_info, process, phase, next_call, exit_code, seh, tables, ghosts>>

(* ... and its end: the stack is reset for the next one, and with tracing *)
(* on the record of a crash is taken.                                     *)
DllCallEnds ==
  /\ TrapOver(Main) /\ Guest(Main).what = "dll"
  /\ LeaveTrap(Main)
  /\ next_call' = next_call + 1 /\ rsp' = Guest(Main).rsp
  /\ crash_info' \in {crash_info} \cup (IF Result(Main) = CrashCode THEN {NoCrash} ELSE {})
  /\ UNCHANGED <<process, phase, exit_code, seh, sentinels, tables, ghosts>>

(* A TLS callback of the main image, in the trap of the body. *)
TlsCallback ==
  /\ InBody /\ next_call \in (DllCalls + 1)..(DllCalls + TlsCalls)
  /\ Push(Main, Loop("tls", InvokeAt(rsp)))
  /\ Invoke
  /\ UNCHANGED <<env, code, armed, crash_info, process, phase, next_call, exit_code,
                 seh, tables, ghosts>>

(* It returns, or stops where it is: nobody looks at the result. *)
TlsCallbackEnds ==
  /\ RunsGuest(Main) /\ Guest(Main).what = "tls"
  /\ Pop(Main)
  /\ rsp' \in {Guest(Main).rsp, Below(Guest(Main).rsp, -1)}
  /\ next_call' = next_call + 1
  /\ UNCHANGED <<env, code, armed, crash_info, process, phase, exit_code, seh,
                 sentinels, tables, ghosts>>

(* The entry point, on the stack as it is now.  The image has any number of *)
(* TLS callbacks up to the bound.                                           *)
EntryPoint ==
  /\ InBody /\ next_call > DllCalls
  /\ Push(Main, Loop("entry", rsp))
  /\ sentinels' = Spared(rsp)
  /\ next_call' = next_call + 1
  /\ skewed' = (next_call > DllCalls + 1)
  /\ UNCHANGED <<env, code, armed, crash_info, process, phase, exit_code, seh, rsp,
                 tables, outcome, fault, others_faulted>>

(* The trap of the body, or of a resumed run, reports to run_pe_with_dir. *)
RunEnds ==
  /\ TrapOver(Main) /\ IsMainRun(Guest(Main))
  /\ LeaveTrap(Main)
  /\ exit_code' = Result(Main) /\ phase' = "ended"
  /\ UNCHANGED <<crash_info, process, next_call, seh, rsp, sentinels, tables, ghosts>>
-----------------------------------------------------------------------------
(* How guest code ends.  A loop that is the last thing of a trap's body ends, *)
(* by a return to the sentinel or with an error.                              *)
BodyReturns(t) ==
  /\ RunsGuest(t) /\ Guest(t).what \in {"dll", "entry", "resume", "worker"}
  /\ CutTo(t, Len(stack[t]) - 1, "returned")
  /\ Ended(stack[t][Len(stack[t]) - 1], NoExit, NoCrash)
  /\ UNCHANGED <<env, code, armed, crash_info, process, main_vars, tables, others_faulted, skewed>>

(* CallbackInvoker::invoke for a window procedure, on a stack of its own. *)
Callback(t) ==
  /\ RunsGuest(t) /\ Len(stack[t]) < MaxNest
  /\ Push(t, Loop("callback", InvokeAt(EntryRsp("callback"))))
  /\ UNCHANGED <<env, code, armed, crash_info, process, main_vars, tables, ghosts>>

CallbackReturns(t) ==
  /\ RunsGuest(t) /\ Guest(t).what = "callback"
  /\ Pop(t)
  /\ UNCHANGED <<env, code, armed, crash_info, process, main_vars, tables, ghosts>>

(* Without a trap the process ends. *)
ExitProcess(t, c) ==
  /\ RunsGuest(t)
  /\ code' = [code EXCEPT ![t] = c]
  /\ IF armed[t]
       THEN Longjmp(t) /\ Ended(stack[t][env[t]], c, NoCrash) /\ UNCHANGED process
       ELSE process' = "exited" /\ UNCHANGED <<stack, outcome, fault>>
  /\ UNCHANGED <<env, armed, crash_info, main_vars, tables, others_faulted, skewed>>

(* ExitThread stores no code; without a trap it is pthread_exit. *)
ExitThread(t) ==
  /\ RunsGuest(t)
  /\ IF armed[t]
       THEN Longjmp(t) /\ Ended(stack[t][env[t]], 0, NoCrash) /\ UNCHANGED phase
       ELSE /\ stack' = [stack EXCEPT ![t] = << >>]
            /\ phase' = IF t = Main THEN "gone" ELSE phase
            /\ UNCHANGED <<outcome, fault>>
  /\ UNCHANGED <<env, code, armed, crash_info, process, next_call, exit_code, seh, rsp,
                 sentinels, tables, others_faulted, skewed>>

(* crash_handler: guest code faults. *)
Fault(t) ==
  /\ RunsGuest(t)
  /\ crash_info' = [who |-> t, rsp |-> Guest(t).rsp]
  /\ code' = [code EXCEPT ![t] = CrashCode]
  /\ IF armed[t]
       THEN /\ Longjmp(t) /\ Ended(stack[t][env[t]], CrashCode, crash_info')
            /\ others_faulted' = (others_faulted \/ ~IsMainRun(stack[t][env[t]]))
            /\ UNCHANGED <<process, skewed>>
       ELSE process' = "exited" /\ UNCHANGED <<stack, ghosts>>
  /\ UNCHANGED <<env, armed, main_vars, tables>>

Registered == {handlers[i] : i \in DOMAIN handlers}

(* AddVectoredExceptionHandler, RemoveVectoredExceptionHandler. *)
AddVectored(t, h, first) ==
  /\ RunsGuest(t) /\ h \notin Registered
  /\ handlers' = IF first THEN <<h>> \o handlers ELSE Append(handlers, h)
  /\ UNCHANGED <<traps, crash_info, process, main_vars, filter, started, finished, ghosts>>

RemoveVectored(t, h) ==
  /\ RunsGuest(t) /\ h \in Registered
  /\ handlers' = SelectSeq(handlers, LAMBDA g : g # h)
  /\ UNCHANGED <<traps, crash_info, process, main_vars, filter, started, finished, ghosts>>

SetUnhandledExceptionFilter(t, set) ==
  /\ RunsGuest(t)
  /\ filter' = set
  /\ UNCHANGED <<traps, crash_info, process, main_vars, handlers, started, finished, ghosts>>
-----------------------------------------------------------------------------
(* The exception loop of run_pe_with_dir, between two runs of the guest. *)
Between(p) == process = "running" /\ phase = p /\ stack[Main] = << >>

Go(p) ==
  /\ phase' = p
  /\ UNCHANGED <<traps, process, next_call, exit_code, sentinels, tables, ghosts>>

(* The loop ends: no crash, or too many attempts. *)
RunReturns ==
  /\ Between("ended")
  /\ exit_code # CrashCode \/ seh_attempts >= MaxAttempts
  /\ Go("done") /\ UNCHANGED <<crash_info, seh, rsp>>

(* take_crash_info has nothing: the guest exited with the crash code. *)
NoRecord ==
  /\ Between("ended") /\ exit_code = CrashCode /\ crash_info = NoCrash
  /\ seh_attempts < MaxAttempts /\ seh_attempts' = seh_attempts + 1
  /\ Go("done") /\ UNCHANGED <<crash_info, snapshot, context, rsp>>

(* dispatch_seh builds the CONTEXT, loads run_pe_with_dir's context from it *)
(* and walks a snapshot of the vectored handlers.                           *)
BuildContext ==
  /\ context' = crash_info /\ rsp' = crash_info.rsp /\ snapshot' = handlers
  /\ Go("vectored")

(* Mutant: the crash record is read and not taken. *)
DispatchSeh_Keeps ==
  /\ Between("ended") /\ exit_code = CrashCode /\ crash_info # NoCrash
  /\ seh_attempts < MaxAttempts /\ seh_attempts' = seh_attempts + 1
  /\ BuildContext /\ UNCHANGED crash_info

(* An attempt: take_crash_info, then dispatch_seh. *)
DispatchSeh ==
  /\ Between("ended") /\ exit_code = CrashCode /\ crash_info # NoCrash
  /\ seh_attempts < MaxAttempts /\ seh_attempts' = seh_attempts + 1
  /\ BuildContext /\ crash_info' = NoCrash

(* invoke_guest_function on a handler, outside of any trap. *)
CallHandler ==
  /\ Push(Main, Loop("handler", InvokeAt(rsp)))
  /\ Invoke
  /\ UNCHANGED <<env, code, armed, crash_info, process, phase, next_call, exit_code,
                 seh_attempts, context, tables, ghosts>>

CallVectored ==
  /\ Between("vectored") /\ snapshot # << >>
  /\ CallHandler /\ snapshot' = Tail(snapshot)

VectoredDone ==
  /\ Between("vectored") /\ snapshot = << >>
  /\ Go("filter") /\ UNCHANGED <<crash_info, seh, rsp>>

CallFilter == Between("filter") /\ filter /\ CallHandler /\ UNCHANGED snapshot

NoFilter ==
  /\ Between("filter") /\ ~filter
  /\ Go("static") /\ UNCHANGED <<crash_info, seh, rsp>>

(* The image may or may not have a .pdata handler for the address. *)
CallStatic == Between("static") /\ CallHandler /\ UNCHANGED snapshot

NoStatic == Between("static") /\ Go("unhandled") /\ UNCHANGED <<crash_info, seh, rsp>>

(* A handler returns a disposition.  The one that continues has the CONTEXT *)
(* loaded; otherwise the registers stay as the handler left them.           *)
HandlerReturns(d) ==
  /\ RunsGuest(Main) /\ Guest(Main).what = "handler"
  /\ Pop(Main)
  /\ phase' = CASE d = "continue" -> "resume"
                [] d # "continue" /\ phase = "vectored" -> "vectored"
                [] d # "continue" /\ phase = "filter" -> "static"
                [] d # "continue" /\ phase = "static" -> "unhandled"
  /\ snapshot' = IF d = "search" THEN snapshot ELSE << >>
  /\ rsp' \in IF d = "continue" THEN {context.rsp}
              ELSE {Guest(Main).rsp, Below(Guest(Main).rsp, -1)}
  /\ UNCHANGED <<env, code, armed, crash_info, process, next_call, exit_code,
                 seh_attempts, context, sentinels, tables, ghosts>>

(* Its loop ends with an error: dispatch_seh gives up. *)
HandlerFails ==
  /\ RunsGuest(Main) /\ Guest(Main).what = "handler"
  /\ Pop(Main)
  /\ phase' = "unhandled" /\ snapshot' = << >> /\ rsp' = Guest(Main).rsp
  /\ UNCHANGED <<env, code, armed, crash_info, process, next_call, exit_code,
                 seh_attempts, context, sentinels, tables, ghosts>>

(* try_drm_int3_recover steps over its pattern, where the image has it. *)
Recover ==
  /\ Between("unhandled")
  /\ phase' = "resume"
  /\ skewed' = (skewed \/ rsp # context.rsp)
  /\ UNCHANGED <<traps, crash_info, process, next_call, exit_code, seh, rsp, sentinels,
                 tables, outcome, fault, others_faulted>>

GiveUp == Between("unhandled") /\ Go("done") /\ UNCHANGED <<crash_info, seh, rsp>>

(* The guest goes on, in a new trap; the CONTEXT is dropped. *)
Resume ==
  /\ Between("resume")
  /\ EnterTrap(Main, "resume", <<Loop("resume", rsp)>>)
  /\ phase' = "resumed" /\ context' = NoCrash
  /\ sentinels' = Spared(rsp)
  /\ outcome' = NoExit /\ fault' = NoCrash
  /\ UNCHANGED <<crash_info, process, next_call, exit_code, seh_attempts, snapshot, rsp,
                 tables, others_faulted, skewed>>

(* run_pe_with_dir has returned: the process ends, with its workers. *)
ProcessEnds ==
  /\ process = "running" /\ phase = "done"
  /\ process' = "exited"
  /\ UNCHANGED <<traps, crash_info, main_vars, tables, ghosts>>
-----------------------------------------------------------------------------
(* CreateThread and the spawner.  When the host has no thread to give, the *)
(* handle's flag is set from the start.                                    *)
CreateThread(t, w) ==
  /\ RunsGuest(t) /\ started[w] = "no"
  /\ \/ started' = [started EXCEPT ![w] = "spawned"] /\ UNCHANGED finished
     \/ /\ started' = [started EXCEPT ![w] = "failed"]
        /\ finished' = [finished EXCEPT ![w] = TRUE]
  /\ UNCHANGED <<traps, crash_info, process, main_vars, handlers, filter, ghosts>>

(* The worker gets a stack and a trap and runs, or there is no stack. *)
WorkerStart(w) ==
  /\ process = "running" /\ started[w] = "spawned"
  /\ \/ /\ EnterTrap(w, "worker", <<Loop("worker", EntryRsp(w))>>)
        /\ started' = [started EXCEPT ![w] = "running"]
        /\ UNCHANGED finished
     \/ /\ started' = [started EXCEPT ![w] = "failed"]
        /\ finished' = [finished EXCEPT ![w] = TRUE]
        /\ UNCHANGED traps
  /\ UNCHANGED <<crash_info, process, main_vars, handlers, filter, ghosts>>

(* Mutant: the flag is set at the end of the trap's body. *)
WorkerEnds_InBody(w) ==
  /\ TrapOver(w) /\ LeaveTrap(w)
  /\ started' = [started EXCEPT ![w] = "done"]
  /\ finished' = [finished EXCEPT ![w] = Guest(w).state = "returned"]
  /\ UNCHANGED <<crash_info, process, main_vars, handlers, filter, ghosts>>

(* However the trap ended, the worker sets its flag. *)
WorkerEnds(w) ==
  /\ TrapOver(w) /\ LeaveTrap(w)
  /\ started' = [started EXCEPT ![w] = "done"]
  /\ finished' = [finished EXCEPT ![w] = TRUE]
  /\ UNCHANGED <<crash_info, process, main_vars, handlers, filter, ghosts>>
-----------------------------------------------------------------------------
GuestStep(t) ==
  \/ BodyReturns(t) \/ Callback(t) \/ CallbackReturns(t)
  \/ \E c \in Codes : ExitProcess(t, c)
  \/ ExitThread(t) \/ Fault(t)
  \/ \E h \in Handlers, first \in BOOLEAN : AddVectored(t, h, first)
  \/ \E h \in Handlers : RemoveVectored(t, h)
  \/ \E set \in BOOLEAN : SetUnhandledExceptionFilter(t, set)
  \/ \E w \in Workers : CreateThread(t, w)

MainStep ==
  \/ RunBody \/ InitDll \/ DllCallEnds \/ TlsCallback \/ TlsCallbackEnds \/ EntryPoint
  \/ RunEnds \/ RunReturns \/ NoRecord \/ DispatchSeh \/ CallVectored \/ VectoredDone
  \/ CallFilter \/ NoFilter \/ CallStatic \/ NoStatic
  \/ \E d \in Dispositions : HandlerReturns(d)
  \/ HandlerFails \/ Recover \/ GiveUp \/ Resume \/ ProcessEnds

Next ==
  \/ \E t \in Threads : GuestStep(t)
  \/ MainStep
  \/ \E w \in Workers : WorkerStart(w) \/ WorkerEnds(w)

Spec == Init /\ [][Next]_vars

(* The host runs a thread that is not in guest code. *)
FairSpec == Spec /\ \A w \in Workers : WF_vars(WorkerStart(w) \/ WorkerEnds(w))
-----------------------------------------------------------------------------
Phases == {"start", "body", "ended", "vectored", "filter", "static", "unhandled",
           "resume", "resumed", "done", "gone"}
Dispatching == {"vectored", "filter", "static", "unhandled", "resume"}
Slots == [of : Threads \cup {"callback", "none"}, at : Int]
Crashes == [who : Threads \cup {"none"}, rsp : Slots]
Exits == Codes \cup {0, CrashCode, NoExit}
Frames == [kind : {"trap", "loop"}, state : {"body", "returned", "landed"},
           what : {"body", "dll", "tls", "entry", "callback", "handler", "resume", "worker"},
           rsp : Slots, env : Nat, code : Exits, armed : BOOLEAN]

(* The types; the exception loop makes at most MaxAttempts attempts. *)
LifeTypeOK ==
  /\ \A t \in Threads : stack[t] \in Seq(Frames)
  /\ env \in [Threads -> Nat] /\ code \in [Threads -> Exits]
  /\ armed \in [Threads -> BOOLEAN]
  /\ crash_info \in Crashes /\ context \in Crashes /\ fault \in Crashes
  /\ process \in {"running", "exited"} /\ phase \in Phases
  /\ next_call \in 1..(DllCalls + TlsCalls + 2)
  /\ exit_code \in Exits /\ outcome \in Exits /\ seh_attempts \in 0..MaxAttempts
  /\ rsp \in Slots /\ sentinels \subseteq Slots
  /\ handlers \in Seq(Handlers) /\ snapshot \in Seq(Handlers) /\ filter \in BOOLEAN
  /\ started \in [Workers -> {"no", "spawned", "failed", "running", "done"}]
  /\ finished \in [Workers -> BOOLEAN]
  /\ others_faulted \in BOOLEAN /\ skewed \in BOOLEAN

(* A thread's trap is armed exactly while a call of run_with_exit_trap is on *)
(* its host stack, and the setjmp buffer is that of the innermost such call. *)
TrapsAreLive ==
  \A t \in Threads :
    LET live == {i \in 1..Len(stack[t]) : stack[t][i].kind = "trap"} IN
    process = "running" /\ phase # "gone" =>
      /\ armed[t] <=> live # {}
      /\ armed[t] => env[t] \in live /\ \A i \in live : i <= env[t]

(* A DLL's initialisation that faults or exits does not abort the sequence: *)
(* the body of run_pe_with_dir ends only after every DLL was initialised.   *)
DllInitContained == phase \notin {"start", "body"} => next_call > DllCalls

(* ExitProcess, ExitThread and a fault never longjmp into a frame that has  *)
(* returned, however traps, callbacks and handlers were nested before, and  *)
(* end the innermost trap only: that of a DLL does not end the others.      *)
LongjmpLandsLive == TrapsAreLive /\ DllInitContained

(* The exit code that run_pe_with_dir returns tells how the last run of the *)
(* main thread ended: the code that it passed to ExitProcess, 0 for         *)
(* ExitThread, the crash code or u32::MAX; never one left by a DLL's        *)
(* initialisation, a callback's trap or a worker.                           *)
ExitCodeIsMains == phase \in Dispatching \cup {"ended", "done"} => exit_code = outcome

(* Exceptions are dispatched only for a fault that ended the main thread's  *)
(* last run, with that fault's registers, as long as no worker and no DLL's *)
(* initialisation has faulted: a record is never dispatched twice.          *)
SehSeesItsFault ==
  phase \in Dispatching /\ ~others_faulted => fault # NoCrash /\ context = fault

(* Every function that run_pe_with_dir calls finds STOP_SENTINEL as its return *)
(* address for as long as it runs, whatever ran on the stack before and        *)
(* whatever handlers ran below it; so does code resumed after a fault of its   *)
(* own.  Excepted are the entry point after TLS callbacks of the main image    *)
(* and code resumed by the int3 recovery with the RSP a handler left.          *)
GuestReturnsToSentinel ==
  \A i \in 1..Len(stack[Main]) :
    LET f == stack[Main][i] IN
    (/\ f.kind = "loop" /\ f.rsp.of = Main
     /\ f.what \in {"entry", "resume"} => ~skewed /\ ~others_faulted)
    => f.rsp \in sentinels

(* A worker that was created and is not running guest code, because it has *)
(* not begun, has returned, exited or faulted, has its finished flag set   *)
(* in the end: whoever waits for the thread is released.                   *)
Over(w) == started[w] # "no" /\ ~RunsGuest(w)
Reported(w) == finished[w] \/ RunsGuest(w) \/ process = "exited"
WorkerIsReported == \A w \in Workers : Over(w) ~> Reported(w)
=============================================================================
