---------------------------- MODULE GuestProgram ----------------------------
(***************************************************************************)
(* What running a guest program means: every thread walks the program's    *)
(* control-flow graph, one basic block per step, and a conditional branch  *)
(* is decided by the flags, which keep their value until a block writes    *)
(* them.  The translator and dispatcher are shown to implement this.       *)
(***************************************************************************)
CONSTANTS Threads,
          Rips,       \* addresses of the basic blocks inside the image
          Term,       \* how each block ends: "jmp", "jcc", "dyn", "stop" or
                      \* "bad" (holds an instruction that cannot be run)
          Taken,      \* target of a jmp, or of a jcc whose condition holds
          Fall,       \* target of a jcc whose condition does not hold
          Dyn,        \* possible targets of a ret, indirect jmp or call
          SetsFlags,  \* blocks whose body writes the flags
          Sentinel    \* the return address that ends a thread

VARIABLES rip, flag, status

vars == <<rip, flag, status>>

(* The values the flags can have when the terminator of block r reads them. *)
FlagsAtEnd(r, f) == IF r \in SetsFlags THEN BOOLEAN ELSE {f}

(* Where block r goes when the flags are f. *)
Successors(r, f) ==
  CASE Term[r] = "jmp" -> {Taken[r]}
    [] Term[r] = "jcc" -> {IF f THEN Taken[r] ELSE Fall[r]}
    [] Term[r] = "dyn" -> Dyn[r] \ {Sentinel}
    [] OTHER -> {}

Ends(r) == Term[r] = "stop" \/ (Term[r] = "dyn" /\ Sentinel \in Dyn[r])

Init ==
  /\ rip \in [Threads -> Rips]
  /\ flag \in [Threads -> BOOLEAN]
  /\ status = [t \in Threads |-> "running"]

RunBlock(t) ==
  /\ status[t] = "running" /\ rip[t] \in Rips
  /\ \E f \in FlagsAtEnd(rip[t], flag[t]) :
       /\ flag' = [flag EXCEPT ![t] = f]
       /\ \/ /\ Ends(rip[t])
             /\ status' = [status EXCEPT ![t] = "stopped"]
             /\ UNCHANGED rip
          \/ \E r \in Successors(rip[t], f) :
               /\ rip' = [rip EXCEPT ![t] = r]
               /\ UNCHANGED status

(* The runtime may give up on a thread, never misrun it. *)
Abort(t) ==
  /\ status[t] = "running"
  /\ status' = [status EXCEPT ![t] = "aborted"]
  /\ UNCHANGED <<rip, flag>>

Next == \E t \in Threads : RunBlock(t) \/ Abort(t)

Spec == Init /\ [][Next]_vars
=============================================================================
