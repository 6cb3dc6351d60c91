---------------------------- MODULE MCProcessLife ----------------------------
(****************************************************************************)
(* Two scenes of ProcessLife, chosen first, that bound what the guest does: *)
(* the main thread alone, which nests less with every exception; and the    *)
(* main thread with workers, after initialisations that do no more than     *)
(* return, with one attempt at an exception.                                *)
(****************************************************************************)
EXTENDS ProcessLife

VARIABLE scene

(* What the theorems about ProcessLife assume of its constants. *)
ASSUME SceneFits == ConstantsFit

Initialised == next_call > DllCalls

(* What the guest does in a scene.  It holds of every state, so a worker's  *)
(* own steps are never held up.                                             *)
Staged ==
  /\ scene = "main" =>
       /\ \A w \in Workers : started[w] = "no"
       /\ Len(stack[Main]) + seh_attempts <= 4
  /\ scene = "workers" =>
       /\ seh_attempts <= 1 /\ \A t \in Threads : Len(stack[t]) <= 3
       /\ \A i \in DOMAIN stack[Main] : stack[Main][i].what # "tls"
       /\ ~Initialised =>
            /\ handlers = << >> /\ ~filter
            /\ \A w \in Workers : started[w] = "no"
            /\ \A i \in DOMAIN stack[Main] : stack[Main][i].state # "landed"

LInit == Init /\ scene \in {"main", "workers"}
LNext == UNCHANGED scene /\ Next /\ Staged'

(* The host runs a worker that is not in guest code. *)
LSpec == LInit /\ [][LNext]_<<vars, scene>>
         /\ \A w \in Workers : WF_vars(WorkerStart(w) \/ WorkerEnds(w))
-----------------------------------------------------------------------------
(* The types, and process.rs's spawner: a worker that is over has its       *)
(* finished flag set in the end.                                            *)
WorkersAreReported == []LifeTypeOK /\ WorkerIsReported
=============================================================================
