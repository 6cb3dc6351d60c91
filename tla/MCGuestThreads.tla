--------------------------- MODULE MCGuestThreads ---------------------------
(***************************************************************************)
(* What guest threads meet at without the kernel's objects: a critical     *)
(* section (CriticalSection) and the message queues (MessageQueue).  They  *)
(* share no state; the one a behaviour is about is chosen first.           *)
(***************************************************************************)
EXTENDS CriticalSection, MessageQueue

VARIABLE at_work

all == <<vars, queue_vars, at_work>>

Idle == lock_count = 0 /\ owner_thread_id = NoThread

TInit ==
  /\ Init /\ QueueInit
  /\ \/ at_work = "section"
     \/ at_work = "queues" /\ Idle

TNext ==
  /\ UNCHANGED at_work
  /\ \/ at_work = "section" /\ Next /\ UNCHANGED queue_vars
     \/ at_work = "queues" /\ QueueNext /\ UNCHANGED vars

SectionInside(t) == at_work = "section" /\ Inside(t) /\ UNCHANGED <<queue_vars, at_work>>
QueueInside(t) == at_work = "queues" /\ InPump(t) /\ UNCHANGED <<vars, at_work>>

(* The host runs every thread that is inside a thunk. *)
TSpec ==
  /\ TInit /\ [][TNext]_all
  /\ \A t \in Threads : WF_all(SectionInside(t))
  /\ \A t \in Pumpers : WF_all(QueueInside(t))
=============================================================================
