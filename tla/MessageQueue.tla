---------------------------- MODULE MessageQueue ----------------------------
(***************************************************************************)
(* The windowing state of quantum-kernel32/src/windows_state.rs and the    *)
(* message thunks of user32.rs over it.  Each helper of windows_state      *)
(* takes the one state lock for its own duration, so a thunk that calls    *)
(* two of them (look at the quit flag, then take it; pop, then push back)  *)
(* is two steps with other threads in between.                             *)
(*                                                                         *)
(* Messages carry the number of their posting, which is what order and     *)
(* loss are about; their contents are left out.  The WNDPROC that dispatch *)
(* re-enters is guest code: what it may do are the other thunks.           *)
(***************************************************************************)
EXTENDS Integers, Sequences, FiniteSets

CONSTANTS Callers,     \* guest threads
          Pumpers,     \* those of them that call GetMessageW / PeekMessageW
          Classes, Procs,
          NoProc,      \* WNDPROC 0, not in Procs
          MaxWindows,  \* bound: windows created
          MaxPosts,    \* bound: messages posted, input events included
          MaxQuits,    \* bound: PostQuitMessage calls
          Removes,     \* PM_REMOVE settings the guest peeks with
          Cocoa        \* whether AppKit delivers input events

ASSUME QueueAssumption ==
  MaxWindows \in Nat /\ MaxPosts \in Nat /\ MaxQuits \in Nat /\ Removes \subseteq BOOLEAN

VARIABLES classes,     \* State.classes: class -> WNDPROC, NoProc is absent
          windows,     \* State.windows, indexed in creation order
          quit,        \* State.quit_code is Some
          place, req,     \* per pumper: place in a thunk, its filter and flags
          held,        \* the message a PM_NOREMOVE peek has popped, 0 is none
          posted,      \* messages accepted so far
          received,    \* messages handed out with removal
          dropped,     \* messages discarded with their window
          quits_posted,
          requeued     \* windows a PM_NOREMOVE peek has popped from

tables == <<classes, windows>>
history == <<posted, received, dropped, quits_posted, requeued>>
queue_vars == <<classes, windows, quit, place, req, held, posted, received, dropped,
          quits_posted, requeued>>

Hwnds == 1..Len(windows)
AnyWindow == 0      \* hwnd filter NULL
NoReq == [api |-> "none", filter |-> AnyWindow, remove |-> TRUE]

GoTo(t, l) == place' = [place EXCEPT ![t] = l]
Return(t) == GoTo(t, "idle") /\ req' = [req EXCEPT ![t] = NoReq]

QueueInit ==
  /\ classes = [c \in Classes |-> NoProc]
  /\ windows = << >>
  /\ quit = FALSE
  /\ place = [t \in Pumpers |-> "idle"]
  /\ req = [t \in Pumpers |-> NoReq]
  /\ held = [t \in Pumpers |-> 0]
  /\ posted = 0 /\ received = {} /\ dropped = {}
  /\ quits_posted = 0
  /\ requeued = {}

(* A thread makes calls while it is not inside a pumping thunk. *)
Free(t) == t \in Pumpers => place[t] = "idle"

(* register_class: an existing class keeps its atom and procedure. *)
RegisterClassExW(t, c, p) ==
  /\ Free(t)
  /\ classes' = IF classes[c] = NoProc THEN [classes EXCEPT ![c] = p] ELSE classes
  /\ UNCHANGED <<windows, quit, place, req, held, history>>

(* create_window copies the procedure of the class, none if unknown. *)
CreateWindowExW(t, c) ==
  /\ Free(t) /\ Len(windows) < MaxWindows
  /\ windows' = Append(windows,
       [live |-> TRUE, class |-> c, proc |-> classes[c], queue |-> << >>])
  /\ UNCHANGED <<classes, quit, place, req, held, history>>

Ids(q) == {q[i] : i \in 1..Len(q)}

(* DestroyWindow, also from DefWindowProcW(WM_CLOSE). *)
DestroyWindow(t, h) ==
  /\ Free(t) /\ windows[h].live
  /\ windows' = [windows EXCEPT ![h].live = FALSE, ![h].queue = << >>]
  /\ dropped' = dropped \cup Ids(windows[h].queue)
  /\ UNCHANGED <<classes, quit, place, req, held, posted, received, quits_posted, requeued>>

(* PostMessageW to a live window; to a dead one it returns 0. *)
PostMessageW(t, h) ==
  /\ Free(t) /\ windows[h].live /\ posted < MaxPosts
  /\ posted' = posted + 1
  /\ windows' = [windows EXCEPT ![h].queue = Append(@, posted + 1)]
  /\ UNCHANGED <<classes, quit, place, req, held, received, dropped, quits_posted, requeued>>

(* PostQuitMessage, also from DefWindowProcW(WM_DESTROY). *)
PostQuitMessage(t) ==
  /\ Free(t) /\ quits_posted < MaxQuits
  /\ quit' = TRUE
  /\ quits_posted' = quits_posted + 1
  /\ UNCHANGED <<tables, place, req, held, posted, received, dropped,
                 requeued>>

PeekMessageW(t, f, remove) ==
  /\ place[t] = "idle"
  /\ req' = [req EXCEPT ![t] = [api |-> "peek", filter |-> f, remove |-> remove]]
  /\ GoTo(t, "quit?")
  /\ UNCHANGED <<tables, quit, held, history>>

GetMessageW(t, f) ==
  /\ place[t] = "idle"
  /\ req' = [req EXCEPT ![t] = [api |-> "get", filter |-> f, remove |-> TRUE]]
  /\ GoTo(t, "quit?")
  /\ UNCHANGED <<tables, quit, held, history>>

(* quit_pending in PeekMessageW; with PM_REMOVE the flag is taken next. *)
PeekSeesQuit(t) ==
  /\ place[t] = "quit?" /\ req[t].api = "peek" /\ quit
  /\ IF req[t].remove THEN GoTo(t, "take") /\ UNCHANGED req ELSE Return(t)
  /\ UNCHANGED <<tables, quit, held, history>>

(* take_quit in PeekMessageW, whatever the flag holds by now. *)
PeekTakesQuit(t) ==
  /\ place[t] = "take"
  /\ quit' = FALSE
  /\ Return(t)
  /\ UNCHANGED <<tables, held, posted, received, dropped, quits_posted, requeued>>

(* take_quit in GetMessageW, which then returns 0. *)
GetTakesQuit(t) ==
  /\ place[t] = "quit?" /\ req[t].api = "get" /\ quit
  /\ quit' = FALSE
  /\ Return(t)
  /\ UNCHANGED <<tables, held, posted, received, dropped, quits_posted, requeued>>

NoQuit(t) ==
  /\ place[t] = "quit?" /\ ~quit
  /\ GoTo(t, "pump")
  /\ UNCHANGED <<tables, quit, req, held, history>>

(* pump_cocoa_event_into_queue: AppKit has no event, or none of interest. *)
PumpNothing(t) ==
  /\ place[t] = "pump"
  /\ GoTo(t, "pop")
  /\ UNCHANGED <<tables, quit, req, held, history>>

(* It has a key or mouse event: it goes to the filter window, if that is *)
(* given and alive, and nowhere otherwise.                               *)
PumpInput(t) ==
  LET h == req[t].filter IN
  /\ place[t] = "pump" /\ Cocoa /\ posted < MaxPosts
  /\ IF h # AnyWindow /\ windows[h].live
       THEN /\ posted' = posted + 1
            /\ windows' = [windows EXCEPT ![h].queue = Append(@, posted + 1)]
       ELSE UNCHANGED <<posted, windows>>
  /\ GoTo(t, "pop")
  /\ UNCHANGED <<classes, quit, req, held, received, dropped, quits_posted,
                 requeued>>

(* The windows pop_message may take from.  Without a filter it iterates a *)
(* HashMap, in no particular order.                                       *)
Candidates(t) ==
  {h \in Hwnds : (req[t].filter \in {AnyWindow, h}) /\ windows[h].queue # << >>}

(* Mutant: pops the newest message. *)
Pop_Newest(t) ==
  /\ place[t] = "pop"
  /\ \E h \in Candidates(t) :
       LET q == windows[h].queue IN
       /\ windows' = [windows EXCEPT ![h].queue = SubSeq(q, 1, Len(q) - 1)]
       /\ IF req[t].remove
            THEN /\ received' = received \cup {q[Len(q)]}
                 /\ Return(t) /\ UNCHANGED <<held, requeued>>
            ELSE /\ held' = [held EXCEPT ![t] = q[Len(q)]]
                 /\ req' = [req EXCEPT ![t].filter = h]
                 /\ requeued' = requeued \cup {h}
                 /\ GoTo(t, "requeue") /\ UNCHANGED received
  /\ UNCHANGED <<classes, quit, posted, dropped, quits_posted>>

(* Mutant: hands out the head and leaves it queued. *)
Pop_Keeps(t) ==
  /\ place[t] = "pop"
  /\ \E h \in Candidates(t) :
       /\ received' = received \cup {Head(windows[h].queue)}
       /\ Return(t)
  /\ UNCHANGED <<tables, quit, held, posted, dropped, quits_posted,
                 requeued>>

(* pop_message finds a message.  With removal the thunk returns it; the    *)
(* PM_NOREMOVE peek has to put it back first (req.filter remembers where). *)
Pop(t) ==
  /\ place[t] = "pop"
  /\ \E h \in Candidates(t) :
       /\ windows' = [windows EXCEPT ![h].queue = Tail(@)]
       /\ IF req[t].remove
            THEN /\ received' = received \cup {Head(windows[h].queue)}
                 /\ Return(t) /\ UNCHANGED <<held, requeued>>
            ELSE /\ held' = [held EXCEPT ![t] = Head(windows[h].queue)]
                 /\ req' = [req EXCEPT ![t].filter = h]
                 /\ requeued' = requeued \cup {h}
                 /\ GoTo(t, "requeue") /\ UNCHANGED received
  /\ UNCHANGED <<classes, quit, posted, dropped, quits_posted>>

(* Mutant: the quit flag is only looked at before the loop. *)
PopNothing_NoQuitTest(t) ==
  /\ place[t] = "pop" /\ Candidates(t) = {}
  /\ IF req[t].api = "get" THEN GoTo(t, "pump") /\ UNCHANGED req ELSE Return(t)
  /\ UNCHANGED <<tables, quit, held, history>>

(* It finds none: PeekMessageW returns 0, GetMessageW yields and loops. *)
PopNothing(t) ==
  /\ place[t] = "pop" /\ Candidates(t) = {}
  /\ IF req[t].api = "get" THEN GoTo(t, "quit?") /\ UNCHANGED req ELSE Return(t)
  /\ UNCHANGED <<tables, quit, held, history>>

(* peek_message_inline: post_message at the back, if the window still lives. *)
Requeue(t) ==
  LET h == req[t].filter IN
  /\ place[t] = "requeue"
  /\ IF windows[h].live
       THEN /\ windows' = [windows EXCEPT ![h].queue = Append(@, held[t])]
            /\ UNCHANGED dropped
       ELSE /\ dropped' = dropped \cup {held[t]}
            /\ UNCHANGED windows
  /\ held' = [held EXCEPT ![t] = 0]
  /\ Return(t)
  /\ UNCHANGED <<classes, quit, posted, received, quits_posted, requeued>>

InPump(t) ==
  \/ PeekSeesQuit(t)
  \/ PeekTakesQuit(t)
  \/ GetTakesQuit(t)
  \/ NoQuit(t)
  \/ PumpNothing(t)
  \/ PumpInput(t)
  \/ Pop(t)
  \/ PopNothing(t)
  \/ Requeue(t)

QueueNext ==
  \/ \E t \in Callers :
       \/ \E c \in Classes : CreateWindowExW(t, c)
       \/ \E c \in Classes, p \in Procs : RegisterClassExW(t, c, p)
       \/ \E h \in Hwnds : DestroyWindow(t, h) \/ PostMessageW(t, h)
       \/ PostQuitMessage(t)
  \/ \E t \in Pumpers :
       \/ \E f \in Hwnds \cup {AnyWindow} :
            GetMessageW(t, f) \/ \E r \in Removes : PeekMessageW(t, f, r)
       \/ InPump(t)

QueueSpec == QueueInit /\ [][QueueNext]_queue_vars
-----------------------------------------------------------------------------
Window == [live : BOOLEAN, class : Classes, proc : Procs \cup {NoProc},
           queue : Seq(1..MaxPosts)]

QueueTypeOK ==
  /\ classes \in [Classes -> Procs \cup {NoProc}]
  /\ windows \in Seq(Window)
  /\ quit \in BOOLEAN
  /\ place \in [Pumpers -> {"idle", "quit?", "take", "pump", "pop", "requeue"}]
  /\ req \in [Pumpers -> [api : {"none", "peek", "get"}, filter : Nat, remove : BOOLEAN]]
  /\ held \in [Pumpers -> 0..MaxPosts]
  /\ posted \in 0..MaxPosts /\ received \subseteq 1..MaxPosts
  /\ dropped \subseteq 1..MaxPosts
  /\ quits_posted \in 0..MaxQuits
  /\ requeued \subseteq 1..MaxWindows

Queued == UNION {Ids(windows[h].queue) : h \in Hwnds}
InHand == {held[t] : t \in Pumpers} \ {0}

(* Every accepted message is in exactly one place: queued, popped by a peek *)
(* that is putting it back, handed to the guest, or gone with its window.   *)
MessagesConserved ==
  /\ Queued \cup InHand \cup received \cup dropped = 1..posted
  /\ Queued \cap (InHand \cup received \cup dropped) = {}
  /\ InHand \cap (received \cup dropped) = {} /\ received \cap dropped = {}

(* Every window whose class was known when it was created has the class's  *)
(* one procedure, however often the class is registered again.             *)
WindowsAgreeWithClass ==
  \A h \in Hwnds : windows[h].proc \in {NoProc, classes[windows[h].class]}

(* The window state holds together.                                        *)
WindowStateIsSound == QueueTypeOK /\ MessagesConserved /\ WindowsAgreeWithClass

(* A window's messages are handed to the guest first in, first out, whoever *)
(* pops them: nothing is taken before an older message of the same queue.   *)
(* Only a PM_NOREMOVE peek, which pops and posts again, ends the order.      *)
InOrder ==
  \A h \in Hwnds \ requeued :
    LET old == Ids(windows[h].queue) IN
    \A m \in (received' \ received) \cap old, n \in old : m <= n

HandedOutInOrder == [][InOrder]_queue_vars

(* A GetMessageW call that waits when a quit is posted does not wait for ever: *)
(* the flag is taken, by it or by another pumper, or a message comes first.    *)
QuitEndsTheWait ==
  \A t \in Pumpers :
    (quit /\ place[t] # "idle" /\ req[t].api = "get")
      ~> (~quit \/ place[t] = "idle")
=============================================================================
