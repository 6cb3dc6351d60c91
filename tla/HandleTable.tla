----------------------------- MODULE HandleTable -----------------------------
(***************************************************************************)
(* The process-wide HANDLE table of quantum-kernel32/src/handles.rs with   *)
(* the thunks that allocate, look up and close handles: the Create* thunks *)
(* of threads.rs, CreateFile and the file operations of file_io.rs,        *)
(* CloseHandle and DuplicateHandle.  The table lock is held for the whole  *)
(* of insert, get and remove, so each is one step; a file operation drops  *)
(* it between the look-up and the system call, so it is two.               *)
(*                                                                         *)
(* Objects are numbered in creation order.  `handle_of` and `refs` are the *)
(* guest's view: the handle it was given for each object and how many      *)
(* copies of it (from Create* and DuplicateHandle) it has not closed yet.  *)
(* Other calling conventions: a handle is closed once per copy, but look-  *)
(* ups may use any value, stale handles and made-up ones included.         *)
(***************************************************************************)
EXTENDS GuestCallers, Integers, Sequences

CONSTANTS Shift,       \* 2^32, the weight of the generation in a handle
          Base,        \* 0x1000, added to the slot index; positive
          MaxObjects,  \* bound: objects created in a behaviour
          MaxSlots,    \* bound: slots of the table, Base + MaxSlots < Shift
          HostFds,     \* descriptors the host's open() can return
          Foreign      \* handle values the guest makes up (0, sentinels)

VARIABLES slots,      \* HandleTable.slots
          host,       \* descriptor -> object it was opened for, 0 if closed
          created,    \* number of objects created so far
          handle_of,  \* object -> handle the guest was given, 0 before that
          refs,       \* object -> copies of that handle the guest still has
          duplicated, \* DuplicateHandle has been called
          pc, reg     \* per thread: place in a thunk, its object and descriptor

handle_vars == <<slots, host, created, handle_of, refs, duplicated, pc, reg>>

(* Indices fit below the generation, and no descriptor is NoFd. *)
ConstantsFit ==
  /\ Shift \in Nat /\ Base \in Nat \ {0} /\ MaxObjects \in Nat /\ MaxSlots \in Nat
  /\ Base + MaxSlots <= Shift
  /\ HostFds \subseteq Nat /\ Foreign \subseteq Nat

Objects == 1..MaxObjects
NoFd == -1
FreeSlot == [gen |-> 0, id |-> 0, fd |-> NoFd]
NoReg == [id |-> 0, fd |-> NoFd]

pack(index, generation) == generation * Shift + (index + Base)

generation_of(h) == h \div Shift
index_of(h) == (h % Shift) - Base

(* unpack, then the slot and generation tests of get and remove.  Values    *)
(* below Base are no handles.  For made-up values the index may go below    *)
(* zero, where the code's wrapped index is past every slot.                 *)
Names(h, i) ==
  /\ h >= Base
  /\ index_of(h) = i - 1
  /\ slots[i] # FreeSlot
  /\ slots[i].gen = generation_of(h)

(* get: the slot a handle denotes now, FreeSlot when there is none. *)
get(h) ==
  IF \E i \in 1..Len(slots) : Names(h, i)
    THEN slots[CHOOSE i \in 1..Len(slots) : Names(h, i)]
    ELSE FreeSlot

(* The generation of a reused slot: the map_or over the slot's content. *)
NewGen(slot) == IF slot = FreeSlot THEN 1 ELSE slot.gen + 1

IsFirstFree(i) ==
  /\ slots[i] = FreeSlot
  /\ \A j \in 1..(i - 1) : slots[j] # FreeSlot

(* Mutant: the search for a free slot stops at the first slot. *)
insert_Overwrites(id, fd) ==
  LET g == IF slots = << >> THEN 1 ELSE NewGen(slots[1]) IN
  /\ slots' = IF slots = << >>
                THEN <<[gen |-> g, id |-> id, fd |-> fd]>>
                ELSE [slots EXCEPT ![1] = [gen |-> g, id |-> id, fd |-> fd]]
  /\ handle_of' = [handle_of EXCEPT ![id] = pack(0, g)]
  /\ refs' = [refs EXCEPT ![id] = 1]

(* insert: reuse the first free slot, or push a new one. *)
insert(id, fd) ==
  /\ \/ \E i \in 1..Len(slots) :
          /\ IsFirstFree(i)
          /\ slots' = [slots EXCEPT ![i] =
                         [gen |-> NewGen(slots[i]), id |-> id, fd |-> fd]]
          /\ handle_of' =
               [handle_of EXCEPT ![id] = pack(i - 1, NewGen(slots[i]))]
     \/ /\ \A i \in 1..Len(slots) : slots[i] # FreeSlot
        /\ Len(slots) < MaxSlots
        /\ slots' = Append(slots, [gen |-> 1, id |-> id, fd |-> fd])
        /\ handle_of' = [handle_of EXCEPT ![id] = pack(Len(slots), 1)]
  /\ refs' = [refs EXCEPT ![id] = 1]

(* Mutant: the descriptor is closed and the File stays in its slot. *)
remove_KeepsSlot(h) ==
  LET i == CHOOSE j \in 1..Len(slots) : Names(h, j) IN
  /\ UNCHANGED slots
  /\ host' = IF (\E j \in 1..Len(slots) : Names(h, j)) /\ slots[i].fd # NoFd
               THEN [host EXCEPT ![slots[i].fd] = 0] ELSE host

(* remove: close the descriptor of a File, then free the slot. *)
remove(h) ==
  LET i == CHOOSE j \in 1..Len(slots) : Names(h, j) IN
  IF \E j \in 1..Len(slots) : Names(h, j)
    THEN /\ slots' = [slots EXCEPT ![i] = FreeSlot]
         /\ host' = IF slots[i].fd = NoFd THEN host
                      ELSE [host EXCEPT ![slots[i].fd] = 0]
    ELSE UNCHANGED <<slots, host>>

(* The host's open(): the lowest descriptor that is not in use. *)
LowestFd(fd) ==
  /\ host[fd] = 0
  /\ \A other \in HostFds : other < fd => host[other] # 0

HandlesInit ==
  /\ slots = << >>
  /\ host = [fd \in HostFds |-> 0]
  /\ created = 0
  /\ handle_of = [o \in Objects |-> 0]
  /\ refs = [o \in Objects |-> 0]
  /\ duplicated = FALSE
  /\ pc = [t \in Threads |-> "idle"]
  /\ reg = [t \in Threads |-> NoReg]

(* CreateEvent, CreateMutex, CreateSemaphore, CreateThread: one insert. *)
CreateObject(t) ==
  /\ pc[t] = "idle" /\ created < MaxObjects
  /\ created' = created + 1
  /\ insert(created + 1, NoFd)
  /\ UNCHANGED <<host, duplicated, pc, reg>>

(* CreateFileA/W, first half: open_file has a descriptor. *)
OpenFile(t) ==
  /\ pc[t] = "idle" /\ created < MaxObjects
  /\ created' = created + 1
  /\ \E fd \in HostFds :
       /\ LowestFd(fd)
       /\ host' = [host EXCEPT ![fd] = created + 1]
       /\ reg' = [reg EXCEPT ![t] = [id |-> created + 1, fd |-> fd]]
  /\ pc' = [pc EXCEPT ![t] = "opened"]
  /\ UNCHANGED <<slots, handle_of, refs, duplicated>>

(* CreateFileA/W, second half: handles::insert(File(fd)). *)
CreateFile(t) ==
  /\ pc[t] = "opened"
  /\ insert(reg[t].id, reg[t].fd)
  /\ pc' = [pc EXCEPT ![t] = "idle"]
  /\ reg' = [reg EXCEPT ![t] = NoReg]
  /\ UNCHANGED <<host, created, duplicated>>

(* The values the guest passes as handles. *)
Guesses == {handle_of[o] : o \in Objects} \cup Foreign

(* ReadFile, WriteFile, GetFileSize(Ex), SetFilePointer(Ex): the look-up. *)
(* WriteFile sends the values 0, 1 and 2 to the standard streams instead. *)
FileOp(t, h, op) ==
  /\ pc[t] = "idle"
  /\ op = "write" => (h % Shift) \notin 0..2
  /\ get(h).fd # NoFd
  /\ reg' = [reg EXCEPT ![t] = [id |-> get(h).id, fd |-> get(h).fd]]
  /\ pc' = [pc EXCEPT ![t] = "io"]
  /\ UNCHANGED <<slots, host, created, handle_of, refs, duplicated>>

(* The look-up fails, or finds an object that is no File: the thunk returns *)
(* its error value.                                                         *)
FileOpFails(t, h, op) ==
  /\ pc[t] = "idle"
  /\ op = "write" => (h % Shift) \notin 0..2
  /\ get(h).fd = NoFd
  /\ UNCHANGED handle_vars

(* ... and the system call on the descriptor, after the table is unlocked. *)
HostCall(t) ==
  /\ pc[t] = "io"
  /\ pc' = [pc EXCEPT ![t] = "idle"]
  /\ reg' = [reg EXCEPT ![t] = NoReg]
  /\ UNCHANGED <<slots, host, created, handle_of, refs, duplicated>>

(* CloseHandle, also while another thread's file thunk uses the object. *)
CloseHandle(t, o) ==
  /\ pc[t] = "idle" /\ refs[o] > 0
  /\ remove(handle_of[o])
  /\ refs' = [refs EXCEPT ![o] = @ - 1]
  /\ UNCHANGED <<created, handle_of, duplicated, pc, reg>>

(* DuplicateHandle hands the same value back; the table is not touched. *)
DuplicateHandle(t, o) ==
  /\ pc[t] = "idle" /\ refs[o] = 1
  /\ refs' = [refs EXCEPT ![o] = 2]
  /\ duplicated' = TRUE
  /\ UNCHANGED <<slots, host, created, handle_of, pc, reg>>

HandlesNext ==
  \E t \in Threads :
    \/ CreateObject(t)
    \/ OpenFile(t)
    \/ CreateFile(t)
    \/ \E h \in Guesses, op \in {"read", "write"} :
         FileOp(t, h, op) \/ FileOpFails(t, h, op)
    \/ HostCall(t)
    \/ \E o \in Objects : CloseHandle(t, o) \/ DuplicateHandle(t, o)

HandlesSpec == HandlesInit /\ [][HandlesNext]_handle_vars
-----------------------------------------------------------------------------
Slot == [gen : Nat, id : 0..MaxObjects, fd : HostFds \cup {NoFd}]

HandlesTypeOK ==
  /\ slots \in Seq(Slot)
  /\ host \in [HostFds -> 0..MaxObjects]
  /\ created \in 0..MaxObjects
  /\ handle_of \in [Objects -> Nat]
  /\ refs \in [Objects -> 0..2] /\ duplicated \in BOOLEAN
  /\ pc \in [Threads -> {"idle", "opened", "io"}]
  /\ reg \in [Threads -> [id : 0..MaxObjects, fd : HostFds \cup {NoFd}]]

(* A handle the guest has not closed denotes the object it was created for, *)
(* whatever was created, recycled and closed around it.  One DuplicateHandle *)
(* call ends this for every handle: the copies share a slot, the first close *)
(* frees it, and the second then hits the object that has recycled it.       *)
OpenHandleFindsItsObject ==
  /\ HandlesTypeOK
  /\ ~duplicated => \A o \in Objects : refs[o] > 0 => get(handle_of[o]).id = o

(* An open descriptor belongs to one object: to one File in the table, or   *)
(* to the CreateFile call that has just opened it.  None leaks and none is  *)
(* shared, so that closing a handle never closes the file of another one.   *)
DescriptorHasOneOwner ==
  \A fd \in HostFds :
    host[fd] # 0 =>
      \/ /\ \E t \in Threads : pc[t] = "opened" /\ reg[t].fd = fd
         /\ \A i \in 1..Len(slots) : slots[i].fd # fd
      \/ \E i \in 1..Len(slots) :
           /\ slots[i].fd = fd /\ slots[i].id = host[fd]
           /\ \A j \in 1..Len(slots) : slots[j].fd = fd => j = i

(* The system call of a file thunk reaches the file its handle denoted at  *)
(* the look-up, unless that object has been closed in between: descriptors *)
(* that other threads open and close never redirect it.                    *)
FileOpReachesItsFile ==
  \A t \in Threads :
    pc[t] = "io" =>
      \/ host[reg[t].fd] = reg[t].id
      \/ \A i \in 1..Len(slots) : slots[i].id # reg[t].id

DescriptorsStayWithTheirFile == DescriptorHasOneOwner /\ FileOpReachesItsFile

(* "Handles are reusable after close (with a generation counter mixed in so *)
(* stale handles don't accidentally hit a recycled slot)".                  *)
StaleHandleMisses ==
  \A o \in Objects :
    handle_of[o] # 0 /\ refs[o] = 0 /\ ~duplicated
      => get(handle_of[o]) = FreeSlot
=============================================================================
