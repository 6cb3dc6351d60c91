------------------------------ MODULE GuestVm ------------------------------
(***************************************************************************)
(* Guest virtual memory (quantum-runtime/src/mem.rs): the page map of the   *)
(* process and the operations MachVmManager performs on it.  The heap, the  *)
(* VirtualAlloc thunks and the image loader all go through them.            *)
(*                                                                         *)
(* The kernel is external: mach_vm_allocate rounds to pages, places a FIXED *)
(* request exactly there or refuses, and an ANYWHERE request wherever it    *)
(* likes; mach_vm_protect refuses a range with a hole and may refuse a page *)
(* that is both writable and executable.                                   *)
(***************************************************************************)
EXTENDS Integers

CONSTANTS PageCount, PageSize

(* Addresses are byte numbers; page 0 is never mapped, so 0 is null.        *)
ASSUME PagesAssumption == PageCount \in Nat \ {0} /\ PageSize \in Nat \ {0}

Page == 1 .. PageCount

Null == 0

(* An unmapped page has no entry in the map; "free" stands for that.        *)
Free == {"free"}

PagesOf(base, len) == {p \in Page : p * PageSize < base + len /\ (p + 1) * PageSize > base}

InSpace(base, len) == base >= PageSize /\ base + len <= (PageCount + 1) * PageSize

(* mem.rs:18-22: Protection's five constants and, below, host_vm_prot.      *)
Protection == {"NONE", "R", "RW", "RX", "RWX"}

host_vm_prot(p) ==
    (IF p \in {"R", "RW", "RX", "RWX"} THEN {"read"} ELSE {})
        \cup (IF p \in {"RW", "RWX"} THEN {"write"} ELSE {})
        \cup (IF p \in {"RX", "RWX"} THEN {"execute"} ELSE {})

SetPages(vm, base, len, bits) ==
    [p \in Page |-> IF p \in PagesOf(base, len) THEN bits ELSE vm[p]]

(* Where the kernel may put a mapping: the page-truncated hint or anywhere. *)
Room(vm, hint, size) ==
    {b \in {p * PageSize : p \in Page} :
        /\ hint # Null => b = hint - (hint % PageSize)
        /\ InSpace(b, size)
        /\ \A p \in PagesOf(b, size) : vm[p] = Free}

Failed(vm) == [ok |-> FALSE, base |-> Null, vm |-> vm]

(* The answers mach_vm_protect may give.                                    *)
Protects(p) == IF p = "RWX" THEN BOOLEAN ELSE {TRUE}

(* mem.rs:122-137, 150-153: mach_vm_allocate gives a region that is RW.     *)
allocate(vm, hint, size) ==
    IF Room(vm, hint, size) = {} THEN {Failed(vm)}
    ELSE {[ok |-> TRUE, base |-> b, vm |-> SetPages(vm, b, size, host_vm_prot("RW"))] :
             b \in Room(vm, hint, size)}

(* mem.rs:181-192.  Refused as a whole when any page of the range is free.  *)
protect(vm, addr, size, p) ==
    IF InSpace(addr, size) /\ \A q \in PagesOf(addr, size) : vm[q] # Free
    THEN {IF fine THEN [ok |-> TRUE, base |-> addr, vm |-> SetPages(vm, addr, size, host_vm_prot(p))]
          ELSE Failed(vm) : fine \in Protects(p)}
    ELSE {Failed(vm)}

(* munmap, as Region's Drop (mem.rs:70-76) and VirtualFree call it.         *)
munmap(vm, base, len) == SetPages(vm, base, len, Free)

(* mem.rs:138-148: a caller that wants another protection has it set in a   *)
(* second call of the kernel; refused, the fresh mapping is given back.     *)
allocate_protect_Leaks(vm, base, size, p) == protect(vm, base, size, p)

allocate_protect(vm, base, size, p) ==
    {IF r.ok THEN r ELSE Failed(munmap(vm, base, size)) : r \in protect(vm, base, size, p)}
=============================================================================
