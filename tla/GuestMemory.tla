---------------------------- MODULE GuestMemory ----------------------------
(***************************************************************************)
(* The memory the guest asks for: the process heap (kernel32/src/heap.rs), *)
(* a bump allocator in one arena behind a mutex, and VirtualAlloc's table  *)
(* of mappings (kernel32/src/vm.rs), called by several guest threads.      *)
(*                                                                         *)
(* A call that holds its lock throughout is one step.  VirtualAlloc maps   *)
(* and then protects before it takes the table's lock: three steps.        *)
(* VirtualFree unmaps under it, HeapReAlloc copies after it has dropped    *)
(* the heap's: two each.                                                   *)
(***************************************************************************)
EXTENDS GuestCallers, GuestVm, Sequences, FiniteSets

CONSTANTS
    ArenaBytes,    \* DEFAULT_HEAP_BYTES, heap.rs:25
    UsizeMod,      \* the modulus of usize arithmetic
    HeapSizes,     \* the sizes the guest passes to the heap
    VmSizes,       \* the sizes it passes to VirtualAlloc
    PageFlags,     \* the PAGE_ constants it passes to the vm thunks
    Tags,          \* what the guest writes into its blocks
    MaxBlocks,     \* bound: heap blocks the guest holds at once
    MaxRegions     \* bound: VirtualAlloc regions, granted or being granted

ASSUME MemoryAssumption ==
    /\ ArenaBytes \in Nat /\ UsizeMod \in Nat /\ UsizeMod > ArenaBytes + 16
    /\ HeapSizes \subseteq 0 .. UsizeMod - 1
    /\ VmSizes \subseteq 0 .. UsizeMod - 1
    /\ Tags \subseteq Nat
    /\ MaxBlocks \in Nat /\ MaxRegions \in Nat

VARIABLES
    vm,        \* the page map
    arena,     \* base of the heap's region; Null until the OnceLock runs
    next,      \* Heap.next
    cells,     \* the arena's bytes
    blocks,    \* ghost: the blocks the guest holds, and what it knows of them
    table,     \* VmTable.regions
    op         \* what each thread is in the middle of

vars == <<vm, arena, next, cells, blocks, table, op>>

Op(do, ptr, len, old, prot) ==
    [do |-> do, ptr |-> ptr, len |-> len, old |-> old, prot |-> prot]

Idle == Op("idle", Null, 0, Null, "RW")

(* A block the guest holds: `known` leading bytes are all `tag`.            *)
Block(ptr, size, known, tag) == [ptr |-> ptr, size |-> size, known |-> known, tag |-> tag]

Init ==
    /\ vm = [p \in Page |-> Free]
    /\ arena = Null
    /\ next = 0
    /\ cells = [i \in 0 .. ArenaBytes - 1 |-> 0]
    /\ blocks = {}
    /\ table = <<>>
    /\ op = [t \in Threads |-> Idle]
-----------------------------------------------------------------------------
(* heap.rs:41-47, 77-80: the arena is mapped on the first use; if it cannot *)
(* be, `expect` ends the process, so that is not a step.                    *)
default_heap(t) ==
    /\ arena = Null
    /\ \E r \in allocate(vm, Null, ArenaBytes) :
          r.ok /\ arena' = r.base /\ vm' = r.vm
    /\ UNCHANGED <<next, cells, blocks, table, op>>

(* heap.rs:52: `(size + 15) & !15`, wrapping as a release build does.       *)
Aligned_Down(size) == size - (size % 16)

Aligned(size) == ((size + 15) % UsizeMod) - (((size + 15) % UsizeMod) % 16)

(* Requests so large that the rounding above wraps to 0: the guest gets a   *)
(* pointer with nothing behind it.  Every property below is about the rest. *)
Wraps(size) == size + 15 >= UsizeMod

(* heap.rs:53-59: the request fits in what is left of the arena.            *)
HasRoom(size) == next + Aligned(size) <= ArenaBytes

(* heap.rs:61-67.                                                           *)
Carve(size, zero) ==
    /\ next' = next + Aligned(size)
    /\ cells' = [i \in DOMAIN cells |->
                   IF zero /\ i >= next /\ i < next + Aligned(size) THEN 0 ELSE cells[i]]

(* heap.rs:90-96 with alloc, 49-68; a wrong handle gives null and a full    *)
(* arena gives null, both changing nothing.                                 *)
HeapAlloc(t, size, zero) ==
    /\ op[t] = Idle /\ arena # Null
    /\ Cardinality(blocks) < MaxBlocks
    /\ HasRoom(size)
    /\ Carve(size, zero)
    /\ blocks' = blocks \cup {Block(next, size, IF zero /\ ~Wraps(size) THEN size ELSE 0, 0)}
    /\ UNCHANGED <<vm, arena, table, op>>

(* The guest fills a block it holds; nothing of Quantum's runs.             *)
GuestFill(t, b, tag) ==
    /\ op[t] = Idle
    /\ \A u \in Threads : op[u].do = "copy" => op[u].old # b.ptr
    /\ ~Wraps(b.size)
    /\ cells' = [i \in DOMAIN cells |-> IF i >= b.ptr /\ i < b.ptr + b.size THEN tag ELSE cells[i]]
    /\ blocks' = (blocks \ {b}) \cup {Block(b.ptr, b.size, b.size, tag)}
    /\ UNCHANGED <<vm, arena, next, table, op>>

(* heap.rs:100-105, 70-74: nothing is reclaimed.                            *)
HeapFree(t, b) ==
    /\ op[t] = Idle
    /\ \A u \in Threads : op[u].do = "copy" => op[u].old # b.ptr
    /\ blocks' = blocks \ {b}
    /\ UNCHANGED <<vm, arena, next, cells, table, op>>

(* heap.rs:130-135: the new block is carved under the lock ...  A size that *)
(* wraps makes the copy run off the mapped memory and ends the process.     *)
HeapReAlloc(t, b, size, zero) ==
    /\ op[t] = Idle /\ arena # Null
    /\ ~Wraps(size)
    /\ \A u \in Threads : op[u].do = "copy" => op[u].old # b.ptr
    /\ HasRoom(size)
    /\ Carve(size, zero)
    /\ op' = [op EXCEPT ![t] = Op("copy", next, size, b.ptr, "RW")]
    /\ UNCHANGED <<vm, arena, blocks, table>>

(* What copy_nonoverlapping may leave when source and target overlap: bytes *)
(* read before they are overwritten, or after.                              *)
Copied(from, to, size, late) ==
    [i \in DOMAIN cells |->
        IF i >= to /\ i < to + size
        THEN LET d == to - from IN
             IF late /\ d > 0 THEN cells[from + ((i - to) % d)] ELSE cells[i - to + from]
        ELSE cells[i]]

(* heap.rs:136-144: ... and `size` bytes, not the old block's size, are     *)
(* copied after it is dropped.  The guest then holds the new block.         *)
ReAllocCopy_Back(t, late) ==
    /\ op[t].do = "copy"
    /\ \E b \in blocks :
          /\ b.ptr = op[t].old
          /\ cells' = Copied(op[t].ptr, op[t].old, op[t].len, late)
          /\ blocks' = (blocks \ {b})
                \cup {Block(op[t].ptr, op[t].len,
                            IF b.known < op[t].len THEN b.known ELSE op[t].len, b.tag)}
    /\ op' = [op EXCEPT ![t] = Idle]
    /\ UNCHANGED <<vm, arena, next, table>>

ReAllocCopy(t, late) ==
    /\ op[t].do = "copy"
    /\ \E b \in blocks :
          /\ b.ptr = op[t].old
          /\ cells' = Copied(op[t].old, op[t].ptr, op[t].len, late)
          /\ blocks' = (blocks \ {b})
                \cup {Block(op[t].ptr, op[t].len,
                            IF b.known < op[t].len THEN b.known ELSE op[t].len, b.tag)}
    /\ op' = [op EXCEPT ![t] = Idle]
    /\ UNCHANGED <<vm, arena, next, table>>
-----------------------------------------------------------------------------
Locked == \E t \in Threads : op[t].do = "unmap"

(* vm.rs:32-43: the Protection each PAGE_ constant stands for.              *)
translate_protect(page) ==
    CASE page = "NOACCESS" -> "NONE"
      [] page = "READONLY" -> "R"
      [] page \in {"EXECUTE", "EXECUTE_READ"} -> "RX"
      [] page = "EXECUTE_READWRITE" -> "RWX"
      [] OTHER -> "RW"

Regions == Len(table) + Cardinality({t \in Threads : op[t].do \in {"protect", "push"}})

(* mem.rs:138-139: a region that is to be RW needs no second call.          *)
Granted(base, size, p) == Op(IF p = "RW" THEN "push" ELSE "protect", base, size, Null, p)

(* vm.rs:61-88: the mapping is made without the table's lock; a refusal     *)
(* returns null.  RESERVE and COMMIT are not told apart.                    *)
VirtualAlloc(t, address, size, page) ==
    /\ op[t] = Idle
    /\ Regions < MaxRegions
    /\ size # 0
    /\ \E r \in allocate(vm, address, size) :
          /\ vm' = r.vm
          /\ op' = IF r.ok THEN [op EXCEPT ![t] = Granted(r.base, size, translate_protect(page))]
                   ELSE op
    /\ UNCHANGED <<arena, next, cells, blocks, table>>

(* mem.rs:138-148 and vm.rs:84-87: the mapping gets its protection, or goes *)
(* back and the call returns null.                                          *)
VirtualAllocProtect(t) ==
    /\ op[t].do = "protect"
    /\ \E r \in allocate_protect(vm, op[t].ptr, op[t].len, op[t].prot) :
          /\ vm' = r.vm
          /\ op' = [op EXCEPT ![t] = IF r.ok THEN Granted(op[t].ptr, op[t].len, "RW") ELSE Idle]
    /\ UNCHANGED <<arena, next, cells, blocks, table>>

(* vm.rs:90-93.                                                             *)
VirtualAllocPush(t) ==
    /\ op[t].do = "push"
    /\ ~Locked
    /\ table' = Append(table, <<op[t].ptr, op[t].len>>)
    /\ op' = [op EXCEPT ![t] = Idle]
    /\ UNCHANGED <<vm, arena, next, cells, blocks>>

(* Vec::swap_remove: the last element takes the removed one's place.        *)
SwapRemove(s, i) ==
    [k \in 1 .. Len(s) - 1 |-> IF k = i THEN s[Len(s)] ELSE s[k]]

(* vm.rs:98-110: the first entry with this base leaves the table under the  *)
(* lock.  MEM_DECOMMIT and an unknown base change nothing.                  *)
VirtualFree(t, i) ==
    /\ op[t] = Idle
    /\ ~Locked
    /\ \A k \in 1 .. i - 1 : table[k][1] # table[i][1]
    /\ op' = [op EXCEPT ![t] = Op("unmap", table[i][1], table[i][2], Null, "RW")]
    /\ table' = SwapRemove(table, i)
    /\ UNCHANGED <<vm, arena, next, cells, blocks>>

(* vm.rs:111-118: the munmap, still under the lock.                         *)
VirtualFreeUnmap(t) ==
    /\ op[t].do = "unmap"
    /\ vm' = munmap(vm, op[t].ptr, op[t].len)
    /\ op' = [op EXCEPT ![t] = Idle]
    /\ UNCHANGED <<arena, next, cells, blocks, table>>

(* vm.rs:123-146.  The previous protection it reports is always READWRITE.  *)
VirtualProtect(t, address, size, page) ==
    /\ op[t] = Idle
    /\ address # Null /\ size # 0
    /\ \E r \in protect(vm, address, size, translate_protect(page)) :
          r.ok /\ vm' = r.vm
    /\ UNCHANGED <<arena, next, cells, blocks, table, op>>
-----------------------------------------------------------------------------
Addresses == {Null} \cup {p * PageSize : p \in Page}

HeapStep(t) ==
    \/ default_heap(t)
    \/ \E size \in HeapSizes, zero \in BOOLEAN : HeapAlloc(t, size, zero)
    \/ \E b \in blocks :
          \/ HeapFree(t, b)
          \/ \E tag \in Tags : GuestFill(t, b, tag)
          \/ \E size \in HeapSizes, zero \in BOOLEAN : HeapReAlloc(t, b, size, zero)
    \/ \E late \in BOOLEAN : ReAllocCopy(t, late)

VmStep(t) ==
    \/ \E a \in Addresses, size \in VmSizes, page \in PageFlags : VirtualAlloc(t, a, size, page)
    \/ VirtualAllocProtect(t)
    \/ VirtualAllocPush(t)
    \/ \E i \in DOMAIN table : VirtualFree(t, i)
    \/ VirtualFreeUnmap(t)
    \/ \E a \in Addresses, size \in VmSizes, page \in PageFlags : VirtualProtect(t, a, size, page)

Next == \E t \in Threads : HeapStep(t) \/ VmStep(t)

Spec == Init /\ [][Next]_vars
-----------------------------------------------------------------------------
(* The page map, the arena and every granted block keep their shape.        *)
TypeOK ==
    /\ vm \in [Page -> {Free} \cup {host_vm_prot(p) : p \in Protection}]
    /\ arena \in Addresses
    /\ next \in 0 .. ArenaBytes
    /\ cells \in [0 .. ArenaBytes - 1 -> Tags \cup {0}]
    /\ \A b \in blocks : b.ptr \in 0 .. next /\ b.known \in 0 .. b.size
    /\ \A i \in DOMAIN table : table[i][1] \in Addresses /\ table[i][2] \in VmSizes
    /\ \A t \in Threads : op[t].do \in {"idle", "copy", "protect", "push", "unmap"}

HeapHolds(p) == arena # Null /\ p \in PagesOf(arena, ArenaBytes)

TableHolds(i, p) == p \in PagesOf(table[i][1], table[i][2])

CallHolds(t, p) == op[t].do \in {"protect", "push", "unmap"} /\ p \in PagesOf(op[t].ptr, op[t].len)

(* Every mapped page has exactly one holder, the arena, one entry of        *)
(* VirtualAlloc's table or the call that is adding or releasing it, and     *)
(* nothing is held that is not mapped: no page is leaked by a refused       *)
(* protection, released twice, or granted again while another thread still  *)
(* has it, although the mapping and the table change at different times.    *)
EveryPageHeldOnce ==
    \A p \in Page :
        /\ \A i, j \in DOMAIN table : TableHolds(i, p) /\ TableHolds(j, p) => i = j
        /\ \A t, u \in Threads : CallHolds(t, p) /\ CallHolds(u, p) => t = u
        /\ \A i \in DOMAIN table, t \in Threads : ~(TableHolds(i, p) /\ CallHolds(t, p))
        /\ HeapHolds(p) => /\ \A i \in DOMAIN table : ~TableHolds(i, p)
                           /\ \A t \in Threads : ~CallHolds(t, p)
        /\ vm[p] # Free <=> \/ HeapHolds(p)
                            \/ \E i \in DOMAIN table : TableHolds(i, p)
                            \/ \E t \in Threads : CallHolds(t, p)

(* The m bytes at p and the n bytes at q have none in common.               *)
Apart(p, m, q, n) == p + m <= q \/ q + n <= p \/ m = 0 \/ n = 0

(* heap.rs:49-68: no two blocks the guest holds share a byte, none reaches  *)
(* past the bump pointer, and a reallocation's new block is nobody else's   *)
(* while its copy is under way.                                             *)
HeapBlocksDisjoint ==
    /\ \A a, b \in blocks :
          ~Wraps(a.size) /\ ~Wraps(b.size) /\ a # b => Apart(a.ptr, a.size, b.ptr, b.size)
    /\ \A b \in blocks : ~Wraps(b.size) => b.ptr + b.size <= next
    /\ \A t \in Threads : op[t].do = "copy" =>
          \A b \in blocks : ~Wraps(b.size) => Apart(op[t].ptr, op[t].len, b.ptr, b.size)

(* heap.rs:130-145: what the guest put in a block is still there, whatever  *)
(* other threads allocate, free or reallocate, and HeapReAlloc's new block  *)
(* begins with the old one's bytes although the code copies as many bytes   *)
(* as the new block has and the two ranges may overlap.                     *)
BlocksKeepTheirBytes ==
    /\ TypeOK
    /\ \A b \in blocks : \A i \in 0 .. b.known - 1 : cells[b.ptr + i] = b.tag

=============================================================================
