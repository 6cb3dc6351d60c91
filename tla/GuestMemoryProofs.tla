------------------------- MODULE GuestMemoryProofs -------------------------
(***************************************************************************)
(* For every number of threads, page size, arena and request size: the     *)
(* heap never hands out a byte twice and keeps what is in its blocks, and  *)
(* every mapped page has one holder.                                       *)
(***************************************************************************)
EXTENDS GuestMemory, TLAPS

(* What the bump allocator maintains: every block and every block a         *)
(* HeapReAlloc is about to fill ends at or before the bump pointer, and     *)
(* blocks being filled by two threads are apart.                            *)
OpType == [do : {"idle", "copy", "protect", "push", "unmap"}, ptr : Nat, len : Nat, old : Nat,
           prot : Protection]

BlockType == [ptr : Nat, size : Nat, known : Nat, tag : Nat]

HeapInv ==
    /\ next \in Nat
    /\ blocks \subseteq BlockType
    /\ op \in [Threads -> OpType]
    /\ \A t \in Threads : op[t].do = "copy" =>
          ~Wraps(op[t].len) /\ op[t].ptr + op[t].len <= next
    /\ \A t, u \in Threads : t # u /\ op[t].do = "copy" /\ op[u].do = "copy" =>
          Apart(op[t].ptr, op[t].len, op[u].ptr, op[u].len)
    /\ HeapBlocksDisjoint

(* mem.rs:12-34, and the state of a thread that is in no call.              *)
LEMMA RWIsProtection == "RW" \in Protection
  BY Zenon DEF Protection

LEMMA IdleIs == Idle \in OpType /\ Idle.do = "idle"
  <1>1. Null \in Nat /\ 0 \in Nat
    BY DEF Null
  <1> QED
    BY <1>1, RWIsProtection, Zenon DEF Idle, Op, OpType

(* heap.rs:52: rounding up never makes a request smaller, unless it wraps.  *)
LEMMA AlignedCovers ==
    ASSUME NEW size \in Nat, ~Wraps(size)
    PROVE  Aligned(size) \in Nat /\ Aligned(size) >= size
  <1>1. size + 15 \in Nat /\ size + 15 < UsizeMod /\ UsizeMod \in Nat
    BY MemoryAssumption DEF Wraps
  <1>2. (size + 15) % UsizeMod = size + 15
    BY <1>1
  <1>3. Aligned(size) = (size + 15) - ((size + 15) % 16)
    BY <1>2, Zenon DEF Aligned
  <1>4. QED BY <1>3

(* A request that wraps still moves the bump pointer forward or not at all. *)
LEMMA AlignedNat ==
    ASSUME NEW size \in Nat
    PROVE  Aligned(size) \in Nat
  <1>1. UsizeMod \in Nat /\ UsizeMod > 0
    BY MemoryAssumption
  <1>2. (size + 15) % UsizeMod \in Nat
    BY <1>1
  <1>3. QED BY <1>2 DEF Aligned

(* Carving at the bump pointer keeps everything handed out before it apart. *)
LEMMA HeapStepKeeps ==
    ASSUME HeapInv, NEW t \in Threads, HeapStep(t)
    PROVE  HeapInv'
  <1>. USE MemoryAssumption DEF HeapInv, HeapBlocksDisjoint, Apart
  <1>1. CASE default_heap(t)
    BY <1>1, SMT, Z3 DEF default_heap, Wraps
  <1>2. ASSUME NEW size \in HeapSizes, NEW zero \in BOOLEAN, HeapAlloc(t, size, zero)
        PROVE  HeapInv'
    <2>. DEFINE new == Block(next, size, IF zero /\ ~Wraps(size) THEN size ELSE 0, 0)
    <2>1. size \in Nat /\ Aligned(size) \in Nat
      BY AlignedNat
    <2>2. next' = next + Aligned(size) /\ blocks' = blocks \cup {new} /\ op' = op
      BY <1>2, Zenon DEF HeapAlloc, Carve
    <2>3. new \in BlockType /\ new.ptr = next /\ new.size = size
      BY <2>1, Zenon DEF BlockType, Block
    <2>4. ~Wraps(size) => next + size <= next'
      BY <2>1, <2>2, AlignedCovers, SMT, Z3
    <2>5. next' \in Nat /\ next' >= next /\ blocks' \subseteq BlockType
      BY <2>1, <2>2, <2>3, SMT, Z3
    <2>6. \A b \in blocks' : ~Wraps(b.size) => b.ptr + b.size <= next'
      BY <2>2, <2>3, <2>4, <2>5, SMT, Z3 DEF BlockType
    <2>7. \A a, b \in blocks' : ~Wraps(a.size) /\ ~Wraps(b.size) /\ a # b =>
             Apart(a.ptr, a.size, b.ptr, b.size)
      BY <2>1, <2>2, <2>3, SMT, Z3 DEF BlockType
    <2>8. \A u \in Threads : op[u].do = "copy" =>
             /\ op[u].ptr + op[u].len <= next'
             /\ \A b \in blocks' : ~Wraps(b.size) => Apart(op[u].ptr, op[u].len, b.ptr, b.size)
      BY <2>1, <2>2, <2>3, <2>5, SMT, Z3 DEF BlockType, OpType
    <2>9. QED
      BY <2>2, <2>5, <2>6, <2>7, <2>8, SMT, Z3 DEF Wraps
  <1>3. ASSUME NEW b \in blocks, HeapFree(t, b)
        PROVE  HeapInv'
    BY <1>3, SMT, Z3 DEF HeapFree, Wraps
  <1>4. ASSUME NEW b \in blocks, NEW tag \in Tags, GuestFill(t, b, tag)
        PROVE  HeapInv'
    <2>. DEFINE new == Block(b.ptr, b.size, b.size, tag)
    <2>1. new \in BlockType /\ new.ptr = b.ptr /\ new.size = b.size
      BY Zenon DEF BlockType, Block
    <2>2. blocks' = (blocks \ {b}) \cup {new} /\ next' = next /\ op' = op
      BY <1>4, Zenon DEF GuestFill
    <2>3. \A a, c \in blocks' : ~Wraps(a.size) /\ ~Wraps(c.size) /\ a # c =>
             Apart(a.ptr, a.size, c.ptr, c.size)
      BY <2>1, <2>2 DEF BlockType
    <2>4. \A c \in blocks' : ~Wraps(c.size) => c.ptr + c.size <= next'
      BY <2>1, <2>2, Zenon
    <2>5. \A u \in Threads : op[u].do = "copy" =>
             \A c \in blocks' : ~Wraps(c.size) => Apart(op[u].ptr, op[u].len, c.ptr, c.size)
      BY <2>1, <2>2
    <2>6. QED
      BY <2>1, <2>2, <2>3, <2>4, <2>5 DEF Wraps
  <1>5. ASSUME NEW b \in blocks, NEW size \in HeapSizes, NEW zero \in BOOLEAN,
               HeapReAlloc(t, b, size, zero)
        PROVE  HeapInv'
    <2>. DEFINE new == Op("copy", next, size, b.ptr, "RW")
    <2>1. size \in Nat /\ Aligned(size) \in Nat /\ ~Wraps(size)
      BY <1>5, AlignedNat DEF HeapReAlloc
    <2>2. next' = next + Aligned(size) /\ blocks' = blocks /\ op' = [op EXCEPT ![t] = new]
      BY <1>5, Zenon DEF HeapReAlloc, Carve
    <2>3. next' \in Nat /\ next + size <= next' /\ next' >= next
      BY <2>1, <2>2, AlignedCovers, SMT, Z3
    <2>4. /\ op' \in [Threads -> OpType] /\ op'[t] = new
          /\ new.ptr = next /\ new.len = size
      <3>1. b.ptr \in Nat
        BY Zenon DEF BlockType
      <3>2. new \in OpType /\ new.ptr = next /\ new.len = size
        BY <2>1, <3>1, RWIsProtection, Zenon DEF Op, OpType
      <3> QED
        BY <2>2, <3>2, Zenon
    <2>. HIDE DEF new
    <2>5. \A u \in Threads : u # t => op'[u] = op[u]
      BY <2>2, Zenon
    <2>6. \A u \in Threads : op'[u].do = "copy" =>
             ~Wraps(op'[u].len) /\ op'[u].ptr + op'[u].len <= next'
      BY <2>1, <2>3, <2>4, <2>5, SMT, Z3 DEF OpType
    <2>7. \A u, v \in Threads : u # v /\ op'[u].do = "copy" /\ op'[v].do = "copy" =>
             Apart(op'[u].ptr, op'[u].len, op'[v].ptr, op'[v].len)
      BY <2>1, <2>4, <2>5, SMT, Z3 DEF OpType
    <2>8. \A u \in Threads : op'[u].do = "copy" =>
             \A c \in blocks : ~Wraps(c.size) => Apart(op'[u].ptr, op'[u].len, c.ptr, c.size)
      BY <2>1, <2>4, <2>5, SMT, Z3 DEF BlockType
    <2>9. \A c \in blocks : ~Wraps(c.size) => c.ptr + c.size <= next'
      BY <2>3, SMT, Z3 DEF BlockType
    <2>10. QED
      BY <2>2, <2>3, <2>4, <2>6, <2>7, <2>8, <2>9, Zenon DEF Wraps
  <1>6. ASSUME NEW late \in BOOLEAN, ReAllocCopy(t, late)
        PROVE  HeapInv'
    <2>1. PICK b \in blocks :
             blocks' = (blocks \ {b})
                \cup {Block(op[t].ptr, op[t].len,
                            IF b.known < op[t].len THEN b.known ELSE op[t].len, b.tag)}
      BY <1>6, Zenon DEF ReAllocCopy
    <2>. DEFINE new == Block(op[t].ptr, op[t].len,
                             IF b.known < op[t].len THEN b.known ELSE op[t].len, b.tag)
    <2>2. op[t].do = "copy" /\ next' = next /\ op' = [op EXCEPT ![t] = Idle]
      BY <1>6, Zenon DEF ReAllocCopy
    <2>3. new \in BlockType /\ new.ptr = op[t].ptr /\ new.size = op[t].len
      BY Zenon DEF BlockType, Block, OpType
    <2>4. op' \in [Threads -> OpType] /\ op'[t].do # "copy"
      BY <2>2, IdleIs, Zenon
    <2>5. \A u \in Threads : u # t => op'[u] = op[u]
      BY <2>2, Zenon
    <2>6. \A a, c \in blocks' : ~Wraps(a.size) /\ ~Wraps(c.size) /\ a # c =>
             Apart(a.ptr, a.size, c.ptr, c.size)
      BY <2>1, <2>2, <2>3 DEF BlockType
    <2>7. \A c \in blocks' : ~Wraps(c.size) => c.ptr + c.size <= next
      BY <2>1, <2>2, <2>3, Zenon
    <2>8. \A u \in Threads : op'[u].do = "copy" =>
             \A c \in blocks' : ~Wraps(c.size) => Apart(op'[u].ptr, op'[u].len, c.ptr, c.size)
      BY <2>1, <2>2, <2>3, <2>4, <2>5, SMT, Z3
    <2>9. blocks' \subseteq BlockType
      BY <2>1, <2>3, Zenon
    <2>10. QED
      BY <2>2, <2>4, <2>5, <2>6, <2>7, <2>8, <2>9, SMT, Z3 DEF Wraps
  <1>7. QED
    BY <1>1, <1>2, <1>3, <1>4, <1>5, <1>6, Zenon DEF HeapStep

(* A step of the vm thunks leaves the heap's part alone.                    *)
LEMMA HeapFrame ==
    ASSUME HeapInv, next' = next, blocks' = blocks, op' \in [Threads -> OpType],
           \A u \in Threads : op'[u].do = "copy" => op'[u] = op[u]
    PROVE  HeapInv'
  <1>1. \A u \in Threads : op'[u].do = "copy" => op[u].do = "copy"
    BY Zenon
  <1>2. QED
    BY <1>1 DEF HeapInv, HeapBlocksDisjoint, Apart, Wraps
-----------------------------------------------------------------------------
(* mem.rs:204-217: no protection looks like an unmapped page.               *)
LEMMA ProtectionIsMapped ==
    ASSUME NEW p
    PROVE  host_vm_prot(p) # Free
  <1>1. "free" \notin host_vm_prot(p)
    BY Zenon DEF host_vm_prot
  <1>2. QED BY <1>1, Zenon DEF Free

(* mem.rs:122-137: a granted region was free and is mapped; a refusal       *)
(* leaves the map as it was.                                                *)
LEMMA AllocateOutcome ==
    ASSUME NEW v, NEW hint, NEW size, NEW r \in allocate(v, hint, size)
    PROVE  \/ ~r.ok /\ r.vm = v
           \/ /\ r.ok /\ r.base \in Nat /\ r.base # Null
              /\ \A p \in PagesOf(r.base, size) : v[p] = Free
              /\ r.vm = SetPages(v, r.base, size, host_vm_prot("RW"))
  <1>1. CASE Room(v, hint, size) = {}
    BY <1>1 DEF allocate, Failed
  <1>2. CASE Room(v, hint, size) # {}
    <2>1. PICK b \in Room(v, hint, size) :
             r = [ok |-> TRUE, base |-> b, vm |-> SetPages(v, b, size, host_vm_prot("RW"))]
      BY <1>2 DEF allocate
    <2>2. PICK p \in Page : b = p * PageSize
      BY <2>1, Zenon DEF Room
    <2>3. b \in Nat /\ b # Null
      BY <2>2, PagesAssumption DEF Page, Null
    <2>4. \A q \in PagesOf(b, size) : v[q] = Free
      BY <2>1, Zenon DEF Room
    <2> QED
      BY <2>1, <2>3, <2>4, Zenon
  <1>3. QED BY <1>1, <1>2, Zenon

(* mem.rs:181-192: protecting a range maps and unmaps nothing.              *)
LEMMA ProtectOutcome ==
    ASSUME NEW v, NEW addr, NEW size, NEW prot, NEW r \in protect(v, addr, size, prot), r.ok
    PROVE  /\ \A q \in PagesOf(addr, size) : v[q] # Free
           /\ r.vm = SetPages(v, addr, size, host_vm_prot(prot))
  <1>1. CASE InSpace(addr, size) /\ \A q \in PagesOf(addr, size) : v[q] # Free
    <2>1. PICK fine \in Protects(prot) :
             r = IF fine THEN [ok |-> TRUE, base |-> addr,
                               vm |-> SetPages(v, addr, size, host_vm_prot(prot))]
                 ELSE Failed(v)
      BY <1>1, Zenon DEF protect
    <2>2. fine
      BY <2>1, Zenon DEF Failed
    <2>3. QED BY <1>1, <2>1, <2>2, Zenon
  <1>2. CASE ~(InSpace(addr, size) /\ \A q \in PagesOf(addr, size) : v[q] # Free)
    BY <1>2, SMTT(30), Z3T(30) DEF protect, Failed
  <1>3. QED BY <1>1, <1>2, Zenon

(* mem.rs:138-148: the fresh mapping gets its protection or goes back.      *)
LEMMA AllocateProtectOutcome ==
    ASSUME NEW v, NEW base, NEW size, NEW prot, NEW r \in allocate_protect(v, base, size, prot)
    PROVE  \/ /\ r.ok /\ \A q \in PagesOf(base, size) : v[q] # Free
              /\ r.vm = SetPages(v, base, size, host_vm_prot(prot))
           \/ ~r.ok /\ r.vm = SetPages(v, base, size, Free)
  <1>1. PICK q \in protect(v, base, size, prot) :
           r = IF q.ok THEN q ELSE Failed(munmap(v, base, size))
    BY Zenon DEF allocate_protect
  <1>2. CASE q.ok
    BY <1>1, <1>2, ProtectOutcome, Zenon
  <1>3. CASE ~q.ok
    BY <1>1, <1>3, Zenon DEF Failed, munmap
  <1> QED
    BY <1>2, <1>3, Zenon

(* The two invariants together; the table holds pairs of numbers.           *)
PageInv ==
    /\ table \in Seq(Nat \X Nat)
    /\ EveryPageHeldOnce

MemoryInv == HeapInv /\ PageInv

(* heap.rs: a heap call maps no page but the arena's own, once.             *)
LEMMA HeapStepKeepsPages ==
    ASSUME MemoryInv, NEW t \in Threads, HeapStep(t)
    PROVE  PageInv'
  <1>. USE DEF MemoryInv, HeapInv, PageInv
  <1>1. CASE default_heap(t)
    <2>1. PICK r \in allocate(vm, Null, ArenaBytes) : r.ok /\ arena' = r.base /\ vm' = r.vm
      BY <1>1, Zenon DEF default_heap
    <2>2. /\ arena' # Null
          /\ \A p \in PagesOf(arena', ArenaBytes) : vm[p] = Free
          /\ vm' = SetPages(vm, arena', ArenaBytes, host_vm_prot("RW"))
      BY <2>1, AllocateOutcome
    <2>3. arena = Null /\ table' = table /\ op' = op
      BY <1>1, Zenon DEF default_heap
    <2>4. \A p \in Page : IF p \in PagesOf(arena', ArenaBytes) THEN vm'[p] # Free
                                                             ELSE vm'[p] = vm[p]
      BY <2>2, ProtectionIsMapped, Zenon DEF SetPages
    <2>5. \A p \in Page : ~HeapHolds(p) /\ (HeapHolds(p)' <=> p \in PagesOf(arena', ArenaBytes))
      BY <2>2, <2>3, SMTT(30), Z3T(30) DEF HeapHolds, PagesOf, Page
    <2>6. \A p \in Page, i \in DOMAIN table : TableHolds(i, p)' <=> TableHolds(i, p)
      BY <2>3, Zenon DEF TableHolds, PagesOf, Page
    <2>7. \A p \in Page, u \in Threads : CallHolds(u, p)' <=> CallHolds(u, p)
      BY <2>3, SMTT(30), Z3T(30) DEF CallHolds, PagesOf, Page
    <2>8. EveryPageHeldOnce'
      BY <2>2, <2>3, <2>4, <2>5, <2>6, <2>7, SMTT(30), Z3T(30) DEF EveryPageHeldOnce
    <2>9. QED BY <2>3, <2>8, Zenon
  <1>2. CASE /\ UNCHANGED <<vm, arena, table>>
             /\ \A u \in Threads, p \in Page : CallHolds(u, p)' <=> CallHolds(u, p)
    BY <1>2, SMT, Z3 DEF EveryPageHeldOnce, HeapHolds, TableHolds
  <1>3. CASE UNCHANGED <<vm, arena, table, op>>
    BY <1>3, SMT, Z3 DEF EveryPageHeldOnce, HeapHolds, TableHolds, CallHolds
  <1>4. ASSUME NEW b \in blocks, NEW size \in HeapSizes, NEW zero \in BOOLEAN,
               HeapReAlloc(t, b, size, zero)
        PROVE  \A u \in Threads, p \in Page : CallHolds(u, p)' <=> CallHolds(u, p)
    <2>1. op[t].do = "idle" /\ Op("copy", next, size, b.ptr, "RW").do = "copy"
      BY <1>4, IdleIs, Zenon DEF HeapReAlloc, Op
    <2> QED
      BY <1>4, <2>1, SMT, Z3 DEF HeapReAlloc, CallHolds
  <1>5. ASSUME NEW late \in BOOLEAN, ReAllocCopy(t, late)
        PROVE  \A u \in Threads, p \in Page : CallHolds(u, p)' <=> CallHolds(u, p)
    BY <1>5, IdleIs, SMTT(30), Z3T(30) DEF ReAllocCopy, CallHolds
  <1>6. QED
    BY <1>1, <1>2, <1>3, <1>4, <1>5, SMT, Z3
       DEF HeapStep, HeapAlloc, HeapFree, GuestFill, HeapReAlloc, ReAllocCopy

(* What EveryPageHeldOnce says of one page. *)
HeldOnce(p) ==
    /\ \A j, k \in DOMAIN table : TableHolds(j, p) /\ TableHolds(k, p) => j = k
    /\ \A u, w \in Threads : CallHolds(u, p) /\ CallHolds(w, p) => u = w
    /\ \A j \in DOMAIN table, u \in Threads : ~(TableHolds(j, p) /\ CallHolds(u, p))
    /\ HeapHolds(p) => /\ \A j \in DOMAIN table : ~TableHolds(j, p)
                       /\ \A u \in Threads : ~CallHolds(u, p)
    /\ vm[p] # Free <=> \/ HeapHolds(p)
                        \/ \E j \in DOMAIN table : TableHolds(j, p)
                        \/ \E u \in Threads : CallHolds(u, p)

LEMMA PageByPage == EveryPageHeldOnce <=> \A p \in Page : HeldOnce(p)
  BY Zenon DEF EveryPageHeldOnce, HeldOnce

LEMMA Typed ==
    ASSUME MemoryInv
    PROVE  /\ HeapInv /\ table \in Seq(Nat \X Nat) /\ op \in [Threads -> OpType]
           /\ \A p \in Page : HeldOnce(p)
  BY PageByPage, Zenon DEF MemoryInv, HeapInv, PageInv

LEMMA IdleHolds == ASSUME NEW u, NEW p, op[u] = Idle PROVE ~CallHolds(u, p)
  BY IdleIs, Zenon DEF CallHolds

(* vm.rs:32-43 names a protection for every PAGE_ constant.                 *)
LEMMA ProtectionsFit == \A page : translate_protect(page) \in Protection
BY Zenon DEF translate_protect, Protection

LEMMA GrantedIs ==
    ASSUME NEW base \in Nat, NEW size \in Nat, NEW prot \in Protection
    PROVE  /\ Granted(base, size, prot) \in OpType
           /\ Granted(base, size, prot).do \in {"protect", "push"}
           /\ prot = "RW" => Granted(base, size, prot).do = "push"
           /\ Granted(base, size, prot).ptr = base /\ Granted(base, size, prot).len = size
  <1>1. Null \in Nat
    BY DEF Null
  <1>2. CASE prot = "RW"
    BY <1>1, <1>2, Zenon DEF Granted, Op, OpType
  <1>3. CASE prot # "RW"
    BY <1>1, <1>3, Zenon DEF Granted, Op, OpType
  <1> QED
    BY <1>2, <1>3, Zenon

(* vm.rs: VirtualAlloc maps free pages, and its call holds them.            *)
LEMMA VirtualAllocKeeps ==
    ASSUME MemoryInv, NEW t \in Threads, NEW a \in Addresses, NEW size \in VmSizes,
           NEW page \in PageFlags, VirtualAlloc(t, a, size, page)
    PROVE  MemoryInv'
  <1>1. PICK r \in allocate(vm, a, size) :
           /\ vm' = r.vm
           /\ op' = IF r.ok THEN [op EXCEPT ![t] = Granted(r.base, size, translate_protect(page))]
                    ELSE op
    BY ZenonT(30) DEF VirtualAlloc
  <1>2. UNCHANGED <<arena, next, cells, blocks, table>> /\ op[t] = Idle
    BY Zenon DEF VirtualAlloc
  <1>3. size \in Nat
    BY MemoryAssumption
  <1>4. CASE ~r.ok
    <2>1. vm' = vm /\ op' = op
      BY <1>1, <1>4, AllocateOutcome, Zenon
    <2>2. HeapInv'
      BY <1>2, <2>1, HeapFrame, Typed, Zenon
    <2>3. \A p \in Page : HeldOnce(p)'
      BY <1>2, <2>1, Typed, ZenonT(40) DEF HeldOnce, HeapHolds, TableHolds, CallHolds
    <2> QED
      BY <1>2, <2>2, <2>3, Typed, Zenon DEF MemoryInv, PageInv, EveryPageHeldOnce, HeldOnce
  <1>5. CASE r.ok
    <2> DEFINE new == PagesOf(r.base, size)
    <2>1. /\ r.base \in Nat /\ \A p \in new : vm[p] = Free
          /\ vm' = SetPages(vm, r.base, size, host_vm_prot("RW"))
      BY <1>1, <1>5, AllocateOutcome
    <2>2. op' = [op EXCEPT ![t] = Granted(r.base, size, translate_protect(page))]
      BY <1>1, <1>5, Zenon
    <2>3. op' \in [Threads -> OpType] /\ op'[t].do \in {"protect", "push"} /\ op'[t].ptr = r.base
            /\ op'[t].len = size /\ \A u \in Threads : u # t => op'[u] = op[u]
      <3>1. PICK new_op \in OpType :
               /\ new_op = Granted(r.base, size, translate_protect(page))
               /\ new_op.do \in {"protect", "push"} /\ new_op.ptr = r.base /\ new_op.len = size
        BY <1>3, <2>1, GrantedIs, ProtectionsFit
      <3> QED
        BY <2>2, <3>1, Typed, ZenonT(30)
    <2>4. HeapInv'
      BY <1>2, <2>3, HeapFrame, Typed, Zenon
    <2>5. ASSUME NEW p \in Page PROVE HeldOnce(p)'
      <3>0. HeldOnce(p)
        BY Typed, Zenon
      <3>1. IF p \in new THEN vm'[p] # Free ELSE vm'[p] = vm[p]
        BY <2>1, ProtectionIsMapped, Zenon DEF SetPages
      <3>2. /\ HeapHolds(p)' <=> HeapHolds(p)
            /\ \A j \in DOMAIN table : TableHolds(j, p)' <=> TableHolds(j, p)
        BY <1>2, Zenon DEF HeapHolds, TableHolds
      <3>3. ~CallHolds(t, p) /\ (CallHolds(t, p)' <=> p \in new)
        <4>1. CallHolds(t, p)' <=> p \in new
          BY <2>3, Zenon DEF CallHolds
        <4> QED
          BY <1>2, <4>1, IdleHolds, Zenon
      <3>4. \A u \in Threads : u # t => (CallHolds(u, p)' <=> CallHolds(u, p))
        BY <2>3, Zenon DEF CallHolds
      <3>5. p \in new => vm[p] = Free
        BY <2>1, Zenon
      <3> HIDE DEF new
      <3>6. CASE p \in new
        <4>1. /\ ~HeapHolds(p) /\ \A u \in Threads : ~CallHolds(u, p)
              /\ \A j \in DOMAIN table : ~TableHolds(j, p)
          BY <3>0, <3>5, <3>6, Zenon DEF HeldOnce
        <4>2. /\ ~HeapHolds(p)' /\ \A u \in Threads : CallHolds(u, p)' <=> u = t
              /\ \A j \in DOMAIN table' : ~TableHolds(j, p)'
          BY <1>2, <3>2, <3>3, <3>4, <3>6, <4>1, Zenon
        <4> QED
          BY <3>1, <3>6, <4>2, Zenon DEF HeldOnce
      <3>7. CASE p \notin new
        <4>1. \A u \in Threads : CallHolds(u, p)' <=> CallHolds(u, p)
          BY <3>3, <3>4, <3>7, Zenon
        <4> QED
          BY <1>2, <3>0, <3>1, <3>2, <3>7, <4>1, Zenon DEF HeldOnce
      <3> QED
        BY <3>6, <3>7, Zenon
    <2> QED
      BY <1>2, <2>4, <2>5, Typed, Zenon DEF MemoryInv, PageInv, EveryPageHeldOnce, HeldOnce
  <1> QED
    BY <1>4, <1>5, Zenon

(* A call that unmaps all it holds, and ends, leaves every page with one    *)
(* holder or none.                                                          *)
LEMMA GivenBackKeeps ==
    ASSUME MemoryInv, NEW t \in Threads, op[t].do \in {"protect", "unmap"},
           UNCHANGED <<arena, next, cells, blocks, table>>,
           vm' = SetPages(vm, op[t].ptr, op[t].len, Free),
           op' = [op EXCEPT ![t] = Idle]
    PROVE  MemoryInv'
  <1>1. UNCHANGED <<arena, next, cells, blocks, table>>
    OBVIOUS
  <1>2. op' \in [Threads -> OpType] /\ op'[t].do = "idle"
          /\ \A u \in Threads : u # t => op'[u] = op[u]
    BY Typed, IdleIs, Zenon
  <1>3. HeapInv'
    BY <1>1, <1>2, HeapFrame, Typed, Zenon
  <1>4. ASSUME NEW p \in Page PROVE HeldOnce(p)'
    <2>0. HeldOnce(p)
      BY Typed, Zenon
    <2>1. vm'[p] = IF CallHolds(t, p) THEN Free ELSE vm[p]
      BY Zenon DEF SetPages, CallHolds
    <2>2. \A u \in Threads : CallHolds(u, p)' <=> u # t /\ CallHolds(u, p)
      BY <1>2, Zenon DEF CallHolds
    <2>3. /\ HeapHolds(p)' <=> HeapHolds(p)
          /\ \A j \in DOMAIN table : TableHolds(j, p)' <=> TableHolds(j, p)
      BY <1>1, Zenon DEF HeapHolds, TableHolds
    <2>4. CASE CallHolds(t, p)
      <3>1. /\ ~HeapHolds(p) /\ \A j \in DOMAIN table : ~TableHolds(j, p)
            /\ \A u \in Threads : CallHolds(u, p) => u = t
        BY <2>0, <2>4, Zenon DEF HeldOnce
      <3>2. /\ vm'[p] = Free /\ ~HeapHolds(p)' /\ \A u \in Threads : ~CallHolds(u, p)'
            /\ \A j \in DOMAIN table' : ~TableHolds(j, p)'
        BY <1>1, <2>1, <2>2, <2>3, <2>4, <3>1, Zenon
      <3> QED
        BY <3>2, Zenon DEF HeldOnce
    <2>5. CASE ~CallHolds(t, p)
      <3>1. vm'[p] = vm[p] /\ \A u \in Threads : CallHolds(u, p)' <=> CallHolds(u, p)
        BY <2>1, <2>2, <2>5, Zenon
      <3> QED
        BY <1>1, <2>0, <2>3, <3>1, Zenon DEF HeldOnce
    <2> QED
      BY <2>4, <2>5, Zenon
  <1> QED
    BY <1>1, <1>3, <1>4, Typed, Zenon DEF MemoryInv, PageInv, EveryPageHeldOnce, HeldOnce

(* The call still holds what it mapped, or has given it back.               *)
LEMMA VirtualAllocProtectKeeps ==
    ASSUME MemoryInv, NEW t \in Threads, VirtualAllocProtect(t)
    PROVE  MemoryInv'
  <1>1. PICK r \in allocate_protect(vm, op[t].ptr, op[t].len, op[t].prot) :
           /\ vm' = r.vm
           /\ op' = [op EXCEPT ![t] = IF r.ok THEN Granted(op[t].ptr, op[t].len, "RW") ELSE Idle]
    BY Zenon DEF VirtualAllocProtect
  <1>2. UNCHANGED <<arena, next, cells, blocks, table>> /\ op[t].do = "protect"
    BY Zenon DEF VirtualAllocProtect
  <1>3. op[t].ptr \in Nat /\ op[t].len \in Nat
    BY Typed, Zenon DEF OpType
  <1>4. CASE r.ok
    <2>1. /\ \A q \in PagesOf(op[t].ptr, op[t].len) : vm[q] # Free
          /\ vm' = SetPages(vm, op[t].ptr, op[t].len, host_vm_prot(op[t].prot))
      BY <1>1, <1>4, AllocateProtectOutcome, Zenon
    <2>2. /\ op' \in [Threads -> OpType] /\ op'[t].do = "push" /\ op'[t].ptr = op[t].ptr
          /\ op'[t].len = op[t].len /\ \A u \in Threads : u # t => op'[u] = op[u]
      <3>1. PICK new \in OpType :
               /\ new = Granted(op[t].ptr, op[t].len, "RW")
               /\ new.do = "push" /\ new.ptr = op[t].ptr /\ new.len = op[t].len
        BY <1>3, GrantedIs, RWIsProtection
      <3> QED
        BY <1>1, <1>4, <3>1, Typed, ZenonT(30)
    <2>3. HeapInv'
      BY <1>2, <2>2, HeapFrame, Typed, Zenon
    <2>4. ASSUME NEW p \in Page PROVE HeldOnce(p)'
      <3>1. vm'[p] # Free <=> vm[p] # Free
        BY <2>1, ProtectionIsMapped, Zenon DEF SetPages
      <3>2. /\ HeapHolds(p)' <=> HeapHolds(p)
            /\ \A j \in DOMAIN table : TableHolds(j, p)' <=> TableHolds(j, p)
        BY <1>2, Zenon DEF HeapHolds, TableHolds
      <3>3. \A u \in Threads : CallHolds(u, p)' <=> CallHolds(u, p)
        BY <1>2, <2>2, Zenon DEF CallHolds
      <3>4. HeldOnce(p)
        BY Typed, Zenon
      <3> QED
        BY <1>2, <3>1, <3>2, <3>3, <3>4, Zenon DEF HeldOnce
    <2> QED
      BY <1>2, <2>3, <2>4, Typed, Zenon DEF MemoryInv, PageInv, EveryPageHeldOnce, HeldOnce
  <1>5. CASE ~r.ok
    <2>1. vm' = SetPages(vm, op[t].ptr, op[t].len, Free)
      BY <1>1, <1>5, AllocateProtectOutcome, Zenon
    <2>2. op' = [op EXCEPT ![t] = Idle]
      BY <1>1, <1>5, Zenon
    <2> QED
      BY <1>2, <2>1, <2>2, GivenBackKeeps, Zenon
  <1> QED
    BY <1>4, <1>5, Zenon

(* The pushed entry holds what the call held.                               *)
LEMMA VirtualAllocPushKeeps ==
    ASSUME MemoryInv, NEW t \in Threads, VirtualAllocPush(t)
    PROVE  MemoryInv'
  <1>1. /\ op[t].do = "push" /\ UNCHANGED <<vm, arena, next, cells, blocks>>
        /\ table' = Append(table, <<op[t].ptr, op[t].len>>)
        /\ op' = [op EXCEPT ![t] = Idle]
    BY Zenon DEF VirtualAllocPush
  <1>2. op' \in [Threads -> OpType] /\ op'[t].do = "idle"
          /\ \A u \in Threads : u # t => op'[u] = op[u]
    BY <1>1, Typed, IdleIs, Zenon
  <1>3. HeapInv'
    BY <1>1, <1>2, HeapFrame, Typed, Zenon
  <1>e. PICK E : E = Nat \X Nat
    BY Zenon
  <1>4. PICK e \in E : e = <<op[t].ptr, op[t].len>>
    BY <1>e, Typed, Zenon DEF OpType
  <1>5. PICK s \in Seq(E) : s = table
    BY <1>e, Typed, Zenon
  <1>6. /\ Append(s, e) \in Seq(E) /\ Append(s, e)[Len(s) + 1] = e
        /\ DOMAIN Append(s, e) = DOMAIN s \cup {Len(s) + 1} /\ Len(s) + 1 \notin DOMAIN s
        /\ \A j \in DOMAIN s : Append(s, e)[j] = s[j]
    OBVIOUS
  <1>7. PICK n : n = Len(s) + 1
    OBVIOUS
  <1>8. table' = Append(s, e)
    BY <1>1, <1>4, <1>5, Zenon
  <1>9. /\ table' \in Seq(Nat \X Nat) /\ table'[n] = <<op[t].ptr, op[t].len>>
        /\ DOMAIN table' = DOMAIN table \cup {n} /\ n \notin DOMAIN table
        /\ \A j \in DOMAIN table : table'[j] = table[j]
    BY <1>e, <1>4, <1>5, <1>6, <1>7, <1>8, Zenon
  <1>10. ASSUME NEW p \in Page PROVE HeldOnce(p)'
    <2>0. HeldOnce(p)
      BY Typed, Zenon
    <2>1. TableHolds(n, p)' <=> CallHolds(t, p)
      <3>1. table'[n][1] = op[t].ptr /\ table'[n][2] = op[t].len
        BY <1>9
      <3> QED
        BY <1>1, <3>1, Zenon DEF TableHolds, CallHolds
    <2>2. \A j \in DOMAIN table : TableHolds(j, p)' <=> TableHolds(j, p)
      BY <1>9, Zenon DEF TableHolds
    <2>3. \A u \in Threads : CallHolds(u, p)' <=> u # t /\ CallHolds(u, p)
      BY <1>2, Zenon DEF CallHolds
    <2>4. (HeapHolds(p)' <=> HeapHolds(p)) /\ vm'[p] = vm[p]
      BY <1>1, Zenon DEF HeapHolds
    <2>5. CASE CallHolds(t, p)
      <3>1. /\ vm[p] # Free /\ ~HeapHolds(p) /\ \A j \in DOMAIN table : ~TableHolds(j, p)
            /\ \A u \in Threads : CallHolds(u, p) => u = t
        BY <2>0, <2>5, Zenon DEF HeldOnce
      <3>2. /\ vm'[p] # Free /\ ~HeapHolds(p)' /\ \A u \in Threads : ~CallHolds(u, p)'
            /\ n \in DOMAIN table' /\ \A j \in DOMAIN table' : TableHolds(j, p)' <=> j = n
        BY <1>9, <2>1, <2>2, <2>3, <2>4, <2>5, <3>1, Zenon
      <3> QED
        BY <3>2, Zenon DEF HeldOnce
    <2>6. CASE ~CallHolds(t, p)
      <3>1. /\ \A u \in Threads : CallHolds(u, p)' <=> CallHolds(u, p)
            /\ \A j \in DOMAIN table' : TableHolds(j, p)' <=> j \in DOMAIN table /\ TableHolds(j, p)
            /\ \A j \in DOMAIN table : j \in DOMAIN table'
        BY <1>9, <2>1, <2>2, <2>3, <2>6, Zenon
      <3> QED
        BY <2>0, <2>4, <3>1, Zenon DEF HeldOnce
    <2> QED
      BY <2>5, <2>6, Zenon
  <1> QED
    BY <1>3, <1>9, <1>10, Zenon DEF MemoryInv, PageInv, EveryPageHeldOnce, HeldOnce

(* VirtualFree takes an entry out of the table: its call holds the pages.   *)
LEMMA VirtualFreeKeeps ==
    ASSUME MemoryInv, NEW t \in Threads, NEW i \in DOMAIN table, VirtualFree(t, i)
    PROVE  MemoryInv'
  <1>1. /\ op[t] = Idle /\ UNCHANGED <<vm, arena, next, cells, blocks>>
        /\ table' = SwapRemove(table, i)
        /\ op' = [op EXCEPT ![t] = Op("unmap", table[i][1], table[i][2], Null, "RW")]
    BY Zenon DEF VirtualFree
  <1>2. /\ \A k \in DOMAIN table : table[k] \in Nat \X Nat
        /\ Len(table) \in Nat /\ Len(table) \in DOMAIN table /\ DOMAIN table = 1 .. Len(table)
    BY Typed, SMT, Z3
  <1>3. op' \in [Threads -> OpType] /\ op'[t].do = "unmap" /\ op'[t].ptr = table[i][1]
          /\ op'[t].len = table[i][2] /\ \A u \in Threads : u # t => op'[u] = op[u]
    <2>1. table[i][1] \in Nat /\ table[i][2] \in Nat /\ Null \in Nat
      BY <1>2 DEF Null
    <2> QED
      BY <1>1, <2>1, Typed, RWIsProtection, Zenon DEF Op, OpType
  <1>4. HeapInv'
    BY <1>1, <1>3, HeapFrame, Typed, ZenonT(30)
  <1>5. PICK n \in Nat : n = Len(table) /\ n \in 1 .. n /\ DOMAIN table = 1 .. n
    BY <1>2, Zenon
  <1>6. n - 1 \in Nat /\ \A k \in 1 .. n - 1 : k \in 1 .. n /\ k # n
    <2>1. n \in 1 .. n
      BY <1>5, Zenon
    <2> QED
      BY <2>1
  <1>7. \A k \in 1 .. n : k # n => k \in 1 .. n - 1
    OBVIOUS
  <1>8. table' = [k \in 1 .. n - 1 |-> IF k = i THEN table[n] ELSE table[k]]
    BY <1>1, <1>5, Zenon DEF SwapRemove
  <1>9. \A k \in 1 .. n - 1 : table'[k] \in Nat \X Nat
    BY <1>2, <1>5, <1>6, <1>8, Zenon
  <1>10. table' \in [1 .. n - 1 -> Nat \X Nat]
    BY <1>8, <1>9, Zenon
  <1>11. table' \in Seq(Nat \X Nat) /\ DOMAIN table' = 1 .. n - 1
    BY <1>6, <1>10
  <1>12. ASSUME NEW p \in Page PROVE HeldOnce(p)'
    <2>0. HeldOnce(p)
      BY Typed, Zenon
    <2>1. \A k \in DOMAIN table' :
             TableHolds(k, p)' <=> IF k = i THEN TableHolds(n, p) ELSE TableHolds(k, p)
      BY <1>8, <1>11, Zenon DEF TableHolds
    <2>2. ~CallHolds(t, p) /\ (CallHolds(t, p)' <=> TableHolds(i, p))
      <3>1. CallHolds(t, p)' <=> TableHolds(i, p)
        BY <1>3, Zenon DEF CallHolds, TableHolds
      <3> QED
        BY <1>1, <3>1, IdleHolds, Zenon
    <2>3. \A u \in Threads : u # t => (CallHolds(u, p)' <=> CallHolds(u, p))
      BY <1>3, Zenon DEF CallHolds
    <2>4. (HeapHolds(p)' <=> HeapHolds(p)) /\ vm'[p] = vm[p]
      BY <1>1, Zenon DEF HeapHolds
    <2>5. /\ n \in DOMAIN table /\ \A k \in DOMAIN table' : k \in DOMAIN table /\ k # n
          /\ \A k \in DOMAIN table : k = i \/ (k = n /\ i \in DOMAIN table') \/ k \in DOMAIN table'
      BY <1>2, <1>5, <1>6, <1>7, <1>11, Zenon
    <2>6. CASE TableHolds(i, p)
      <3>1. /\ vm[p] # Free /\ ~HeapHolds(p) /\ \A u \in Threads : ~CallHolds(u, p)
            /\ \A j \in DOMAIN table : TableHolds(j, p) => j = i
        BY <2>0, <2>6, Zenon DEF HeldOnce
      <3>2. /\ vm'[p] # Free /\ ~HeapHolds(p)' /\ \A j \in DOMAIN table' : ~TableHolds(j, p)'
            /\ \A u \in Threads : CallHolds(u, p)' <=> u = t
        BY <2>1, <2>2, <2>3, <2>4, <2>5, <2>6, <3>1, Zenon
      <3> QED
        BY <3>2, Zenon DEF HeldOnce
    <2>7. CASE ~TableHolds(i, p)
      <3>1. \A u \in Threads : CallHolds(u, p)' <=> CallHolds(u, p)
        BY <2>2, <2>3, <2>7, Zenon
      <3>2. \A j, k \in DOMAIN table' : TableHolds(j, p)' /\ TableHolds(k, p)' => j = k
        BY <2>0, <2>1, <2>5, Zenon DEF HeldOnce
      <3>3. (\E j \in DOMAIN table' : TableHolds(j, p)') <=> (\E j \in DOMAIN table : TableHolds(j, p))
        BY <2>1, <2>5, <2>7, Zenon
      <3> QED
        BY <2>0, <2>4, <3>1, <3>2, <3>3, Zenon DEF HeldOnce
    <2> QED
      BY <2>6, <2>7, Zenon
  <1> QED
    BY <1>4, <1>11, <1>12, Zenon DEF MemoryInv, PageInv, EveryPageHeldOnce, HeldOnce

(* ... and unmaps what the call held.                                       *)
LEMMA VirtualFreeUnmapKeeps ==
    ASSUME MemoryInv, NEW t \in Threads, VirtualFreeUnmap(t)
    PROVE  MemoryInv'
  BY GivenBackKeeps, Zenon DEF VirtualFreeUnmap, munmap

(* VirtualProtect changes the protection of mapped pages.                   *)
LEMMA VirtualProtectKeeps ==
    ASSUME MemoryInv, NEW t \in Threads, NEW a \in Addresses, NEW size \in VmSizes,
           NEW page \in PageFlags, VirtualProtect(t, a, size, page)
    PROVE  MemoryInv'
  <1>1. PICK r \in protect(vm, a, size, translate_protect(page)) : r.ok /\ vm' = r.vm
    BY Zenon DEF VirtualProtect
  <1>2. UNCHANGED <<arena, next, cells, blocks, table, op>>
    BY Zenon DEF VirtualProtect
  <1>3. HeapInv'
    BY <1>2, HeapFrame, Typed, Zenon
  <1>4. /\ \A q \in PagesOf(a, size) : vm[q] # Free
        /\ vm' = SetPages(vm, a, size, host_vm_prot(translate_protect(page)))
    BY <1>1, ProtectOutcome, Zenon
  <1>5. \A p \in Page : vm'[p] # Free <=> vm[p] # Free
    BY <1>4, ProtectionIsMapped, Zenon DEF SetPages
  <1>6. ASSUME NEW p \in Page PROVE HeldOnce(p)'
    <2>1. /\ HeapHolds(p)' <=> HeapHolds(p)
          /\ \A j \in DOMAIN table : TableHolds(j, p)' <=> TableHolds(j, p)
          /\ \A u \in Threads : CallHolds(u, p)' <=> CallHolds(u, p)
      BY <1>2, Zenon DEF HeapHolds, TableHolds, CallHolds
    <2>2. HeldOnce(p)
      BY Typed, Zenon
    <2> QED
      BY <1>2, <1>5, <2>1, <2>2, Zenon DEF HeldOnce
  <1> QED
    BY <1>2, <1>3, <1>6, Typed, Zenon DEF MemoryInv, PageInv, EveryPageHeldOnce, HeldOnce

(* vm.rs: one case per thunk, at each of its steps.                         *)
LEMMA VmStepKeeps ==
    ASSUME MemoryInv, NEW t \in Threads, VmStep(t)
    PROVE  MemoryInv'
  BY VirtualAllocKeeps, VirtualAllocProtectKeeps, VirtualAllocPushKeeps, VirtualFreeKeeps, VirtualFreeUnmapKeeps,
     VirtualProtectKeeps, Zenon DEF VmStep
-----------------------------------------------------------------------------
(* No arena, no table entry and no call at the start: no page is held.      *)
LEMMA MemoryInitially == Init => MemoryInv
  <1>1. Init => HeapInv
    BY IdleIs DEF Init, HeapInv, HeapBlocksDisjoint
  <1>2. Init => PageInv
    <2>. SUFFICES ASSUME Init PROVE PageInv
      BY Zenon
    <2>1. table = <<>> /\ table \in Seq(Nat \X Nat)
      BY DEF Init
    <2>2. \A p \in Page : ~HeapHolds(p) /\ vm[p] = Free
      BY Zenon DEF Init, HeapHolds
    <2>3. \A p \in Page, t \in Threads : ~CallHolds(t, p)
      BY IdleIs, Zenon DEF Init, CallHolds
    <2>4. DOMAIN table = {}
      BY <2>1
    <2>5. QED BY <2>1, <2>2, <2>3, <2>4, Zenon DEF PageInv, EveryPageHeldOnce
  <1>3. QED BY <1>1, <1>2, Zenon DEF MemoryInv

(* A stuttering step changes none of it.                                    *)
LEMMA MemoryStutters ==
    ASSUME MemoryInv, UNCHANGED vars
    PROVE  MemoryInv'
  <1>1. HeapInv'
    BY HeapFrame, SMTT(30), Z3T(30) DEF MemoryInv, HeapInv, vars
  <1>2. PageInv'
    BY DEF MemoryInv, PageInv, EveryPageHeldOnce, HeapHolds, TableHolds, CallHolds, vars
  <1>3. QED BY <1>1, <1>2, Zenon DEF MemoryInv

(* Every step of every thunk keeps both parts of the inductive invariant.   *)
LEMMA MemoryInductive == MemoryInv /\ [Next]_vars => MemoryInv'
  <1>1. ASSUME MemoryInv, NEW t \in Threads, HeapStep(t)
        PROVE  MemoryInv'
    BY <1>1, HeapStepKeeps, HeapStepKeepsPages, Zenon DEF MemoryInv
  <1>2. QED
    BY <1>1, VmStepKeeps, MemoryStutters, Zenon DEF Next

(* heap.rs:49-68, 130-145: however many threads allocate and reallocate, of *)
(* whatever sizes, no byte of the arena belongs to two blocks.              *)
THEOREM HeapDisjointAlways == Spec => []HeapBlocksDisjoint
  <1>1. MemoryInv => HeapBlocksDisjoint
    BY Zenon DEF MemoryInv, HeapInv
  <1>2. QED BY <1>1, MemoryInitially, MemoryInductive, PTL DEF Spec

(* vm.rs and mem.rs: for every page size and table, each mapped page has    *)
(* exactly one holder, although VirtualAlloc maps before it locks.          *)
THEOREM PagesHeldOnceAlways == Spec => []EveryPageHeldOnce
  <1>1. MemoryInv => EveryPageHeldOnce
    BY Zenon DEF MemoryInv, PageInv
  <1>2. QED BY <1>1, MemoryInitially, MemoryInductive, PTL DEF Spec
-----------------------------------------------------------------------------
(* What is in the arena: every block begins below the bump pointer, none    *)
(* that wraps has known bytes, and the known bytes are there.  A            *)
(* reallocation copies upwards.                                             *)
Holds(c, b) == \A i \in 0 .. b.known - 1 : c[b.ptr + i] = b.tag

ByteInv ==
    /\ next \in 0 .. ArenaBytes
    /\ cells \in [0 .. ArenaBytes - 1 -> Tags \cup {0}]
    /\ \A b \in blocks : /\ b.ptr <= next /\ b.known <= b.size
                         /\ Wraps(b.size) => b.known = 0
                         /\ Holds(cells, b)
    /\ \A t \in Threads : op[t].do = "copy" => op[t].old <= op[t].ptr

(* A block keeps its bytes when nothing is written to its range.            *)
LEMMA UntouchedHolds ==
    ASSUME HeapInv, ByteInv, NEW b \in blocks, NEW c,
           NEW p \in Nat, NEW n \in Nat,
           ~Wraps(b.size) => Apart(p, n, b.ptr, b.size),
           \A i \in 0 .. ArenaBytes - 1 : ~(i >= p /\ i < p + n) => c[i] = cells[i]
    PROVE  Holds(c, b)
  <1>1. SUFFICES ASSUME NEW i \in 0 .. b.known - 1 PROVE c[b.ptr + i] = b.tag
    BY Zenon DEF Holds
  <1>2. b.ptr \in Nat /\ b.size \in Nat /\ b.known \in Nat
    BY Zenon DEF HeapInv, BlockType
  <1>3. ~Wraps(b.size) /\ b.known <= b.size /\ cells[b.ptr + i] = b.tag
    BY <1>2, SMT, Z3 DEF ByteInv, Holds
  <1>4. b.ptr + b.size <= next /\ next \in Nat /\ next <= ArenaBytes
    BY <1>3, MemoryAssumption, SMT, Z3 DEF HeapInv, HeapBlocksDisjoint, ByteInv
  <1>5. b.ptr + i \in 0 .. ArenaBytes - 1 /\ ~(b.ptr + i >= p /\ b.ptr + i < p + n)
    BY <1>2, <1>3, <1>4, MemoryAssumption, SMT, Z3 DEF Apart
  <1> QED
    BY <1>3, <1>5, Zenon

(* The remainder that a copy which reads late takes is a byte it has        *)
(* written or one of the source.                                            *)
LEMMA RemainderBelow ==
    ASSUME NEW x \in Nat, NEW d \in Nat \ {0}
    PROVE  x % d \in Nat /\ x % d < d /\ x % d <= x
  <1>1. x % d \in 0 .. d - 1
    OBVIOUS
  <1>2. CASE x < d
    BY <1>2
  <1>3. CASE x >= d
    BY <1>1, <1>3, SMT, Z3
  <1> QED
    BY <1>1, <1>2, <1>3, SMT, Z3

(* The page map, the addresses and the sizes that VirtualAlloc has to do    *)
(* with are what mach_vm_allocate and the guest gave.                       *)
MapInv ==
    /\ vm \in [Page -> {Free} \cup {host_vm_prot(p) : p \in Protection}]
    /\ arena \in Addresses
    /\ \A i \in DOMAIN table : table[i][1] \in Addresses /\ table[i][2] \in VmSizes
    /\ \A t \in Threads : op[t].do \in {"protect", "push"} => op[t].ptr \in Addresses /\ op[t].len \in VmSizes

(* heap.rs:61-67: carving writes only above the bump pointer.               *)
LEMMA CarveKeeps ==
    ASSUME HeapInv, ByteInv, NEW size \in Nat, NEW zero \in BOOLEAN,
           HasRoom(size), Carve(size, zero)
    PROVE  /\ next' \in 0 .. ArenaBytes /\ next <= next'
           /\ cells' \in [0 .. ArenaBytes - 1 -> Tags \cup {0}]
           /\ \A b \in blocks : b.ptr <= next' /\ Holds(cells', b)
           /\ zero => \A i \in 0 .. Aligned(size) - 1 : cells'[next + i] = 0
  <1>1. /\ Aligned(size) \in Nat /\ next \in Nat /\ next + Aligned(size) <= ArenaBytes
        /\ ArenaBytes \in Nat
    BY AlignedNat, MemoryAssumption DEF HasRoom, ByteInv
  <1>2. next' = next + Aligned(size)
    BY Zenon DEF Carve
  <1>3. cells' = [i \in 0 .. ArenaBytes - 1 |->
                    IF zero /\ i >= next /\ i < next + Aligned(size) THEN 0 ELSE cells[i]]
    BY Zenon DEF Carve, ByteInv
  <1>4. cells' \in [0 .. ArenaBytes - 1 -> Tags \cup {0}]
    BY <1>3, Zenon DEF ByteInv
  <1>5. ASSUME NEW b \in blocks PROVE b.ptr <= next' /\ Holds(cells', b)
    <2>1. b.ptr \in Nat /\ b.size \in Nat /\ b.ptr <= next
      BY Zenon DEF HeapInv, BlockType, ByteInv
    <2>2. ~Wraps(b.size) => Apart(next, Aligned(size), b.ptr, b.size)
      BY <1>1, <2>1, Zenon DEF HeapInv, HeapBlocksDisjoint, Apart
    <2>3. \A i \in 0 .. ArenaBytes - 1 :
             ~(i >= next /\ i < next + Aligned(size)) => cells'[i] = cells[i]
      BY <1>3, Zenon
    <2>4. Holds(cells', b)
      BY <1>1, <2>2, <2>3, UntouchedHolds, Zenon
    <2> QED
      BY <1>1, <1>2, <2>1, <2>4, SMT, Z3
  <1>6. zero => \A i \in 0 .. Aligned(size) - 1 : cells'[next + i] = 0
    BY <1>1, <1>3, SMT, Z3
  <1> QED
    BY <1>1, <1>2, <1>4, <1>5, <1>6, SMT, Z3

(* heap.rs:136-144: the new block begins with the old one's known bytes,    *)
(* and no other byte changes.                                               *)
LEMMA CopyBrings ==
    ASSUME HeapInv, ByteInv, NEW b \in blocks, NEW to \in Nat, NEW len \in Nat,
           NEW late \in BOOLEAN, b.ptr <= to, to + len <= next,
           cells' = Copied(b.ptr, to, len, late)
    PROVE  /\ cells' \in [0 .. ArenaBytes - 1 -> Tags \cup {0}]
           /\ \A i \in 0 .. ArenaBytes - 1 : ~(i >= to /\ i < to + len) => cells'[i] = cells[i]
           /\ \A i \in 0 .. len - 1 : i < b.known => cells'[to + i] = b.tag
  <1>1. /\ b.ptr \in Nat /\ b.size \in Nat /\ b.known \in Nat /\ b.known <= b.size
        /\ next \in Nat /\ next <= ArenaBytes /\ ArenaBytes \in Nat
        /\ cells \in [0 .. ArenaBytes - 1 -> Tags \cup {0}]
        /\ \A i \in 0 .. b.known - 1 : cells[b.ptr + i] = b.tag
    BY MemoryAssumption, SMT, Z3 DEF HeapInv, BlockType, ByteInv, Holds
  <1>2. PICK d \in Nat : d = to - b.ptr
    BY <1>1
  <1>3. cells' = [i \in 0 .. ArenaBytes - 1 |->
                    IF i >= to /\ i < to + len
                    THEN IF late /\ d > 0 THEN cells[b.ptr + ((i - to) % d)]
                                          ELSE cells[i - to + b.ptr]
                    ELSE cells[i]]
    BY <1>1, <1>2, Zenon DEF Copied
  <1>4. \A x \in 0 .. len - 1 : d > 0 => x % d \in Nat /\ x % d < d /\ x % d <= x
    BY <1>2, RemainderBelow
  <1>5. ASSUME NEW i \in 0 .. ArenaBytes - 1 PROVE cells'[i] \in Tags \cup {0}
    <2>1. CASE i >= to /\ i < to + len /\ late /\ d > 0
      <3>1. PICK x \in 0 .. len - 1 : x = i - to
        BY <2>1
      <3>2. PICK y \in Nat : y = x % d /\ y < d
        BY <1>4, <2>1, <3>1, Zenon
      <3>3. b.ptr + y \in 0 .. ArenaBytes - 1
        <4>1. b.ptr + d <= ArenaBytes
          BY <1>1, <1>2, SMT, Z3
        <4> QED
          BY <1>1, <3>2, <4>1, SMT, Z3
      <3>4. cells'[i] = cells[b.ptr + y]
        BY <1>3, <2>1, <3>1, <3>2, Zenon
      <3> QED
        BY <1>1, <3>3, <3>4, Zenon
    <2>2. CASE i >= to /\ i < to + len /\ ~(late /\ d > 0)
      <3>1. i - to + b.ptr \in 0 .. ArenaBytes - 1
        BY <1>1, <2>2, SMT, Z3
      <3> QED
        BY <1>1, <1>3, <2>2, <3>1, Zenon
    <2>3. CASE ~(i >= to /\ i < to + len)
      BY <1>1, <1>3, <2>3, Zenon
    <2> QED
      BY <2>1, <2>2, <2>3, Zenon
  <1>6. \A i \in 0 .. ArenaBytes - 1 : ~(i >= to /\ i < to + len) => cells'[i] = cells[i]
    BY <1>3, Zenon
  <1>7. ASSUME NEW i \in 0 .. len - 1, i < b.known PROVE cells'[to + i] = b.tag
    <2>1. to + i \in 0 .. ArenaBytes - 1 /\ to + i >= to /\ to + i < to + len /\ (to + i) - to = i
      BY <1>1
    <2>2. CASE late /\ d > 0
      <3>1. PICK y \in Nat : y = i % d /\ y <= i
        BY <1>4, <2>2, Zenon
      <3>2. cells'[to + i] = cells[b.ptr + y]
        BY <1>3, <2>1, <2>2, <3>1, Zenon
      <3>3. y \in 0 .. b.known - 1
        BY <1>1, <1>7, <3>1, SMT, Z3
      <3> QED
        BY <1>1, <3>2, <3>3, Zenon
    <2>3. CASE ~(late /\ d > 0)
      BY <1>1, <1>3, <1>7, <2>1, <2>3, SMT, Z3
    <2> QED
      BY <2>2, <2>3, Zenon
  <1>8. cells' \in [0 .. ArenaBytes - 1 -> Tags \cup {0}]
    BY <1>3, <1>5, Zenon
  <1> QED
    BY <1>6, <1>7, <1>8, Zenon

(* Every heap call keeps the bytes of every block.                          *)
LEMMA HeapStepKeepsBytes ==
    ASSUME HeapInv, ByteInv, NEW t \in Threads, HeapStep(t)
    PROVE  ByteInv'
  <1>1. CASE UNCHANGED <<next, cells, op>> /\ blocks' \subseteq blocks
    BY <1>1, Zenon DEF ByteInv, Holds, Wraps
  <1>2. ASSUME NEW size \in HeapSizes, NEW zero \in BOOLEAN, HeapAlloc(t, size, zero)
        PROVE  ByteInv'
    <2>1. PICK known \in Nat : known = IF zero /\ ~Wraps(size) THEN size ELSE 0
      BY MemoryAssumption, SMT, Z3
    <2>2. PICK n \in Nat : n = next /\ n <= ArenaBytes
      BY MemoryAssumption, SMT, Z3 DEF ByteInv
    <2>3. size \in Nat /\ HasRoom(size) /\ Carve(size, zero) /\ op' = op
          /\ blocks' = blocks \cup {Block(n, size, known, 0)}
      BY <1>2, <2>1, <2>2, MemoryAssumption, SMT, Z3 DEF HeapAlloc
    <2>4. /\ next' \in 0 .. ArenaBytes /\ next <= next'
          /\ cells' \in [0 .. ArenaBytes - 1 -> Tags \cup {0}]
          /\ \A b \in blocks : b.ptr <= next' /\ Holds(cells', b)
          /\ zero => \A i \in 0 .. Aligned(size) - 1 : cells'[next + i] = 0
      BY <2>3, CarveKeeps, Zenon
    <2>5. Holds(cells', Block(n, size, known, 0))
      <3>1. known = 0 \/ (zero /\ known = size /\ Aligned(size) \in Nat /\ size <= Aligned(size))
        BY <2>1, <2>3, AlignedCovers, Zenon
      <3>2. \A i \in 0 .. known - 1 : cells'[n + i] = 0
        <4>1. SUFFICES ASSUME NEW i \in 0 .. known - 1 PROVE cells'[n + i] = 0
          BY Zenon
        <4>2. zero /\ i \in 0 .. Aligned(size) - 1
          BY <2>3, <3>1, <4>1, SMT, Z3
        <4> QED
          BY <2>2, <2>4, <4>2, Zenon
      <3> QED
        BY <3>2, Zenon DEF Holds, Block
    <2>6. known <= size /\ (Wraps(size) => known = 0) /\ n <= next'
      BY <2>1, <2>2, <2>3, <2>4, SMT, Z3
    <2>7. ASSUME NEW b \in blocks'
          PROVE  b.ptr <= next' /\ b.known <= b.size /\ (Wraps(b.size) => b.known = 0)
                 /\ Holds(cells', b)
      <3>1. CASE b \in blocks
        BY <2>4, <3>1, Zenon DEF ByteInv
      <3>2. CASE b = Block(n, size, known, 0)
        BY <2>5, <2>6, <3>2, Zenon DEF Block
      <3> QED
        BY <2>3, <2>7, <3>1, <3>2, Zenon
    <2> QED
      BY <2>3, <2>4, <2>7, Zenon DEF ByteInv, Wraps
  <1>3. ASSUME NEW b \in blocks, NEW tag \in Tags, GuestFill(t, b, tag)
        PROVE  ByteInv'
    <2>1. b.ptr \in Nat /\ b.size \in Nat /\ ~Wraps(b.size) /\ b.ptr + b.size <= next /\ b.ptr <= next
          /\ next \in Nat /\ next <= ArenaBytes
      BY <1>3, MemoryAssumption DEF GuestFill, HeapInv, BlockType, HeapBlocksDisjoint, ByteInv
    <2>2. /\ blocks' = (blocks \ {b}) \cup {Block(b.ptr, b.size, b.size, tag)}
          /\ UNCHANGED <<next, op>>
          /\ cells' = [i \in 0 .. ArenaBytes - 1 |->
                         IF i >= b.ptr /\ i < b.ptr + b.size THEN tag ELSE cells[i]]
      BY <1>3, Zenon DEF GuestFill, ByteInv
    <2>3. cells' \in [0 .. ArenaBytes - 1 -> Tags \cup {0}]
      BY <2>2, Zenon DEF ByteInv
    <2>4. Holds(cells', Block(b.ptr, b.size, b.size, tag))
      <3>1. \A i \in 0 .. b.size - 1 : cells'[b.ptr + i] = tag
        <4>1. SUFFICES ASSUME NEW i \in 0 .. b.size - 1 PROVE cells'[b.ptr + i] = tag
          BY Zenon
        <4>2. b.ptr + i \in 0 .. ArenaBytes - 1 /\ b.ptr + i >= b.ptr /\ b.ptr + i < b.ptr + b.size
          BY <2>1, MemoryAssumption
        <4> QED
          BY <2>2, <4>2, Zenon
      <3> QED
        BY <3>1, Zenon DEF Holds, Block
    <2>5. ASSUME NEW c \in blocks, c # b PROVE Holds(cells', c)
      <3>1. ~Wraps(c.size) => Apart(b.ptr, b.size, c.ptr, c.size)
        BY <2>1, <2>5, Zenon DEF HeapInv, HeapBlocksDisjoint
      <3>2. \A i \in 0 .. ArenaBytes - 1 :
               ~(i >= b.ptr /\ i < b.ptr + b.size) => cells'[i] = cells[i]
        BY <2>2, Zenon
      <3> QED
        BY <2>1, <3>1, <3>2, UntouchedHolds, Zenon
    <2>6. ASSUME NEW c \in blocks'
          PROVE  c.ptr <= next /\ c.known <= c.size /\ (Wraps(c.size) => c.known = 0)
                 /\ Holds(cells', c)
      <3>1. CASE c \in blocks /\ c # b
        BY <2>5, <3>1, Zenon DEF ByteInv
      <3>2. CASE c = Block(b.ptr, b.size, b.size, tag)
        BY <2>1, <2>4, <3>2, SMT, Z3 DEF Block
      <3> QED
        BY <2>2, <2>6, <3>1, <3>2, Zenon
    <2> QED
      BY <2>2, <2>3, <2>6, Zenon DEF ByteInv, Wraps
  <1>4. ASSUME NEW b \in blocks, NEW size \in HeapSizes, NEW zero \in BOOLEAN,
               HeapReAlloc(t, b, size, zero)
        PROVE  ByteInv'
    <2>1. size \in Nat /\ HasRoom(size) /\ Carve(size, zero) /\ blocks' = blocks
          /\ op' = [op EXCEPT ![t] = Op("copy", next, size, b.ptr, "RW")]
      BY <1>4, MemoryAssumption, SMT, Z3 DEF HeapReAlloc
    <2>2. /\ next' \in 0 .. ArenaBytes
          /\ cells' \in [0 .. ArenaBytes - 1 -> Tags \cup {0}]
          /\ \A c \in blocks : c.ptr <= next' /\ Holds(cells', c)
      BY <2>1, CarveKeeps, Zenon
    <2>3. b.ptr <= next
      BY Zenon DEF ByteInv
    <2>4. \A u \in Threads : op'[u].do = "copy" => op'[u].old <= op'[u].ptr
      BY <2>1, <2>3, Zenon DEF ByteInv, HeapInv, Op
    <2> QED
      BY <2>1, <2>2, <2>4, Zenon DEF ByteInv, Wraps
  <1>5. ASSUME NEW late \in BOOLEAN, ReAllocCopy(t, late)
        PROVE  ByteInv'
    <2>1. PICK b \in blocks :
             /\ b.ptr = op[t].old
             /\ cells' = Copied(op[t].old, op[t].ptr, op[t].len, late)
             /\ blocks' = (blocks \ {b})
                   \cup {Block(op[t].ptr, op[t].len,
                               IF b.known < op[t].len THEN b.known ELSE op[t].len, b.tag)}
      BY <1>5, Zenon DEF ReAllocCopy
    <2>2. op[t].do = "copy" /\ next' = next /\ op' = [op EXCEPT ![t] = Idle]
      BY <1>5, Zenon DEF ReAllocCopy
    <2>3. op[t].ptr \in Nat /\ op[t].len \in Nat /\ ~Wraps(op[t].len)
          /\ op[t].ptr + op[t].len <= next /\ op[t].old <= op[t].ptr
      BY <2>2, Zenon DEF HeapInv, OpType, ByteInv
    <2>4. PICK to \in Nat, len \in Nat : to = op[t].ptr /\ len = op[t].len
      BY <2>3, Zenon
    <2>5. PICK known \in Nat : /\ known = IF b.known < len THEN b.known ELSE len
                               /\ known <= len /\ known <= b.known
      BY <2>4 DEF HeapInv, BlockType
    <2>6. /\ cells' = Copied(b.ptr, to, len, late) /\ b.ptr <= to /\ to + len <= next /\ ~Wraps(len)
          /\ blocks' = (blocks \ {b}) \cup {Block(to, len, known, b.tag)}
      BY <2>1, <2>3, <2>4, <2>5, Zenon
    <2>7. /\ cells' \in [0 .. ArenaBytes - 1 -> Tags \cup {0}]
          /\ \A i \in 0 .. ArenaBytes - 1 : ~(i >= to /\ i < to + len) => cells'[i] = cells[i]
          /\ \A i \in 0 .. len - 1 : i < b.known => cells'[to + i] = b.tag
      BY <2>6, CopyBrings, SMT, Z3
    <2>8. Holds(cells', Block(to, len, known, b.tag))
      <3>1. b.known \in Nat
        BY Zenon DEF HeapInv, BlockType
      <3>2. \A i \in 0 .. known - 1 : cells'[to + i] = b.tag
        <4>1. \A i \in 0 .. known - 1 : i \in 0 .. len - 1 /\ i < b.known
          BY <2>5, <3>1, SMT, Z3
        <4> QED
          BY <2>7, <4>1, Zenon
      <3> QED
        BY <3>2, Zenon DEF Holds, Block
    <2>9. ASSUME NEW c \in blocks PROVE Holds(cells', c)
      <3>1. ~Wraps(c.size) => Apart(to, len, c.ptr, c.size)
        BY <2>2, <2>4, Zenon DEF HeapInv, HeapBlocksDisjoint
      <3> QED
        BY <2>7, <3>1, UntouchedHolds, Zenon
    <2>10. ASSUME NEW c \in blocks'
           PROVE  c.ptr <= next /\ c.known <= c.size /\ (Wraps(c.size) => c.known = 0)
                  /\ Holds(cells', c)
      <3>1. CASE c \in blocks
        BY <2>9, <3>1, Zenon DEF ByteInv
      <3>2. CASE c = Block(to, len, known, b.tag)
        <4>1. to <= next
          BY <2>6 DEF HeapInv
        <4> QED
          BY <2>5, <2>6, <2>8, <3>2, <4>1, Zenon DEF Block
      <3> QED
        BY <2>6, <2>10, <3>1, <3>2, Zenon
    <2>11. \A u \in Threads : op'[u].do = "copy" => op'[u].old <= op'[u].ptr
      BY <2>2, IdleIs, Zenon DEF HeapInv, ByteInv
    <2> QED
      BY <2>2, <2>7, <2>10, <2>11, Zenon DEF ByteInv, Wraps
  <1>6. CASE default_heap(t)
    BY <1>1, <1>6, Zenon DEF default_heap
  <1>7. ASSUME NEW b \in blocks, HeapFree(t, b) PROVE ByteInv'
    BY <1>1, <1>7, Zenon DEF HeapFree
  <1> QED
    BY <1>2, <1>3, <1>4, <1>5, <1>6, <1>7, Zenon DEF HeapStep

(* vm.rs changes no byte of the arena.                                      *)
LEMMA VmStepKeepsBytes ==
    ASSUME HeapInv, ByteInv, NEW t \in Threads, VmStep(t)
    PROVE  ByteInv'
  <1>1. /\ UNCHANGED <<next, cells, blocks>>
        /\ \A u \in Threads : op'[u].do = "copy" => op'[u] = op[u]
    <2>1. ASSUME NEW new, new.do # "copy", op' = [op EXCEPT ![t] = new]
          PROVE  \A u \in Threads : op'[u].do = "copy" => op'[u] = op[u]
      BY <2>1, Zenon DEF HeapInv
    <2>2. Idle.do # "copy"
      BY IdleIs, Zenon
    <2>3. ASSUME NEW a \in Addresses, NEW size \in VmSizes, NEW page \in PageFlags,
                 VirtualAlloc(t, a, size, page)
          PROVE  /\ UNCHANGED <<next, cells, blocks>>
                 /\ \A u \in Threads : op'[u].do = "copy" => op'[u] = op[u]
      <3>1. PICK r \in allocate(vm, a, size) :
               op' = IF r.ok THEN [op EXCEPT ![t] = Granted(r.base, size, translate_protect(page))]
                     ELSE op
        BY <2>3, Zenon DEF VirtualAlloc
      <3>2. Granted(r.base, size, translate_protect(page)).do # "copy"
        BY Zenon DEF Granted, Op
      <3>3. CASE r.ok
        BY <2>1, <2>3, <3>1, <3>2, <3>3, Zenon DEF VirtualAlloc
      <3>4. CASE ~r.ok
        BY <2>3, <3>1, <3>4, Zenon DEF VirtualAlloc
      <3> QED
        BY <3>3, <3>4, Zenon
    <2>4. ASSUME NEW i \in DOMAIN table, VirtualFree(t, i)
          PROVE  /\ UNCHANGED <<next, cells, blocks>>
                 /\ \A u \in Threads : op'[u].do = "copy" => op'[u] = op[u]
      <3>1. Op("unmap", table[i][1], table[i][2], Null, "RW").do # "copy"
        BY Zenon DEF Op
      <3> QED
        BY <2>1, <2>4, <3>1, Zenon DEF VirtualFree
    <2>5. CASE VirtualAllocPush(t) \/ VirtualFreeUnmap(t)
      BY <2>1, <2>2, <2>5, Zenon DEF VirtualAllocPush, VirtualFreeUnmap
    <2>6. CASE \E a \in Addresses, size \in VmSizes, page \in PageFlags :
                 VirtualProtect(t, a, size, page)
      BY <2>6, Zenon DEF VirtualProtect
    <2>7. CASE VirtualAllocProtect(t)
      <3>1. PICK new \in {Granted(op[t].ptr, op[t].len, "RW"), Idle} :
               op' = [op EXCEPT ![t] = new]
        BY <2>7, Zenon DEF VirtualAllocProtect
      <3>2. new.do # "copy"
        <4>1. Granted(op[t].ptr, op[t].len, "RW").do # "copy"
          BY Zenon DEF Granted, Op
        <4> QED
          BY <2>2, <3>1, <4>1, Zenon
      <3> QED
        BY <2>1, <2>7, <3>1, <3>2, Zenon DEF VirtualAllocProtect
    <2> QED
      BY <2>3, <2>4, <2>5, <2>6, <2>7, Zenon DEF VmStep
  <1> QED
    BY <1>1, Zenon DEF ByteInv, Wraps

(* mem.rs:122-154, 181-192, 70-76: what is mapped has one of the five       *)
(* protections, and a granted region begins at a page.                      *)
LEMMA SetPagesType ==
    ASSUME NEW v \in [Page -> {Free} \cup {host_vm_prot(p) : p \in Protection}],
           NEW base, NEW len, NEW bits \in {Free} \cup {host_vm_prot(p) : p \in Protection}
    PROVE  SetPages(v, base, len, bits) \in [Page -> {Free} \cup {host_vm_prot(p) : p \in Protection}]
BY Zenon DEF SetPages

LEMMA AllocateAt ==
    ASSUME NEW v, NEW hint, NEW size, NEW r \in allocate(v, hint, size), r.ok
    PROVE  r.base \in Addresses
  <1>1. Room(v, hint, size) # {}
    BY SMT, Z3 DEF allocate, Failed
  <1>2. PICK b \in Room(v, hint, size) :
           r = [ok |-> TRUE, base |-> b, vm |-> SetPages(v, b, size, host_vm_prot("RW"))]
    BY <1>1 DEF allocate
  <1>3. r.base = b
    BY <1>2, Zenon
  <1> QED
    BY <1>3, Zenon DEF Room, Addresses

LEMMA MapStep ==
    ASSUME MemoryInv, MapInv, NEW t \in Threads, HeapStep(t) \/ VmStep(t)
    PROVE  MapInv'
  <1>0. /\ table \in Seq(Nat \X Nat) /\ op \in [Threads -> OpType]
        /\ \A p \in Protection : host_vm_prot(p) \in {host_vm_prot(q) : q \in Protection}
    BY Zenon DEF MemoryInv, PageInv, HeapInv
  <1>1. CASE UNCHANGED <<vm, arena, table>>
             /\ \A u \in Threads : op'[u].do \in {"protect", "push"} => op'[u] = op[u]
    BY <1>1, Zenon DEF MapInv
  <1>2. CASE default_heap(t)
    <2>1. PICK r \in allocate(vm, Null, ArenaBytes) : r.ok /\ arena' = r.base /\ vm' = r.vm
      BY <1>2, Zenon DEF default_heap
    <2>2. arena' \in Addresses
      BY <2>1, AllocateAt, Zenon
    <2>3. vm' = SetPages(vm, r.base, ArenaBytes, host_vm_prot("RW"))
      BY <2>1, AllocateOutcome, Zenon
    <2>4. vm' \in [Page -> {Free} \cup {host_vm_prot(p) : p \in Protection}]
      <3>1. "RW" \in Protection
        BY Zenon DEF Protection
      <3> QED
        BY <1>0, <2>3, <3>1, SetPagesType, Zenon DEF MapInv
    <2> QED
      BY <1>2, <2>2, <2>4, Zenon DEF default_heap, MapInv
  <1>3. ASSUME NEW a \in Addresses, NEW size \in VmSizes, NEW page \in PageFlags,
               VirtualAlloc(t, a, size, page)
        PROVE  MapInv'
    <2>1. PICK r \in allocate(vm, a, size) :
             /\ vm' = r.vm
             /\ op' = IF r.ok THEN [op EXCEPT ![t] = Granted(r.base, size, translate_protect(page))]
                      ELSE op
      BY <1>3, ZenonT(30) DEF VirtualAlloc
    <2>2. arena' = arena /\ table' = table
      BY <1>3, Zenon DEF VirtualAlloc
    <2>3. CASE ~r.ok
      <3>1. vm' = vm /\ op' = op
        BY <2>1, <2>3, AllocateOutcome, Zenon
      <3> QED
        BY <1>1, <2>2, <3>1, Zenon
    <2>4. CASE r.ok
      <3>1. vm' = SetPages(vm, r.base, size, host_vm_prot("RW"))
        BY <2>1, <2>4, AllocateOutcome, Zenon
      <3>2. vm' \in [Page -> {Free} \cup {host_vm_prot(p) : p \in Protection}]
        BY <1>0, <3>1, RWIsProtection, SetPagesType, Zenon DEF MapInv
      <3>3. r.base \in Addresses
        BY <2>4, AllocateAt, Zenon
      <3>4. op' = [op EXCEPT ![t] = Granted(r.base, size, translate_protect(page))]
        BY <2>1, <2>4, Zenon
      <3>5. op'[t].ptr = r.base /\ op'[t].len = size /\ \A u \in Threads \ {t} : op'[u] = op[u]
        BY <1>0, <3>4, Zenon DEF Granted, Op
      <3> QED
        BY <2>2, <3>2, <3>3, <3>5, Zenon DEF MapInv
    <2> QED
      BY <2>3, <2>4, Zenon
  <1>4. CASE VirtualAllocPush(t)
    <2>1. /\ op[t].do = "push" /\ vm' = vm /\ arena' = arena
          /\ table' = Append(table, <<op[t].ptr, op[t].len>>)
          /\ op' = [op EXCEPT ![t] = Idle]
      BY <1>4, Zenon DEF VirtualAllocPush
    <2>2. PICK x \in Nat, y \in Nat : x = op[t].ptr /\ y = op[t].len
      BY <1>0, Zenon DEF OpType
    <2>3. x \in Addresses /\ y \in VmSizes
      BY <2>1, <2>2, Zenon DEF MapInv
    <2>4. \A i \in DOMAIN table' :
             (i \in DOMAIN table /\ table'[i] = table[i]) \/ table'[i] = <<x, y>>
      BY <1>0, <2>1, <2>2, SMTT(30), Z3T(30)
    <2>5. ASSUME NEW i \in DOMAIN table' PROVE table'[i][1] \in Addresses /\ table'[i][2] \in VmSizes
      BY <2>3, <2>4 DEF MapInv
    <2>6. \A u \in Threads : op'[u].do \in {"protect", "push"} => op'[u] = op[u]
      BY <1>0, <2>1, IdleIs, Zenon
    <2> QED
      BY <2>1, <2>5, <2>6, Zenon DEF MapInv
  <1>5. ASSUME NEW i \in DOMAIN table, VirtualFree(t, i)
        PROVE  MapInv'
    <2>1. /\ vm' = vm /\ arena' = arena /\ table' = SwapRemove(table, i)
          /\ op' = [op EXCEPT ![t] = Op("unmap", table[i][1], table[i][2], Null, "RW")]
      BY <1>5, Zenon DEF VirtualFree
    <2>2. \A k \in DOMAIN table' : \E j \in DOMAIN table : table'[k] = table[j]
      <3>1. PICK n \in Nat : n = Len(table) /\ DOMAIN table = 1 .. n /\ n \in DOMAIN table
        <4>1. Len(table) \in Nat /\ DOMAIN table = 1 .. Len(table)
          BY <1>0, SMT, Z3
        <4>2. Len(table) \in 1 .. Len(table)
          BY <4>1
        <4> QED
          BY <4>1, <4>2, Zenon
      <3>2. table' = [k \in 1 .. n - 1 |-> IF k = i THEN table[n] ELSE table[k]]
        BY <2>1, <3>1, Zenon DEF SwapRemove
      <3>3. ASSUME NEW k \in 1 .. n - 1
            PROVE  k \in DOMAIN table /\ table'[k] \in {table[n], table[k]}
        BY <3>1, <3>2, <3>3
      <3> QED
        BY <3>1, <3>2, <3>3, Zenon
    <2>3. \A u \in Threads : op'[u].do \in {"protect", "push"} => op'[u] = op[u]
      BY <1>0, <2>1, Zenon DEF Op
    <2> QED
      BY <2>1, <2>2, <2>3, SMT, Z3 DEF MapInv
  <1>6. CASE VirtualFreeUnmap(t)
    <2>1. /\ vm' = SetPages(vm, op[t].ptr, op[t].len, Free) /\ UNCHANGED <<arena, table>>
          /\ op' = [op EXCEPT ![t] = Idle]
      BY <1>6, Zenon DEF VirtualFreeUnmap, munmap
    <2>2. vm' \in [Page -> {Free} \cup {host_vm_prot(p) : p \in Protection}]
      BY <2>1, SetPagesType, Zenon DEF MapInv
    <2>3. \A u \in Threads : op'[u].do \in {"protect", "push"} => op'[u] = op[u]
      BY <1>0, <2>1, IdleIs, Zenon
    <2> QED
      BY <2>1, <2>2, <2>3, Zenon DEF MapInv
  <1>7. ASSUME NEW a \in Addresses, NEW size \in VmSizes, NEW page \in PageFlags,
               VirtualProtect(t, a, size, page)
        PROVE  MapInv'
    <2>1. PICK r \in protect(vm, a, size, translate_protect(page)) : r.ok /\ vm' = r.vm
      BY <1>7, Zenon DEF VirtualProtect
    <2>2. vm' = SetPages(vm, a, size, host_vm_prot(translate_protect(page)))
      BY <2>1, ProtectOutcome, Zenon
    <2>3. vm' \in [Page -> {Free} \cup {host_vm_prot(p) : p \in Protection}]
      BY <1>0, <2>2, ProtectionsFit, SetPagesType, Zenon DEF MapInv
    <2> QED
      BY <1>7, <2>3, Zenon DEF VirtualProtect, MapInv
  <1>8. ASSUME NEW b \in blocks, NEW size \in HeapSizes, NEW zero \in BOOLEAN,
               HeapReAlloc(t, b, size, zero)
        PROVE  MapInv'
    <2>1. \A u \in Threads : op'[u].do \in {"protect", "push"} => op'[u] = op[u]
      BY <1>0, <1>8, Zenon DEF HeapReAlloc, Op
    <2> QED
      BY <1>1, <1>8, <2>1, Zenon DEF HeapReAlloc
  <1>9. ASSUME NEW late \in BOOLEAN, ReAllocCopy(t, late)
        PROVE  MapInv'
    <2>1. op' = [op EXCEPT ![t] = Idle] /\ UNCHANGED <<vm, arena, table>>
      BY <1>9, Zenon DEF ReAllocCopy
    <2>2. \A u \in Threads : op'[u].do \in {"protect", "push"} => op'[u] = op[u]
      BY <1>0, <2>1, IdleIs, Zenon
    <2> QED
      BY <1>1, <2>1, <2>2, Zenon
  <1>10. CASE UNCHANGED <<vm, arena, table, op>>
    BY <1>1, <1>10, Zenon
  <1>11. CASE VirtualAllocProtect(t)
    <2>1. PICK r \in allocate_protect(vm, op[t].ptr, op[t].len, op[t].prot) :
             /\ vm' = r.vm
             /\ op' = [op EXCEPT ![t] = IF r.ok THEN Granted(op[t].ptr, op[t].len, "RW") ELSE Idle]
      BY <1>11, Zenon DEF VirtualAllocProtect
    <2>2. op[t].do = "protect" /\ UNCHANGED <<arena, table>> /\ op[t].prot \in Protection
      BY <1>0, <1>11, Zenon DEF VirtualAllocProtect, OpType
    <2>3. PICK bits \in {host_vm_prot(op[t].prot), Free} :
             vm' = SetPages(vm, op[t].ptr, op[t].len, bits)
      BY <2>1, AllocateProtectOutcome, Zenon
    <2>4. vm' \in [Page -> {Free} \cup {host_vm_prot(p) : p \in Protection}]
      BY <1>0, <2>2, <2>3, SetPagesType, Zenon DEF MapInv
    <2>5. PICK new \in {Granted(op[t].ptr, op[t].len, "RW"), Idle} : op' = [op EXCEPT ![t] = new]
      BY <2>1, Zenon
    <2>6. new.do \in {"protect", "push"} => new.ptr = op[t].ptr /\ new.len = op[t].len
      <3>1. /\ Granted(op[t].ptr, op[t].len, "RW").ptr = op[t].ptr
            /\ Granted(op[t].ptr, op[t].len, "RW").len = op[t].len
        BY Zenon DEF Granted, Op
      <3>2. Idle.do \notin {"protect", "push"}
        BY IdleIs, Zenon
      <3> QED
        BY <2>5, <3>1, <3>2, Zenon
    <2>7. op'[t] = new /\ \A u \in Threads \ {t} : op'[u] = op[u]
      BY <1>0, <2>5, Zenon
    <2> QED
      BY <2>2, <2>4, <2>6, <2>7, Zenon DEF MapInv
  <1> QED
    BY <1>2, <1>3, <1>4, <1>5, <1>6, <1>7, <1>8, <1>9, <1>10, <1>11, Zenon
       DEF HeapStep, VmStep, HeapAlloc, HeapFree, GuestFill

(* The three parts together are inductive, and give TypeOK and the bytes.   *)
AllInv == MemoryInv /\ ByteInv /\ MapInv

LEMMA AllInitially == Init => AllInv
  <1>1. Init => ByteInv
    BY MemoryAssumption, IdleIs, SMT, Z3 DEF Init, ByteInv
  <1>2. Init => MapInv
    BY IdleIs DEF Init, MapInv, Addresses
  <1> QED
    BY <1>1, <1>2, MemoryInitially, Zenon DEF AllInv

LEMMA AllInductive == AllInv /\ [Next]_vars => AllInv'
  <1>1. ASSUME AllInv, NEW t \in Threads, HeapStep(t) \/ VmStep(t) PROVE ByteInv' /\ MapInv'
    BY <1>1, HeapStepKeepsBytes, VmStepKeepsBytes, MapStep, Zenon DEF AllInv, MemoryInv
  <1>2. ASSUME AllInv, UNCHANGED vars PROVE ByteInv' /\ MapInv'
    BY <1>2, Zenon DEF AllInv, ByteInv, MapInv, Holds, Wraps, vars
  <1> QED
    BY <1>1, <1>2, MemoryInductive, Zenon DEF AllInv, Next

(* heap.rs:130-145: for any number of threads and any sizes, what the guest *)
(* has put in a block stays there, also through a reallocation that copies  *)
(* as many bytes as the new block has from an old one that may be smaller.  *)
THEOREM BytesKeptAlways == Spec => []BlocksKeepTheirBytes
  <1>1. ASSUME AllInv PROVE BlocksKeepTheirBytes
    <2>1. \A b \in blocks : b.ptr \in 0 .. next /\ b.known \in 0 .. b.size
      BY <1>1 DEF AllInv, MemoryInv, HeapInv, BlockType, ByteInv
    <2>2. \A t \in Threads : op[t].do \in {"idle", "copy", "protect", "push", "unmap"}
      BY <1>1, Zenon DEF AllInv, MemoryInv, HeapInv, OpType
    <2>3. \A b \in blocks : \A i \in 0 .. b.known - 1 : cells[b.ptr + i] = b.tag
      BY <1>1, Zenon DEF AllInv, ByteInv, Holds
    <2> QED
      BY <1>1, <2>1, <2>2, <2>3, Zenon DEF AllInv, ByteInv, MapInv, TypeOK, BlocksKeepTheirBytes
  <1> QED
    BY <1>1, AllInitially, AllInductive, PTL DEF Spec
=============================================================================
