# Verification of Quantum's runtime in TLA+

Quantum runs Windows x86 programs on macOS/arm64. It loads a PE image, wires its
imports to host implementations of the Win32 functions (*thunks*), translates the
guest's basic blocks to AArch64 and runs them from a dispatcher loop, one loop per
guest thread. This directory models that runtime in TLA+: the places where guest
threads meet, the stages of the translator, the loader, the memory, the files and the
graphics objects. TLC checks the models on small instances and TLAPS proves the main
theorems for every instance.

## The system

| Part | Source (under `src/crates/`) | Module |
|---|---|---|
| Critical sections | `quantum-kernel32/src/sync.rs` | `CriticalSection`, `RecursiveLock` |
| Handle table, handle life cycle of file thunks | `quantum-kernel32/src/handles.rs`, `threads.rs`, `file_io.rs` | `HandleTable` |
| Events, mutexes, semaphores, thread handles, waits | `quantum-kernel32/src/handles.rs`, `threads.rs` | `KernelObjects`, `RecursiveLock` |
| Files | `quantum-kernel32/src/file_io.rs`, `quantum-runtime/src/sys.rs` | `FileIo` |
| Heap and virtual memory | `quantum-kernel32/src/heap.rs`, `vm.rs`, `quantum-runtime/src/mem.rs` | `GuestMemory`, `GuestVm` |
| Image loader: mapping, relocation, imports, exports, TLS, exception table | `quantum-loader/src/`, `quantum-cli/src/process.rs` | `PeImage`, `ImageLoader` |
| Dispatcher loop, block map, code cache, block chaining | `quantum-cli/src/process.rs`, `quantum-runtime/src/dispatcher.rs`, `codecache.rs`, `quantum-jit/src/block.rs` | `Dispatcher`, `GuestProgram` |
| Decoder and instruction form | `quantum-jit/src/decoder.rs`, `iform.rs`, `block.rs` | `Decoder`, `IForm` |
| Lifter | `quantum-jit/src/lifter.rs` | `Lifter`, `LifterSse` |
| Emitter | `quantum-jit/src/emitter.rs` | `Emitter` |
| Window classes, windows, message queues, quit flag | `quantum-kernel32/src/windows_state.rs`, `user32.rs` | `MessageQueue` |
| Process life cycle: exit trap, crash handler, callbacks, exceptions, `run_pe` | `quantum-kernel32/src/process.rs`, `seh.rs`, `quantum-cli/src/process.rs`, `quantum-runtime/src/guest_stack.rs` | `ProcessLife` |
| Direct3D 11 and DXGI objects | `quantum-kernel32/src/d3d11.rs`, `cocoa.rs` | `Direct3D` |
| What the hardware and its manuals say (external) | | `X86`, `X86Manual`, `HostCpu`, `A64` |

Guest threads are host threads (`CreateThread` spawns one that runs its own
dispatcher loop). They share one `Dispatcher`, one handle table, one heap, one window
state. Translated code calls the thunks directly. So the places where threads meet are
the block map and code cache, the handle table, the kernel objects, the heap and the
table of mappings, the guest's own critical sections, the message queues and the
Direct3D objects. The translator's stages run one after the other on one thread; there
the difficulty is in the data.

`PROJECT.json` lists the components, the source lines each definition stands for,
the hazards of the code, the runs and the theorems.

## How the modules correspond to the code

Each module has the code's state as variables (with the code's names), one action per
operation or per *step* of an operation, and a `pc` per thread for operations of
several steps. The step size is what other threads can observe:

* `CriticalSection`: one atomic operation (`load`, `fetch_add`, `compare_exchange`,
  `store`, `fetch_sub`). `depth` is the ghost count of acquisitions granted and not
  left. The two atomics wrap at `U32Max`. The guest initialises a section before it
  uses it and leaves only what it has entered; the code does not check either.
* `HandleTable`: one critical region of the table lock, so `insert`, `get` and
  `remove` are atomic, and a file thunk is a look-up followed by a system call on the
  descriptor it found. Handles are packed and unpacked as in the code, with narrow
  `Shift` and `Base`. The host's `open` gives the lowest free descriptor (external).
  Look-ups use any handle, stale and made-up ones included.
* `KernelObjects`: one region under an object's `Mutex`. `Condvar::wait` releases the
  lock and sleeps in that step; waking is a step of its own, and may be spurious.
  `SetEvent` drops the lock before it notifies: two steps. A timed wait whose outcome
  is `timed_out` returns without a second look, as in the code. `WaitForSingleObject`
  is wait-all on a list of one.
* `FileIo`: one system call. The words of a distance, a position or a size have
  `WordMod` values and are joined and split as in the code; the flags of `open` keep
  their numbers. `asked` is where Win32 puts each file's pointer, by a rule of its own
  (`Win32Distance`, `Win32Target`): a low word without a high word is a signed distance,
  and a place before the file is refused.
* `GuestVm`, `GuestMemory`: one region under the heap's or the table's lock, or one
  call of the kernel. `GuestVm` is the page map below everything that maps pages; the
  kernel's part is external. A heap block has its address, its size (16-byte aligned,
  modulo `UsizeMod`), and a tag that stands for the bytes the guest put into it.
  `VirtualAlloc` is three steps: the mapping (always read-write), the protection if
  another one is wanted (refused, the mapping is given back), the entry in the table.
* `PeImage`, `ImageLoader`: one function of the loader, on an image of cells (a
  descriptor, a thunk, a table entry, a string, an instruction). Loops, bounds and early
  returns are kept, byte offsets are not. A pointer has 8 bytes, or 4 where the
  relocation is HIGHLOW: those keep the address modulo `PtrMod`, without a carry. A
  *world* is a set of files beside the executable: sound ones, ones that must move, ones
  that a parser rejects, missing ones; the executable's exception table may be damaged.
* `Dispatcher`: `lookup`, `install` and `patch_chain` each hold the dispatcher's
  mutex and are one step; translation happens in between without it. Running a block
  is one step. Of a block's instructions it keeps whether they write the flags
  (`SetsFlags`); terminators keep their kinds: `jmp` and `jcc` have patchable exits,
  `dyn` stands for RET, CALL and indirect JMP, `stop` for UD2 and the end of the decode
  window, `bad` for a block that cannot be translated. A hot exit keeps the host flags, a
  return to the loop leaves anything in them.
* `Decoder`: one instruction decoded. Its tables are forms in the notation of
  `X86Manual`, which goes the other way: an assembler after the architecture's opcode
  tables. The program is assembled by the reference and read back by the model of the
  code, through a window of bytes that may cut it anywhere. A block is kept as how many
  of its instructions are performed, where it leaves to, the return address it pushes and
  the bytes it pops. Emitting it may fail (an operation `lift` has no arm for) or panic (an
  immediate or displacement the encoder rejects). Which *operands* an arm takes is the
  lifter's part; the decoder's body lifts if its operations do.
* `Lifter`, `LifterSse`: one host instruction executed. Each `lift_*` method is an
  operator that returns the instructions it emits; `HostCpu` runs them; `X86` says where
  the x86 instruction ends. A byte has `ByteBits` bits, so registers of 8, 4, 2 and 1
  bytes keep their ratios and all carries, sign bits and masks happen at small numbers.
  SSE registers are sequences of symbolic bytes; lane arithmetic is not interpreted.
* `Emitter`: one call of an encoder, `new_label`, `bind` or `finish`. A word is the set
  of its bits that are 1; `A64` reads words back after the Arm manual's classes.
* `MessageQueue`: one call of a `windows_state` helper. Messages are numbered in
  posting order; contents are left out. The iteration order of the `HashMap` of
  windows is arbitrary. What a window procedure does are the other thunks.
* `ProcessLife`: a host thread is a stack of `run_with_exit_trap` calls and dispatcher
  loops; what a thread does between two pieces of guest code is one step. `longjmp` cuts
  the stack at the depth in `env`. Of the guest's state RSP is kept, in 8-byte slots, and
  which slots of the main stack hold `STOP_SENTINEL`; a called function may overwrite its
  home space and everything below it. Whether the image has a `.pdata` handler, or the
  int3 pattern, for an address is a choice. A fault is one of guest code; a handler leaves
  RSP alone in the CONTEXT it continues with.
* `Direct3D`: one look-up or insertion under the shader cache's lock, the compilation
  between the two, and one access of the swap chain's `back_buffer`, which has no lock.
  Blobs are short byte strings with the hash of the code in narrow arithmetic; parsing
  and compiling are known by the blobs they accept.

`RecursiveLock` (a re-entrant lock) and `GuestProgram` (threads that walk a
control-flow graph, with flags that persist) are abstract specifications. The critical
section and every kernel mutex implement the first, the dispatcher the second.

Parts that share no state are checked together in one model whose behaviours choose the
part at work first: `MCGuestThreads` (`CriticalSection`, `MessageQueue`), `MCResources`
(`ImageLoader`, `GuestMemory`, `HandleTable`, `FileIo`, `Direct3D`) and `MCTranslator`
(`Decoder`, `Lifter` with `LifterSse`, `Emitter`). Where theorems are stated about a part,
the combined module EXTENDS it, so the run checks the very definition the theorem names;
its specification then has a name of its own (`QueueSpec`, `HandlesSpec`, `FilesSpec`), and
`GuestCallers` declares the set of threads that `GuestMemory` and `HandleTable` share.
`MCProcessLife` stages two scenes of `ProcessLife`: the main thread alone, in depth, and
with a worker beside it. `Staged` bounds what the guest does in a scene and holds of every
state, so it never holds up a step that fairness is assumed of.

## Runs

| Run (`.cfg`) | What it shows | Bounds |
|---|---|---|
| `GuestThreads` | critical section: mutual exclusion, refinement of `RecursiveLock`, a spinning thread sees the section taken. Queues: messages are conserved and handed out first in, first out; windows agree with their class; a quit ends a waiting `GetMessageW` | 4 threads, nesting 2; 2 pumping threads, 1 window, 2 messages, 1 quit |
| `KernelObjects` | one release per signal of an auto-reset event, no lost wake-up; ownership, hand-over by one notification, mutexes refine `RecursiveLock` | 3 threads, 2 events, 1 signal each, 1 mutex, nesting 2 |
| `KernelServed` | semaphore permits are never withheld; an available event, mutex or semaphore is served | 2 threads, one object of each kind, 2 permits |
| `Dispatcher` | map and chains lead to the right block; the threads run the program; the loop always gets to the next block or ends | 2 threads, 4 blocks (one untranslatable), room for 3, 3 rounds |
| `ProcessLife` | `longjmp` lands in the innermost live trap; a DLL's fault does not end the initialisation; the exit code is the main thread's; an exception is dispatched once, with its own registers; called functions find the sentinel; a worker's finished flag is set in the end | 1 DLL call, up to 1 TLS callback, 1 handler; main thread alone: 2 attempts, 4 frames less one per attempt; with 1 worker: no TLS callback, initialisations that return, 1 attempt, 3 frames |
| `Resources` | memory: no page and no heap byte is held twice, blocks keep their bytes through reallocation. Loader: imports reach their functions, pointers follow moved images, dependencies are loaded once and loading ends, declared callbacks are called. Handles: an open handle denotes its object (until handles are duplicated), descriptors are neither leaked nor shared, a file thunk reaches the file it looked up. Files: pointers are where Win32 puts them, files change by writing only. Direct3D: a shader has its own code, is compiled at most once per thread, the back buffer stays, a clear shows its colour | 3 pages of 64 bytes, 2 threads, arena of 48, `usize` of 256; up to 3 images; 3 objects, 3 slots, 2 descriptors; words of 2 bits, a file longer than a word counts, opened twice, 3 calls; 4-byte pointers of 192; 4 blobs, 3 formats, 5 Direct3D calls |
| `Translator` | decoder: assembled programs are read back; a block performs and leaves as the program does, or stops short of its last instruction where the window ends on a boundary; it panics only at ends too wide to encode; a truncation is a cut. Lifter: registers, memory and accesses as on x86, conditions after compares, flags kept, the call bridge keeps what each side needs, SSE bytes come from the right places. Emitter: words mean what was asked, branches land on their labels | bytes of 2 bits in the lifter, short immediates of 4; 2 labels, 5 calls |

A property of a run may have parts: those that make one promise of a component are joined,
and the component's type invariant is a conjunct of one of its properties. The parts keep
their names and comments in the component's module. The type invariants of
`CriticalSection` and `Dispatcher`, and the section's `CountIsDepth` and
`ReentryOnlyByHolder`, are proved for every instance (below) and not repeated by a run.

The bounds admit the cases the properties are about. Two threads suffice for a race on
one datum; locks get a third (or fourth) so that one can hold, one can wait and one
can overtake. Three objects over recycled slots and two descriptors make slots and
descriptors change hands. Requests go past the arena, wrap `usize` and straddle pages.
The worlds of the loader contain a cycle of imports, a forwarder, images that must
move, unsound files and a missing one. The dispatcher's programs contain a loop, both
sides of a branch, returns inside and outside the image and to the sentinel, and a cache
small enough to fill. Displacements lie on both sides of every limit the lifter tests (the
field of a load or store, multiples of the access, the immediate of ADD and SUB, zero) in
every form with a memory operand, immediates on both sides of those the lifter and the
emitter test. `VirtualAlloc` asks for one protection, the one the kernel may refuse:
the read-write path, which has no second call, is taken by the heap's arena and the loader,
and the proof covers every protection. `CHECK_DEADLOCK FALSE` stands where the system may stop:
guests that have exited, wait for one another or have made their calls.

Some properties are conditioned on a ghost that records the one event after which the
code makes no such promise: `duplicated` (a handle was duplicated: closing one copy
closes both), `stolen` (a timed wait expired at the moment it was notified, and took
the notification with it), `requeued` (a `PM_NOREMOVE` peek took the head and posted it
again), `others_faulted` (a worker or a DLL wrote the process-wide crash record),
`skewed` (guest code was started with RSP off its return address), `raced` (two first
`GetBuffer` calls overlapped) and `astray` (files whose pointer was moved by a negative low
word without a high word, until a move from the beginning or the end places it afresh). They
are set by the model's actions, so everything up to that event, and every object it does not
concern, is covered.

Where the code does not do what its own text says, a run states the text and TLC
shows a behaviour that contradicts it:

| Run | The text | What happens |
|---|---|---|
| `CriticalSectionReentry` | "Re-entry: if we already own it, just bump count." (`sync.rs:58`) | the owner store of a finished Leave erases the next holder's id; the holder's re-entry spins against itself |
| `HandleStale` | "stale handles don't accidentally hit a recycled slot" (`handles.rs:15-17`) | the generation restarts at 1 in a freed slot |
| `KernelWaitAll` | "Both are correct" (`threads.rs:196-198`) | wait-all keeps what it has while it sleeps on the next |
| `DispatcherFlags` | "Persistent guest register state across dispatcher round-trips." (`dispatcher.rs:39`, `:58`) | flags are not part of what blocks spill |
| `FileDisposition` | "O_CREAT \| O_EXCL", "O_CREAT \| O_TRUNC", ... (`file_io.rs:88-92`) | the numbers are another system's; `sys.rs:46-48` has the target's. CREATE_NEW and OPEN_ALWAYS do not create, CREATE_ALWAYS does not empty, TRUNCATE_EXISTING creates |

### Where the translator is exact

`LoweringIsExact` and the decoder's properties compare the code with the architecture
for the instructions that `Exact` describes, in `Lifter` and in `Decoder`. Each of its
conjuncts leaves out a form for which the code, reproduced by the operators, computes
something else. In the order of the conjuncts of `Lifter`:

* a displacement that is folded into a load or store and is not a multiple of the access
  or too large for the field (a debug build panics, a release build truncates it);
* 1- and 2-byte register destinations: the rest of the register is not preserved;
  `add`, `sub`, `and`, `or`, `xor` of an immediate to memory whose displacement passes
  through X17, a negative one or one of 2^24 and more that ADD and SUB cannot encode. The
  text says "[mem], imm: load → arith imm → store." (`lifter.rs:2916`), but the result waits
  in X17 while the address is made again (`:2938`, `:418-434`), and the store writes the
  displacement;
* `xchg`, `xadd` and `cmpxchg` of bytes and words; `movsx` to 32 bits keeps high bits set;
* `lea` whose index is its destination, with a segment, or with a folded displacement
  that does not fit 12 bits; `push rsp`, `pop rsp`;
* 32-bit `xchg` and `cmov` with dirty upper halves: they do not mask, although "we mask
  upper bits on every B4 write" (`lifter.rs:2090-2091`);
* carry conditions after anything but a subtraction; `adc` after a subtraction and `sbb`
  after an addition; `xadd` of a register with itself; 32-bit `cmpxchg` compares 64 bits;
* 32-bit `shr` of a dirty register; 32-bit shifts by CL of 32 and more; 32-bit `rol`,
  `ror`, `bsr`; `bsf` and `bsr` of 0; one-operand `mul` of RAX itself; divisions whose
  dividend needs RDX, whose divisor is RAX, or 32-bit ones of memory; `cdq`, which shifts
  by 3; `cpuid` and `rdtsc`, which are the host's choice; `call`, which
  `CallCrossesConventions` treats; `int3`.

Flags: AND, OR, XOR and the shifts set none; 32-bit `cmp` and `test` set those of the
64-bit operation; `setcc` writes the whole register; `rol` by CL, `bsr` and `cpuid`
clobber them. Floating point: NaN operands, FMIN/FMAX of zeros and the saturation of FCVT
differ and are not interpreted. SSE memory operands whose displacement needs X17, which
already holds the address, are left out (`AddressFits`). The 32-bit guest's call path is not
modelled.

The decoder's `Exact` leaves out: `66 68`, which takes 4 immediate bytes; a segment prefix
on a RIP-relative operand; XMM8 to XMM15 in `0F 6E`, `0F 7E` and `0F 2A`; `90` and REX.B.
The programs do not contain: address-size prefixes, AH to BH, `66 98`, `66 99`, `66 A5`,
`66 AB`, `63` in 32-bit code, near branches with `66`, a REX followed by another prefix.

### Other deviations

Other places where code and text, or code and Win32, part, met while modelling and reproduced by the
actions, without a run of their own:

* The loop is to "Pump AppKit events every PUMP_EVERY blocks"
  (`quantum-cli/src/process.rs:998-999`); it counts returns to the loop, and a chained
  loop never returns.
* `PeekMessageW` routes "through `take_quit` so the flag doesn't double-fire"
  (`user32.rs:453-455`), but looks first and takes under a second lock: two pumping
  threads can both get one quit.
* "We write `sentinel` into that slot so a clean `RET` from the guest's entry function
  exits the dispatcher loop cleanly" (`guest_stack.rs:53-55`). After a TLS callback of
  the main image RSP is 0x20 below that slot (`invoke_guest_function` subtracts 0x28, RET
  adds 8), so the entry function returns elsewhere; `init_side_module` resets RSP, this
  loop does not. Likewise `try_drm_int3_recover` resumes with the RSP handlers left.
* The crash sink is "per-thread" (`quantum-kernel32/src/process.rs:48`); the trap is, the
  record is not. A worker's fault can be dispatched as the main thread's, and a record a
  DLL left is dispatched if the guest exits with code 0xFFFFFFFE.
* `run_pe` "returns the exit code the guest passed to `ExitProcess`"
  (`quantum-cli/src/process.rs:63-65`); on a worker `ExitProcess` ends that thread only.
* A fault in a TLS callback or a window procedure that a handler continues is resumed in a
  loop of its own: when that function returns, the run is over.
* `DuplicateHandle` returns its source handle; "ours is Arc'd already"
  (`threads.rs:264-265`), but `CloseHandle` on one copy empties the slot of both.
* `LAST_ENTERED_RIP` is stored by the loop only ("if the guest faults inside that block
  we can still surface the source RIP", `quantum-cli/src/process.rs:21-23`); chained
  blocks, and other threads, are not told apart.
* The code cache is "a growable RWX region" (`codecache.rs:1`) of fixed size.
* `peek_message_inline` is to "read the head of the FIFO without consuming it"
  (`user32.rs:492-493`); it moves the head to the back.
* `pump_cocoa_event_into_queue` "translate[s] it into a pending MSG for the foreground
  window" (`user32.rs:405-407`); without a window filter the event is dropped.
* `SetFilePointer` without a high word takes a negative low word as unsigned
  (`file_io.rs:278`): it ends up 4 GiB past the place Win32 names. Nothing in the
  repository states the rule, so `PointersFollowTheGuest` leaves such a pointer out
  (`astray`) and no run contradicts it.
* `VirtualAlloc`: "We support RESERVE, COMMIT, and RESERVE|COMMIT uniformly"
  (`vm.rs:70-72`), but committing what was reserved maps the same pages again and fails.
  DECOMMIT does nothing; `VirtualProtect` reports READWRITE as the old protection.
* The heap's `(size + 15) & !15` wraps near `usize::MAX`. `HeapReAlloc` copies as many
  bytes as the *new* block has and does not zero what is added; `HeapSize` is 0x400.
* "A resolver returning `None` fails the wiring" (`imports.rs:73-76`); the resolver that
  `run_pe` passes answers 0 instead. A DLL whose imports do not parse stays loaded and
  unwired. An export of RVA 0 resolves to the image's base. An image without relocations
  is accepted at another base. A HIGHLOW pointer keeps the low half of its address when
  the image lies above 4 GiB. Thunks are read as 8 bytes in 32-bit images too.
  `finalize_protections` (`image.rs:158`) has no caller on this path.
* TLS callbacks are read after relocation by a parser that expects the preferred base
  (`tls.rs:13-16`, `quantum-cli/src/process.rs:288`): right only for images that did not
  move, which is a hypothesis of `AttachCallsWhatFilesDeclare`.
* "Unknown opcodes return `Op::Unhandled` with the correct byte length" (`docs/jit.md:40`);
  the length is that of the bytes read so far.
* A basic block is "instructions starting at `start_rip` and running until the first
  control-flow op" (`block.rs:131-132`). The window has 256 bytes at most
  (`quantum-cli/src/process.rs:1031`). Where it ends between two instructions the block is
  what it holds, its last instruction gets no code (`block.rs:205`) and the dispatcher is
  stopped. `BlockEndsWithProgram` says so of exactly these blocks.
* `ret imm16` adds 8 and the immediate to RSP by one ADD (`block.rs:237`); a sum above 4095
  that is no multiple of 4096 panics in `add64_imm`. An indirect jump through memory leaves
  a positive displacement to the load, whatever its alignment and size: the dev build
  panics. In 32-bit code RET and CALL use 8-byte slots.
* "`finish()` panics if any label is still unbound", "`bind` patches them"
  (`emitter.rs:19-21`): `finish` patches, returns an error, and then has lost the fixups.
  `isb` has CRm 0 where its comment says 15 (`emitter.rs:1284`).
* A clear packs "into BGRA8 byte order (matches Metal's RGBA8Unorm / BGRA8Unorm ...)"
  (`d3d11.rs:862-864`): in RGBA8 textures red and blue are exchanged, hence the premise of
  `ClearShowsTheColour`. "RTVs are always wrapped around BGRA/RGBA family" (`:890`) is not
  enforced. Overlapping first `GetBuffer` calls can hand out two textures.
* `prev + release_count` (`threads.rs:164`) is an `i32` sum that can overflow, and a
  negative count is accepted; the models pass counts within the Win32 contract.
* A thread that exits owning a mutex leaves it owned; WAIT_ABANDONED is never returned.
  A fault inside a thunk jumps out of host code that may hold a lock.

### Fairness

Liveness is checked under weak fairness of the steps a thread takes *inside* a thunk
or the dispatcher loop: the host scheduler runs a runnable thread. Nothing is assumed
of the guest (it may never leave a section or release a mutex), of time (timeouts may
never expire) or of spurious wake-ups. For the queues fairness is per pumping thread
over all of its steps, so no progress rests on AppKit having an event. In `ProcessLife`
it covers the start and the end of a worker, not its guest code.

## Proofs

The theorems hold for every value of the constants that the named assumptions of the
modules admit; TLC evaluates those assumptions in the runs. For `HandleTable` and
`ProcessLife` they are the definition `ConstantsFit`, a hypothesis of each theorem that
`MCResources` and `MCProcessLife` ASSUME. In each proof module the invariant comes first,
then one lemma per action (`...Step`), then the theorems.
A leaf that cites `SMT, Z3` is given to the second when the first runs out of time.

| Module | Theorems (property of a run) |
|---|---|
| `GuestThreadsProofs` | `Exclusion` (`MutualExclusion`), `Refinement` (`ImplementsLock`), `TypeCorrect`, `CountExact`, `ReentrySound`; `WindowStateSound` (`WindowStateIsSound`), `OrderKept` (`HandedOutInOrder`) |
| `KernelObjectsProofs` | `Ownership` (`OwnershipIsWhatWasGranted`), `OneReleasePerSignal` (`SignalReleasesAtMostOne`), `WakeupsArrive` (`NoLostWakeup`), `PermitsServed` (`PermitsAreServed`), `MutexRefinement` (`EveryMutexIsALock`) |
| `HandleFileProofs` | `HandlesFindObjects` (`OpenHandleFindsItsObject`), `DescriptorsKept` (`DescriptorsStayWithTheirFile`); `PointersFollow` (`PointersFollowTheGuest`), `ChangesAreWrites` (`FilesChangeByWriting`) |
| `GuestMemoryProofs` | `HeapDisjointAlways` (`HeapBlocksDisjoint`), `PagesHeldOnceAlways` (`EveryPageHeldOnce`), `BytesKeptAlways` (`BlocksKeepTheirBytes`) |
| `DispatcherProofs` | `ChainsSound` (`ChainsLeadHome`), `Refinement` (`RunsTheProgram`), `TypeCorrect` |
| `ProcessStacks`, `ProcessSteps`, `ProcessLifeProofs` | `LongjmpIsSafe` (`LongjmpLandsLive`), `ExitCodeReported` (`ExitCodeIsMains`), `FaultDispatched` (`SehSeesItsFault`), `SentinelStays` (`GuestReturnsToSentinel`) |

**Critical section.** Any set of threads, nesting bound and counter width with
`MaxDepth < U32Max` and a `NoThread` that is no thread id (thread ids are non-zero Mach
port names). Mutual exclusion alone does not exclude a thread on the re-entry path that
holds nothing. `IInv` adds that the count is the depth of the *only* holder, what each `pc`
implies about the thread's depth, and the key fact that the owner field names a thread only
while that thread holds the section or is about to clear the field. The late clear may
erase an owner, but never leaves one behind.

**Message queues.** Any number of threads, windows, messages and quits. That the sets of
queued, held, received and dropped messages partition the posted ones is not inductive: a
set does not say that a message sits in a queue *once*, nor what a pumper that is putting a
message back will do to it. The proof therefore speaks of `Sits(m, h, i)`, message m at
place i of the queue of window h. `PlacesOK` says that a message has at most one place,
that what is queued or in a pumper's hand is nowhere else, and that none is lost;
`PumpersOK` that a message is in hand exactly between the pop and the push of a
`PM_NOREMOVE` peek; `SortedOK` that the queue of a window no such peek has popped from is
in posting order. Each change of a queue (a push, a pop, a queue discarded with its window)
is one lemma about places; the thunks cite it, and order follows because the popped message
is at place 1.

**Kernel objects.** Any number of threads, events, mutexes and semaphores and any wait
lists. The invariant adds to the properties that a mutex is owned exactly while its
recursion is not zero, and restates the wake-up properties sleeper by sleeper: whoever
sleeps on a signaled event has a setter that is still to notify; whoever sleeps on a free
mutex has another thread awake that will look at it (unless a timed wait took the
notification with it, `stolen`); nobody sleeps on a semaphore with permits. `SetEvent`
notifies after it has unlocked, which is why the setter appears in the invariant.

**Handles.** Any number of threads, objects, slots and descriptors, and any handle word
that has room for the slot indices. `UnpackPack` shows that the index and generation of a
handle are those it was packed from. The invariant adds that a descriptor is in one slot,
that a `CreateFile` call between `open` and `insert` has a descriptor and an object of its
own, that no descriptor leaks, and that without `DuplicateHandle` every open handle is the
one of its object's slot.

**Files.** Any paths, contents, word size and bounds. `FilesInv` adds that a descriptor has
the host flags of the access it was opened with and that its file is there. `PointersFollow`
rests on `DistanceIsMeant`: the 64-bit distance the code joins is the one Win32 means,
whenever a high word is given or the low word is not negative. A file moved otherwise is
`astray`, and the lemma brings it back when it is next moved from its beginning or end; the
other files' pointers are untouched. That a file
changes by writing only rests on the flags: a `write` needs the host's write access, which
`AccessFlags` gives to `GENERIC_WRITE` alone. The property also allows the two dispositions
that empty a file; with the numbers the code passes they never do (see `FileDisposition`).

**Memory.** Any number of threads, page count and size, arena, `usize` width (larger than
the arena by 16) and set of request sizes. Disjointness of the heap's blocks is not
inductive: a `HeapReAlloc` that has left the lock still writes. `HeapInv` adds that every
such block ends at or before the bump pointer and that those of two threads are apart. A
request whose rounding wraps gets a pointer with nothing behind it; the theorem is about
all other blocks, while such requests are made. `PageInv` says that a page is mapped
exactly if the arena, one entry of the table or one call holds it: a `VirtualAlloc` from its
mapping to its entry in the table, while it sets the protection included, or a `VirtualFree`
between the removal of the entry and its `munmap`. `GivenBackKeeps` is the refusal of the protection. `MemoryInv` is both. `ByteInv` adds that the known bytes of a block are
there, that a block that wraps has none, and that a reallocation copies upwards, so that an
overlapping copy spoils nothing; it rests on the disjointness that `MemoryInv` gives.

**Dispatcher.** Any guest program, set of threads, cache size, iteration limit and outcome
of the branch-range test. Every pointer into the cache, wherever it is held (the map, a
patched exit, a thread about to enter a block), leads to the block of the address it stands
for, and a placeholder waits for the target of its own edge. This survives two threads
translating the same address, because installing only appends to the cache and patching
only changes exits. `Refinement`: if every block that ends in a conditional branch writes
its own flags (`SelfContained`), each thread walks the control-flow graph as `GuestProgram`
says. The hypothesis is necessary, as `DispatcherFlags` shows.

**Process life.** Any number of workers, DLLs, callbacks, handlers and attempts, and any
nesting. That `longjmp` lands in a live trap needs to know where *saved* `ExitState`s point:
`Nested` says that the state of a thread describes the traps on its stack, and that what a
trap has saved describes the frames below it; `Placed` says what may stand on what. The
other conjuncts relate the bottom of the main stack to the phase of `run_pe_with_dir`, say
that no outcome exists while a run lasts, that the crash record of a phase is the one of
the last fault (unless another thread or a DLL wrote it), and where RSP and the sentinels
are. `ProcessStacks` holds the invariant and what pushing, popping and cutting a stack does
to it; `ProcessSteps` the steps of guest code; `ProcessLifeProofs` the steps of
`run_pe_with_dir` and the workers, and the theorems.

### Only model-checked

* Liveness (`SectionIsTaken`, `QuitEndsTheWait`, `AvailableIsServed`, `LoopMovesOn`,
  `WorkersAreReported`): fairness and ENABLED are outside the prover's reach.
* The translator, whose models compute with recursive operators and bit sets, and the hash
  of `Direct3D`: what a recursive definition computes for every input is induction over
  data. The types of `ProcessLife`'s handler lists, which `SelectSeq` filters, are of this
  kind too.
* `ImageLoader` and `Direct3D` (`ImportsReachTheirFunction`, `ImagesAreWhole`,
  `AttachCallsWhatFilesDeclare`, `LoadingConverges`, `ShaderHasItsCode`,
  `TexturesAreTheGuests`): their properties are about what parsers, relocation and packing
  compute from the files and colours of an instance.
* The runs that contradict the code's text: a counterexample is their result.

## Not modelled

* Sockets (`ws2_32.rs`), audio (`winmm.rs`), AppKit (`cocoa.rs`) and console output:
  pass-through calls whose state is the host's. What the thunks see of AppKit and Metal is
  in `MessageQueue` and `Direct3D`.
* The C runtime, registry, NT and other stubs (`msvcrt.rs`, `advapi32.rs`, `ntdll.rs`,
  `stubs.rs`, `misc_win.rs`, `steam.rs`): constant answers and pure functions on text or
  floating point. TLS slots are an array that each thread writes and reads; their indices
  are handed out by one `fetch_add` and never recycled.
* Module handles (`modules.rs`): fixed tables. `GetProcAddress` answers from the stub
  table for DLLs that the import resolver does have functions for, and
  `GetModuleHandle(NULL)` is kernel32's; there is no state to check.
* Direct3D: the draw-state setters (plain stores that no draw reads), buffers, `Present`
  and reference counts (one counter for all objects that frees nothing). The shader
  emitter (`dxbc.rs`) produces text for another compiler; saying what that text means
  would need a model of Metal's language.
* Floating-point values; the 32-bit guest's call path; `QUANTUM_SKIP_DLL_INIT`.
* Delay imports, resources, debug and load-config directories: parsed for display.
  Unwind codes (`exception.rs`) are read to find a handler, which `ProcessLife` leaves
  open.
* Clocks (`time.rs`), the PEB's constant layout, argument handling, `LastError`, path
  translation, message contents.
* Invalid handles passed to waits; faults inside thunks; the host's memory model below
  sequential consistency.
