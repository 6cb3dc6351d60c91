---------------------------- MODULE ImageLoader ----------------------------
(***************************************************************************)
(* Bringing a program into memory (quantum-cli/src/process.rs, run_pe_with_ *)
(* dir and what it calls before the guest runs): the executable and, found *)
(* through its imports and theirs, the DLLs that lie beside it are mapped, *)
(* relocated and wired to each other and to the built-in functions.        *)
(***************************************************************************)
EXTENDS PeImage, TLC

CONSTANTS
    Worlds,         \* the worlds to start from: [main, dlls: stem -> file, taken: pages the
                    \* host uses]
    Builtins,       \* external: DLL stem -> function -> host address (thunks.rs)
    BuiltinNames    \* the stems has_builtin lists

VARIABLES
    world,     \* which of the worlds this is
    pc,        \* how far run_pe_with_dir is
    vm,        \* the page map
    main,      \* the executable's image, once mapped
    mods,      \* side_modules, in load order
    work,      \* load_side_dlls' stack of names
    seen,      \* and the names it has popped
    at,        \* index of the side module being wired or initialised
    calls      \* the guest functions the loader has called: [image, va]

vars == <<world, pc, vm, main, mods, work, seen, at, calls>>

W == Worlds[world]

NoImage == [base |-> Null, size |-> 0]

(* The pages the host process already uses.                                 *)
HostPages == [p \in Page |-> IF p \in W.taken THEN host_vm_prot("RW") ELSE Free]

Init ==
    /\ world \in DOMAIN Worlds
    /\ pc = "map"
    /\ vm = HostPages
    /\ main = NoImage
    /\ mods = <<>>
    /\ work = <<>>
    /\ seen = {}
    /\ at = 1
    /\ calls = <<>>
-----------------------------------------------------------------------------
(* thunks.rs:7-95: the DLL's name in any case, the function's exactly.      *)
resolve(dll, fn) ==
    IF Lower(dll)[1] \in DOMAIN Builtins /\ fn \in DOMAIN Builtins[Lower(dll)[1]]
    THEN Builtins[Lower(dll)[1]][fn] ELSE Null

(* process.rs:499-529.                                                      *)
has_builtin(name) == name[1] \in BuiltinNames

(* process.rs:77-104: an export by name or by ordinal; a forwarder is not   *)
(* followed.                                                                *)
EntryFor(exports, fn) ==
    IF fn[1] = "ordinal" THEN fn[2] - exports.base + 1
    ELSE LET hits == {i \in DOMAIN exports.names : exports.names[i].name = fn[2]}
         IN  IF hits = {} THEN 0 ELSE exports.names[Min(hits)].ordinal - exports.base + 1

resolve_in_PreferredBase(mod, fn) ==
    LET i == EntryFor(mod.exports, fn)
    IN  IF i \notin DOMAIN mod.exports.entries \/ mod.exports.entries[i].fwd THEN Null
        ELSE mod.image.preferred + mod.exports.entries[i].rva

resolve_in(mod, fn) ==
    LET i == EntryFor(mod.exports, fn)
    IN  IF i \notin DOMAIN mod.exports.entries \/ mod.exports.entries[i].fwd THEN Null
        ELSE mod.image.base + mod.exports.entries[i].rva

(* process.rs:218-245 and 578-593: a built-in function first, then the side *)
(* module of that name.                                                     *)
resolver(dll, fn) ==
    LET peers == {i \in DOMAIN mods : mods[i].name = Lower(dll)}
    IN  IF resolve(dll, fn) # Null THEN resolve(dll, fn)
        ELSE IF peers = {} THEN Null ELSE resolve_in(mods[Min(peers)], fn)

(* imports.rs:77-106: each slot in turn gets the resolver's answer, or 0;   *)
(* a slot outside the image ends the walk with the earlier ones written.    *)
Wire(run, dll, entry) ==
    IF ~run.ok \/ ~InImage(run.image, entry.slot, 1) THEN [run EXCEPT !.ok = FALSE]
    ELSE [run EXCEPT !.image.cells[entry.slot] = Ptr(resolver(dll, entry.fn))]

wire_iat(image, dlls) ==
    FoldLeft(LAMBDA run, d :
                FoldLeft(LAMBDA r, e : Wire(r, d.name, e), run, d.entries),
             [ok |-> TRUE, image |-> image], dlls)
-----------------------------------------------------------------------------
(* process.rs:540-562: any error of the executable ends the run, and every  *)
(* image is dropped.                                                        *)
Fail ==
    /\ pc' = "failed" /\ vm' = HostPages /\ main' = NoImage /\ mods' = <<>>
    /\ UNCHANGED <<world, work, seen, at, calls>>

MapMain ==
    /\ pc = "map"
    /\ \/ ~parse(W.main) /\ Fail
       \/ /\ parse(W.main)
          /\ \E r \in load(vm, W.main) :
                \/ ~r.ok /\ Fail
                \/ /\ r.ok /\ vm' = r.vm /\ main' = r.image
                   /\ pc' = "relocate"
                   /\ UNCHANGED <<world, mods, work, seen, at, calls>>

(* process.rs:561-562 and 119-127: the names of the executable's imports.   *)
NamesOf(imports) == [k \in DOMAIN imports.dlls |-> Lower(imports.dlls[k].name)]

RelocateMain ==
    /\ pc = "relocate"
    /\ LET r == apply(main)
           imp == parse_imports(r.image)
       IN  IF r.ok /\ imp.ok
           THEN /\ main' = r.image
                /\ work' = NamesOf(imp)
                /\ pc' = "side"
                /\ UNCHANGED <<world, vm, mods, seen, at, calls>>
           ELSE Fail

(* process.rs:131-139, 180-188: the names a loaded module adds to the stack. *)
NewWork(image) ==
    LET imp == parse_imports(image)
    IN  IF imp.ok THEN SelectSeq(NamesOf(imp), LAMBDA n : n \notin seen') ELSE <<>>

(* process.rs:129-197: one name is popped.  A name seen before, a built-in, *)
(* a missing file, and every failure on the way to the exports drop it, and *)
(* with it the region it was mapped in.                                     *)
SideDll_Forgets ==
    /\ pc = "side" /\ work # <<>>
    /\ LET name == Last(work)
           file == W.dlls[name[1]]
       IN  /\ seen' = seen
           /\ IF has_builtin(name) \/ name[1] \notin DOMAIN W.dlls
                 \/ ~parse(W.dlls[name[1]])
              THEN work' = Front(work) /\ UNCHANGED <<vm, mods>>
              ELSE \E r \in load(vm, file) :
                     LET fixed == apply(r.image)
                         exports == parse_exports(fixed.image)
                     IN  IF r.ok /\ fixed.ok /\ exports.ok
                         THEN /\ vm' = r.vm
                              /\ mods' = Append(mods, [name |-> name, image |-> fixed.image,
                                                       exports |-> exports])
                              /\ work' = Front(work) \o NewWork(fixed.image)
                         ELSE /\ work' = Front(work) /\ UNCHANGED mods
                              /\ vm' = IF r.ok THEN munmap(r.vm, r.image.base, r.image.size)
                                       ELSE r.vm
    /\ UNCHANGED <<world, pc, main, at, calls>>

SideDll ==
    /\ pc = "side" /\ work # <<>>
    /\ LET name == Last(work)
           file == W.dlls[name[1]]
       IN  /\ seen' = seen \cup {name}
           /\ IF name \in seen \/ has_builtin(name) \/ name[1] \notin DOMAIN W.dlls
                 \/ ~parse(W.dlls[name[1]])
              THEN work' = Front(work) /\ UNCHANGED <<vm, mods>>
              ELSE \E r \in load(vm, file) :
                     LET fixed == apply(r.image)
                         exports == parse_exports(fixed.image)
                     IN  IF r.ok /\ fixed.ok /\ exports.ok
                         THEN /\ vm' = r.vm
                              /\ mods' = Append(mods, [name |-> name, image |-> fixed.image,
                                                       exports |-> exports])
                              /\ work' = Front(work) \o NewWork(fixed.image)
                         ELSE /\ work' = Front(work) /\ UNCHANGED mods
                              /\ vm' = IF r.ok THEN munmap(r.vm, r.image.base, r.image.size)
                                       ELSE r.vm
    /\ UNCHANGED <<world, pc, main, at, calls>>

SideDone ==
    /\ pc = "side" /\ work = <<>>
    /\ pc' = "wire" /\ at' = 1
    /\ UNCHANGED <<world, vm, main, mods, work, seen, calls>>

(* process.rs:207-272: one module's own address table.  Imports that cannot *)
(* be parsed, or a slot outside the image, leave it loaded.                 *)
WireSide ==
    /\ pc = "wire" /\ at <= Len(mods)
    /\ LET imp == parse_imports(mods[at].image)
       IN  mods' = IF imp.ok
                   THEN [mods EXCEPT ![at].image = wire_iat(@, imp.dlls).image]
                   ELSE mods
    /\ at' = at + 1
    /\ UNCHANGED <<world, pc, vm, main, work, seen, calls>>

(* process.rs:576-624: the executable's own table, last, and then its       *)
(* exception table, which must be sound too.                                *)
WireMain ==
    /\ pc = "wire" /\ at > Len(mods)
    /\ LET w == wire_iat(main, parse_imports(main).dlls)
       IN  IF w.ok /\ parse_exceptions(w.image)
           THEN /\ main' = w.image /\ pc' = "init" /\ at' = 1
                /\ UNCHANGED <<world, vm, mods, work, seen, calls>>
           ELSE Fail

(* process.rs:281-341: the TLS callbacks of a module, then its entry; a     *)
(* directory that cannot be parsed is skipped.                              *)
Attach_NoCallbacks(image, with_entry) ==
    IF with_entry /\ image.entry # 0 THEN <<image.base + image.entry>> ELSE <<>>

Attach(image, with_entry) ==
    LET tls == parse_tls(image)
        cbs == IF tls.ok THEN [k \in DOMAIN tls.callbacks |-> image.base + tls.callbacks[k]]
               ELSE <<>>
    IN  IF with_entry /\ image.entry # 0 THEN Append(cbs, image.base + image.entry) ELSE cbs

InitSide ==
    /\ pc = "init" /\ at <= Len(mods)
    /\ calls' = calls \o Attach(mods[at].image, TRUE)
    /\ at' = at + 1
    /\ UNCHANGED <<world, pc, vm, main, mods, work, seen>>

(* process.rs:678-695: the executable's callbacks, then its entry point.    *)
Enter ==
    /\ pc = "init" /\ at > Len(mods)
    /\ calls' = calls \o Attach(main, FALSE) \o <<main.base + main.entry>>
    /\ pc' = "run"
    /\ UNCHANGED <<world, vm, main, mods, work, seen, at>>

Next ==
    \/ MapMain \/ RelocateMain \/ SideDll \/ SideDone \/ WireSide \/ WireMain
    \/ InitSide \/ Enter

Spec == Init /\ [][Next]_vars
-----------------------------------------------------------------------------
(* The state of a load in progress.                                         *)
TypeOK ==
    /\ pc \in {"map", "relocate", "side", "wire", "init", "run", "failed"}
    /\ vm \in [Page -> {Free, host_vm_prot("RW")}]
    /\ pc \in {"map", "failed"} <=> main = NoImage
    /\ pc # "failed" => at \in 1 .. Len(mods) + 1

(* What is loaded, each with the file it came from.                         *)
Loaded ==
    (IF main = NoImage THEN <<>> ELSE <<[image |-> main, file |-> W.main]>>)
        \o [i \in DOMAIN mods |-> [image |-> mods[i].image, file |-> W.dlls[mods[i].name[1]]]]

AsMapped(m) == [m.image EXCEPT !.cells = Contents(m.file)]

Holds(image, va, cell) ==
    va >= image.base /\ va < image.base + image.size /\ image.cells[va - image.base] = cell

(* The value a wired slot may have: the built-in function's address; else,  *)
(* where the DLL was loaded and exports the function, the address at which  *)
(* that very function now lies; else 0.                                     *)
Reaches(dll, fn, va) ==
    IF resolve(dll, fn) # Null THEN va = resolve(dll, fn)
    ELSE LET stem == Lower(dll)[1]
             peer == {i \in DOMAIN mods : mods[i].name = Lower(dll)}
         IN  IF peer = {} \/ fn \notin DOMAIN W.dlls[stem].exported THEN va = Null
             ELSE \E i \in peer :
                     Holds(mods[i].image, va, Fn(stem, W.dlls[stem].exported[fn]))

(* Once the program starts, every import of the executable and of every     *)
(* side DLL, by name or by ordinal, through cycles of imports and whichever *)
(* bases the images got, leads to the function it names in a module that is *)
(* still mapped, or is 0 when nothing provides it (imports.rs:77-106,       *)
(* process.rs:207-272).                                                     *)
ImportsReachTheirFunction ==
    pc \in {"init", "run"} =>
        \A m \in Range(Loaded) :
            LET imp == parse_imports(AsMapped(m))
            IN  imp.ok => \A d \in Range(imp.dlls) : \A e \in Range(d.entries) :
                    /\ Is(m.image.cells[e.slot], "ptr")
                    /\ Reaches(d.name, e.fn, m.image.cells[e.slot][2])

(* reloc.rs:30-135: in every loaded image that has relocations, each        *)
(* pointer of the file now points to the same cell of the image, whatever   *)
(* base it got; an image whose relocation failed half way is not loaded.  A *)
(* pointer of four bytes holds the low half of that address.                *)
PointersFollowTheImage ==
    pc # "relocate" =>
        \A m \in Range(Loaded) : Present(m.file.dirs["RELOC"]) =>
            \A r \in m.file.pointers :
                LET was == Contents(m.file)[r]
                    va == (was[2] - m.file.base) + m.image.base
                IN  m.image.cells[r] = IF Is(was, "ptr32") THEN Ptr32(va % PtrMod) ELSE Ptr(va)

(* process.rs:131-197, image.rs:189-258: a mapped page belongs to the host  *)
(* or to exactly one loaded image; a DLL that is given up at any step gives *)
(* its pages back.                                                          *)
PagesBelongToImages ==
    LET images == (IF main = NoImage THEN <<>> ELSE <<main>>)
                      \o [i \in DOMAIN mods |-> mods[i].image]
        own == [i \in DOMAIN images |-> PagesOf(images[i].base, images[i].size)]
    IN  /\ \A p \in Page : vm[p] # Free <=> p \in W.taken \/ \E i \in DOMAIN own : p \in own[i]
        /\ \A i \in DOMAIN own : own[i] \cap W.taken = {}
        /\ \A i, j \in DOMAIN own : i # j => own[i] \cap own[j] = {}

(* process.rs:115-197: when the program starts, every DLL that a loaded     *)
(* image imports, that is not built in and whose file is sound, has been    *)
(* loaded, once.                                                            *)
DependenciesAreLoaded ==
    pc \in {"wire", "init", "run"} =>
        /\ \A m \in Range(Loaded) :
              LET imp == parse_imports(AsMapped(m))
              IN  imp.ok => \A d \in Range(imp.dlls) :
                     LET n == Lower(d.name)
                     IN  \/ has_builtin(n) \/ n[1] \notin DOMAIN W.dlls
                         \/ ~W.dlls[n[1]].sound
                         \/ \E i \in DOMAIN mods : mods[i].name = n
        /\ \A i, j \in DOMAIN mods : mods[i].name = mods[j].name => i = j

(* The functions the files say are to be called, callbacks before entries,  *)
(* side modules in load order before the executable.                        *)
Declared(image, file, with_entry) ==
    LET cbs == [k \in DOMAIN file.callbacks |-> image.base + file.callbacks[k]]
    IN  IF with_entry /\ file.entry # 0 THEN Append(cbs, image.base + file.entry) ELSE cbs

AllDeclared ==
    FlattenSeq([i \in DOMAIN mods |->
                   Declared(mods[i].image, W.dlls[mods[i].name[1]], TRUE)])
        \o Declared(main, W.main, FALSE) \o <<main.base + main.entry>>

(* process.rs:281-341, 678-695: with every image that has TLS callbacks at  *)
(* its preferred base, the loader calls exactly the callbacks and entry     *)
(* points the files declare, each once and in order, before the program.    *)
AttachCallsWhatFilesDeclare ==
    pc = "run" /\ (\A m \in Range(Loaded) : m.file.callbacks = <<>> \/ m.image.base = m.file.base)
        => calls = AllDeclared

(* process.rs:129-197: however the DLLs import each other, loading them     *)
(* ends: every name popped is a new one, of which there are finitely many,  *)
(* or leaves the stack shorter.                                             *)
Converges ==
    pc = "side" /\ pc' = "side" =>
        \/ seen \subseteq seen' /\ seen # seen'
        \/ seen' = seen /\ Len(work') < Len(work)
=============================================================================
