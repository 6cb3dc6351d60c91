------------------------------ MODULE PeImage ------------------------------
(***************************************************************************)
(* One PE image in memory (quantum-loader): mapping its file, applying its *)
(* base relocations, and reading its import, export, TLS and exception     *)
(* directories.                                                            *)
(*                                                                         *)
(* An image is a function from relative addresses to cells.  A cell is one *)
(* item a directory is made of (a descriptor, a thunk, a table entry, a    *)
(* string, a function's first instruction), whatever its size in bytes, so *)
(* every loop, bound and early return of the parsers is here and their byte *)
(* offsets are not.                                                        *)
(***************************************************************************)
EXTENDS GuestVm, Sequences, SequencesExt, FiniteSets, FiniteSetsExt

CONSTANTS MaxImage,   \* bound: cells; stands for the 2 GiB of image.rs:191
          PtrMod      \* 2^32: what a 4-byte pointer counts

(* The kinds of cell.  Ptr has eight bytes and Ptr32 four.  Rel heads a     *)
(* block of n Ent cells; Exp is the export directory, whose three arrays    *)
(* hold Rva and Ord cells.                                                  *)
Zero == <<"zero">>
Ptr(va) == <<"ptr", va>>
Ptr32(va) == <<"ptr32", va>>
Str(name) == <<"str", name>>
Fn(dll, name) == <<"fn", dll, name>>
Desc(ilt, name, iat) == <<"desc", ilt, name, iat>>
Thunk(rva) == <<"thunk", rva>>
ByOrdinal(k) == <<"byordinal", k>>
Rel(page, n) == <<"rel", page, n>>
Ent(type, off) == <<"ent", type, off>>
Exp(base, funcs, nf, names, ords, nn) == <<"exp", base, funcs, nf, names, ords, nn>>
Rva(r) == <<"rva", r>>
Ord(k) == <<"ord", k>>
Tls(callbacks) == <<"tls", callbacks>>

Is(cell, kind) == cell[1] = kind

(* A directory entry; image.rs:149-154 ignores one with a zero field.       *)
(* `rest` is what its size in bytes leaves beyond whole items.              *)
NoDir == [va |-> 0, size |-> 0]
Dir(va, size) == [va |-> va, size |-> size]
DirInBytes(va, size, rest) == [va |-> va, size |-> size, rest |-> rest]
data_dir(image, index) == image.dirs[index]
Present(d) == d.va # 0 /\ d.size # 0

(* image.rs:124-142.                                                        *)
InImage(image, rva, len) == rva >= 0 /\ rva + len <= image.size

(* A function's name or ordinal, as an import asks for it.                  *)
Named(name) == <<"name", name>>
Ordinal(k) == <<"ordinal", k>>

(* A DLL's name and its case: names are compared lower-cased.               *)
Lower(name) == <<name[1], "lower">>

Bad == [ok |-> FALSE]
-----------------------------------------------------------------------------
(* pe.rs:101-162, 164-217: what the headers must satisfy.  `header` names   *)
(* the first field that is missing or wrong, if any.                        *)
parse(file) == file.header = "good" /\ file.table_end <= Len(file.raw)

(* image.rs:260-299: a section past the image, or past the file, is an      *)
(* error; what the file does not supply is zero.                            *)
SectionFits(file, s) ==
    /\ s.rva + Max({s.vsize, s.raw}) <= file.size
    /\ s.raw > 0 => s.off + s.raw <= Len(file.raw)

copy_section(cells, file, s) ==
    [r \in DOMAIN cells |->
        IF r >= s.rva /\ r < s.rva + s.raw THEN file.raw[s.off + (r - s.rva) + 1]
        ELSE IF r >= s.rva + s.raw /\ r < s.rva + s.vsize THEN Zero ELSE cells[r]]

(* image.rs:189-258: the contents, header cells first, then each section.   *)
Contents(file) ==
    FoldLeft(LAMBDA cells, s : copy_section(cells, file, s),
             [r \in 0 .. file.size - 1 |->
                 IF r < Min({file.headers, Len(file.raw)}) THEN file.raw[r + 1] ELSE Zero],
             file.sections)

(* image.rs:189-258: at the preferred base if the kernel grants it, else    *)
(* anywhere; every error gives the region back.                             *)
load(vm, file) ==
    IF file.size = 0 \/ file.size > MaxImage THEN {[ok |-> FALSE, vm |-> vm]}
    ELSE UNION {
        LET rs == IF first.ok THEN {first} ELSE allocate(vm, Null, file.size)
        IN {IF /\ r.ok
               /\ file.headers <= file.size
               /\ \A i \in DOMAIN file.sections : SectionFits(file, file.sections[i])
            THEN [ok |-> TRUE, vm |-> r.vm,
                  image |-> [preferred |-> file.base, base |-> r.base, size |-> file.size,
                             entry |-> file.entry, dirs |-> file.dirs, cells |-> Contents(file)]]
            ELSE [ok |-> FALSE, vm |-> vm] : r \in rs} :
        first \in allocate(vm, file.base, file.size)}
-----------------------------------------------------------------------------
(* reloc.rs:102-123: DIR64 adds the delta to eight bytes, HIGHLOW its low   *)
(* four bytes to the low four, each without a carry out.                    *)
Rebased(type, va, delta) ==
    IF type = "DIR64" THEN va + delta
    ELSE (va - (va % PtrMod)) + (((va % PtrMod) + (delta % PtrMod)) % PtrMod)

(* reloc.rs:90-127: one entry; a failure leaves the earlier ones applied.   *)
(* Only cells that hold an address matter; none of four bytes is named by a *)
(* DIR64 entry.                                                             *)
Relocate(run, page, ent, delta) ==
    LET target == page + ent[3]
    IN  IF ~run.ok \/ ent[2] = "ABSOLUTE" THEN run
        ELSE IF ent[2] \notin {"DIR64", "HIGHLOW"} \/ ~InImage(run.image, target, 1)
        THEN [run EXCEPT !.ok = FALSE]
        ELSE IF run.image.cells[target][1] \in {"ptr", "ptr32", "tls"}
        THEN [run EXCEPT !.image.cells[target][2] = Rebased(ent[2], @, delta)]
        ELSE run

(* reloc.rs:41-135: the cursors of the block headers, each read only when   *)
(* the one before it was sound.                                             *)
BlockAt(image, c) == Is(image.cells[c], "rel")
BlockEnd(image, c) == c + 1 + image.cells[c][3]

Blocks(image, d) ==
    LET end == d.va + d.size
        walk[n \in 0 .. d.size] ==
            IF n = 0 THEN [at |-> d.va, ok |-> TRUE, blocks |-> <<>>]
            ELSE LET w == walk[n - 1] IN
                 IF ~w.ok \/ w.at >= end THEN w
                 ELSE IF ~InImage(image, w.at, 1) \/ ~BlockAt(image, w.at)
                        \/ image.cells[w.at][3] < 0 \/ BlockEnd(image, w.at) > end
                        \/ ~InImage(image, w.at, 1 + image.cells[w.at][3])
                 THEN [w EXCEPT !.ok = FALSE]
                 ELSE [at |-> BlockEnd(image, w.at), ok |-> TRUE,
                       blocks |-> Append(w.blocks, w.at)]
    IN  walk[d.size]

Entries(image, blocks) ==
    FlattenSeq([b \in DOMAIN blocks |->
        [k \in 1 .. image.cells[blocks[b]][3] |->
            <<image.cells[blocks[b]][2], image.cells[blocks[b] + k]>>]])

(* reloc.rs:30-135.  Entries of the sound blocks before a bad one are       *)
(* applied before the error is returned.                                    *)
apply_HalfDelta(image) ==
    IF image.base = image.preferred \/ ~Present(data_dir(image, "RELOC"))
    THEN [ok |-> TRUE, image |-> image]
    ELSE LET w == Blocks(image, data_dir(image, "RELOC"))
             r == FoldLeft(LAMBDA run, e : Relocate(run, e[1], e[2], image.base),
                           [ok |-> TRUE, image |-> image], Entries(image, w.blocks))
         IN  [r EXCEPT !.ok = @ /\ w.ok]

apply(image) ==
    IF image.base = image.preferred \/ ~Present(data_dir(image, "RELOC"))
    THEN [ok |-> TRUE, image |-> image]
    ELSE LET w == Blocks(image, data_dir(image, "RELOC"))
             r == FoldLeft(LAMBDA run, e : Relocate(run, e[1], e[2], image.base - image.preferred),
                           [ok |-> TRUE, image |-> image], Entries(image, w.blocks))
         IN  [r EXCEPT !.ok = @ /\ w.ok]
-----------------------------------------------------------------------------
(* imports.rs:168-234: the thunks up to the first zero one, from the lookup *)
(* table or, when there is none, from the address table itself.             *)
ThunkSound(image, c) ==
    \/ Is(c, "byordinal")
    \/ Is(c, "thunk") /\ InImage(image, c[2], 1) /\ Is(image.cells[c[2]], "str")

ImportOf(image, c) == IF Is(c, "byordinal") THEN Ordinal(c[2]) ELSE Named(image.cells[c[2]][2])

parse_thunk_array(image, ilt, iat) ==
    LET array == IF ilt # 0 THEN ilt ELSE iat
        stop == {k \in 0 .. image.size :
                    ~InImage(image, array + k, 1) \/ image.cells[array + k] = Zero}
        n == Min(stop)
    IN  IF array = 0 THEN [ok |-> TRUE, entries |-> <<>>]
        ELSE IF ~InImage(image, array + n, 1)
                \/ \E k \in 0 .. n - 1 : ~ThunkSound(image, image.cells[array + k])
        THEN Bad
        ELSE [ok |-> TRUE,
              entries |-> [k \in 1 .. n |->
                  [fn |-> ImportOf(image, image.cells[array + k - 1]), slot |-> iat + k - 1]]]

(* imports.rs:108-154: descriptors up to an all-zero one, which must lie    *)
(* inside the directory.                                                    *)
parse_imports(image) ==
    LET d == data_dir(image, "IMPORT")
        n == Min({k \in 0 .. d.size : k = d.size \/ ~InImage(image, d.va + k, 1)
                                        \/ image.cells[d.va + k] = Zero})
        at(k) == image.cells[d.va + k - 1]
        thunks(k) == parse_thunk_array(image, at(k)[2], at(k)[4])
    IN  IF ~Present(d) THEN [ok |-> TRUE, dlls |-> <<>>]
        ELSE IF \/ n = d.size \/ ~InImage(image, d.va + n, 1)
                \/ \E k \in 1 .. n : \/ ~Is(at(k), "desc")
                                     \/ ~InImage(image, at(k)[3], 1)
                                     \/ ~thunks(k).ok
        THEN Bad
        ELSE [ok |-> TRUE,
              dlls |-> [k \in 1 .. n |-> [name |-> image.cells[at(k)[3]][2],
                                         entries |-> thunks(k).entries]]]

(* exports.rs:58-147: a target inside the directory is a forwarder's string. *)
parse_exports(image) ==
    LET d == data_dir(image, "EXPORT")
        x == image.cells[d.va]
        target(i) == image.cells[x[3] + i - 1][2]
        fwd(i) == target(i) >= d.va /\ target(i) < d.va + d.size
        name(i) == image.cells[x[5] + i - 1][2]
    IN  IF \/ ~Present(d) \/ ~InImage(image, d.va, 1) \/ ~Is(x, "exp")
           \/ ~InImage(image, x[3], x[4])
           \/ ~InImage(image, x[5], x[7]) \/ ~InImage(image, x[6], x[7])
           \/ \E i \in 1 .. x[7] : ~InImage(image, name(i), 1)
        THEN Bad
        ELSE [ok |-> TRUE, base |-> x[2],
              entries |-> [i \in 1 .. x[4] |-> [fwd |-> fwd(i), rva |-> target(i)]],
              names |-> [i \in 1 .. x[7] |->
                  [name |-> image.cells[name(i)][2],
                   ordinal |-> x[2] + image.cells[x[6] + i - 1][2]]]]

(* tls.rs:36-99: virtual addresses are taken against the preferred base;    *)
(* the callbacks end at a null one.  The word of a cell that is no pointer  *)
(* is some number that is no address of the image.                          *)
Word(cell) == IF Is(cell, "ptr") THEN cell[2] ELSE IF cell = Zero THEN 0 ELSE -1

parse_tls(image) ==
    LET d == data_dir(image, "TLS")
        va == image.cells[d.va][2]
        first == va - image.preferred
        n == Min({k \in 0 .. image.size : ~InImage(image, first + k, 1)
                                            \/ Word(image.cells[first + k]) = 0})
    IN  IF ~Present(d) THEN [ok |-> TRUE, callbacks |-> <<>>]
        ELSE IF ~InImage(image, d.va, 1) THEN Bad
        ELSE IF va = 0 THEN [ok |-> TRUE, callbacks |-> <<>>]
        ELSE IF ~InImage(image, first + n, 1) THEN Bad
        ELSE [ok |-> TRUE,
              callbacks |-> [k \in 1 .. n |-> Word(image.cells[first + k - 1]) - image.preferred]]

(* exception.rs:26-60: the table is whole entries, all of them in the image. *)
parse_exceptions(image) ==
    LET d == data_dir(image, "EXCEPTION")
    IN  Present(d) => d.rest = 0 /\ InImage(image, d.va, d.size)
=============================================================================
