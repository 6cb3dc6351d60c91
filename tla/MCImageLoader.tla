--------------------------- MODULE MCImageLoader ---------------------------
(***************************************************************************)
(* Files for the loader: an executable and two DLLs that import each other,*)
(* all three linked for the same base or for bases of their own, in sound  *)
(* and damaged variants, and the pages the host may already use.           *)
(***************************************************************************)
EXTENDS PeImage, TLC

K == <<"kernel32", "mixed">>
A == <<"a", "upper">>
B == <<"b", "lower">>
C == <<"c", "lower">>

MCBuiltins == [kernel32 |-> (Named("k") :> 1001)]

(* Where the parts of a file lie; Area holds the import directory.          *)
Size == 43
Area == 22
Stride == 9

(* imports: up to two <<dll, fn, fn>>; `ilt` FALSE leaves the lookup table  *)
(* out, so that the address table holds the thunks.                         *)
ImportCells(imports, ilt) ==
    LET n == Len(imports)
        base(k) == Area + n + 1 + (k - 1) * Stride
        thunk(k, j) == LET f == imports[k][j + 1] IN
                       IF f[1] = "ordinal" THEN ByOrdinal(f[2]) ELSE Thunk(base(k) + 6 + j - 1)
        cells(k) == [r \in base(k) .. base(k) + 8 |->
                        CASE r - base(k) \in 0 .. 1 /\ ilt -> thunk(k, (r - base(k)) + 1)
                          [] r - base(k) \in 3 .. 4 -> thunk(k, (r - base(k)) - 2)
                          [] r - base(k) \in 6 .. 7 -> Str(imports[k][(r - base(k)) - 4][2])
                          [] r - base(k) = 8 -> Str(imports[k][1])
                          [] OTHER -> Zero]
        descs == [r \in Area .. Area + n |->
                    IF r = Area + n THEN Zero
                    ELSE LET k == (r - Area) + 1 IN
                         Desc(IF ilt THEN base(k) ELSE 0, base(k) + 8, base(k) + 3)]
    IN  FoldLeft(LAMBDA f, k : f @@ cells(k), descs, [k \in 1 .. n |-> k])

(* The fixed part: header, TLS, functions, callbacks, pointers, exports and *)
(* relocations.  Function f has ordinal 1 and a name; g, or a forwarder to  *)
(* it, has ordinal 2.  An image linked for the low 4 GiB has a pointer of   *)
(* four bytes.                                                              *)
Low(base) == base + Size <= PtrMod

FixedCells(stem, base, tls, fwd, reloc) ==
    (0 :> Str("header")) @@ (1 :> IF tls THEN Tls(base + 6) ELSE Zero)
    @@ (2 :> Fn(stem, "entry")) @@ (3 :> Fn(stem, "f")) @@ (4 :> Fn(stem, "g"))
    @@ (5 :> Fn(stem, "cb")) @@ (6 :> Ptr(base + 5)) @@ (7 :> Zero)
    @@ (8 :> IF Low(base) THEN Ptr32(base + 3) ELSE Ptr(base + 3))
    @@ (9 :> Exp(1, 10, 2, 12, 13, 1)) @@ (10 :> Rva(3)) @@ (11 :> Rva(IF fwd THEN 14 ELSE 4))
    @@ (12 :> Rva(15)) @@ (13 :> Ord(0)) @@ (14 :> Str("other.g")) @@ (15 :> Str("f"))
    @@ (16 :> Rel(6, 3)) @@ (17 :> Ent("DIR64", 0)) @@ (18 :> Ent(IF Low(base) THEN "HIGHLOW" ELSE "DIR64", 2))
    @@ (19 :> Ent("ABSOLUTE", 0))
    @@ (20 :> Rel(1, IF reloc = "short" THEN -1 ELSE 1))
    @@ (21 :> Ent(IF reloc = "kind" THEN "HIGHADJ" ELSE IF tls THEN "DIR64" ELSE "ABSOLUTE", 0))

File(stem, base, tls, fwd, imports, ilt, damage) ==
    LET cells == FixedCells(stem, base, tls, fwd, damage) @@ ImportCells(imports, ilt)
        n == IF damage = "cut" THEN 30 ELSE Cardinality(DOMAIN cells)
    IN  [header |-> IF damage = "header" THEN "PE signature" ELSE "good",
         table_end |-> 1, base |-> base, size |-> IF damage = "size" THEN 0 ELSE Size,
         headers |-> IF damage = "headers" THEN Size + 1 ELSE 1, entry |-> 2,
         raw |-> [i \in 1 .. n |-> cells[i - 1]],
         sections |-> << [rva |-> 1, vsize |-> 15, off |-> 1, raw |-> 15],
                         [rva |-> 16, vsize |-> Size - 16, off |-> 16,
                          raw |-> Cardinality(DOMAIN cells) - 16] >>,
         dirs |-> [EXPORT |-> IF damage = "exports" THEN NoDir ELSE Dir(9, 6),
                   IMPORT |-> Dir(Area, IF damage = "imports" THEN Len(imports)
                                        ELSE Len(imports) + 1),
                   RELOC |-> Dir(16, 6), TLS |-> IF tls THEN Dir(1, 1) ELSE NoDir,
                   EXCEPTION |-> CASE damage = "pdata" -> DirInBytes(2, 2, 4)
                                   [] damage = "pdata_out" -> DirInBytes(Size - 1, 2, 0)
                                   [] damage = "imports" -> NoDir
                                   [] OTHER -> DirInBytes(2, 2, 0)],
         sound |-> damage \in {"none", "imports"},
         pointers |-> {6, 8},
         callbacks |-> IF tls THEN <<5>> ELSE <<>>,
         exported |-> (Named("f") :> "f") @@ (Ordinal(1) :> "f")
                         @@ IF fwd THEN <<>> ELSE (Ordinal(2) :> "g")]

(* "pdata": a table of 28 bytes; "pdata_out": one that leaves the image.     *)
MainDamages == {"pdata", "pdata_out"}
Damages == {"none", "header", "size", "headers", "cut", "kind", "short", "exports", "imports"}

MainFile(damage) ==
    File("main", PageSize, TRUE, FALSE,
         << <<K, Named("k"), Named("zz")>>, <<A, Named("f"), Ordinal(2)>> >>, TRUE, damage)

AFile(base, tls, fwd, damage) ==
    File("a", base, tls, fwd, << <<B, Named("f"), Named("none")>>, <<K, Named("k"), Ordinal(7)>> >>,
         TRUE, damage)

BFile(base, damage) ==
    File("b", base, FALSE, TRUE, << <<A, Ordinal(2), Named("f")>>, <<C, Named("f"), Named("f")>> >>,
         FALSE, damage)

(* Bases: the executable's own, and one of their own.                       *)
Bases == {PageSize, 3 * PageSize}

(* Two families: what befalls the DLLs, and what befalls the executable,    *)
(* with fewer images where the host holds a page.                           *)
Ids == [main : {"none"}, a : {"none", "kind"}, b : Damages, abase : Bases, bbase : Bases,
        fwd : BOOLEAN, taken : {{}}]
       \cup
       [main : Damages \cup MainDamages, a : {"none", "short"}, b : {"missing"}, abase : Bases,
        bbase : {PageSize}, fwd : {FALSE}, taken : {{}, {1}, {3}}]

MCWorlds ==
    [w \in Ids |->
        [main |-> MainFile(w.main), taken |-> w.taken,
         dlls |-> (IF w.b = "missing" THEN <<>> ELSE ("b" :> BFile(w.bbase, w.b)))
                     @@ ("a" :> AFile(w.abase, w.b # "missing", w.fwd, w.a))]]
=============================================================================
