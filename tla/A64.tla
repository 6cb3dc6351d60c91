-------------------------------- MODULE A64 --------------------------------
(***************************************************************************)
(* The A64 instruction set as far as the emitter uses it: what a 32-bit    *)
(* word means, by encoding class of the Armv8-A reference manual.  It is   *)
(* the reference quantum-jit/src/emitter.rs is compared with and is not    *)
(* derived from it.  A word is the set of its bits that are 1; a meaning   *)
(* is the tuple <<operation, arrangement, operands...>>.                   *)
(***************************************************************************)
EXTENDS Integers, Sequences, FiniteSetsExt

(* The value of the field of w of n bits at bit `at`, unsigned and signed. *)
Fld(w, at, n) == MapThenSumSet(LAMBDA k : 2^(k - at), w \cap (at..(at + n - 1)))
SFld(w, at, n) == LET v == Fld(w, at, n) IN IF v >= 2^(n - 1) THEN v - 2^n ELSE v

Rd(w) == Fld(w, 0, 5)
Rn(w) == Fld(w, 5, 5)
Rm(w) == Fld(w, 16, 5)
Sf(w) == IF 31 \in w THEN "x" ELSE "w"
FpType(w) == <<"s", "d", "?", "h">>[Fld(w, 22, 2) + 1]
Arr(w) == <<"16b", "8h", "4s", "2d">>[Fld(w, 22, 2) + 1]

CondNames == <<"eq", "ne", "cs", "cc", "mi", "pl", "vs", "vc", "hi", "ls", "ge", "lt",
               "gt", "le", "al", "nv">>
CondOf(w, at) == CondNames[Fld(w, at, 4) + 1]
Shifts4 == <<"lsl", "lsr", "asr", "ror">>

Unallocated == <<"unallocated">>

MoveWide(w) ==
  <<<<"movn", "?", "movz", "movk">>[Fld(w, 29, 2) + 1], Sf(w), Rd(w), Fld(w, 5, 16), 16 * Fld(w, 21, 2)>>

AddSubName(w) == <<"add", "adds", "sub", "subs">>[Fld(w, 29, 2) + 1]
AddSubImm(w) ==
  <<AddSubName(w), Sf(w), Rd(w), Rn(w), "imm",
    IF 22 \in w THEN 2^12 * Fld(w, 10, 12) ELSE Fld(w, 10, 12)>>
AddSubReg(w) ==
  <<AddSubName(w), Sf(w), Rd(w), Rn(w), Shifts4[Fld(w, 22, 2) + 1], Rm(w), Fld(w, 10, 6)>>
LogicReg(w) ==
  <<IF 21 \in w THEN "?" ELSE <<"and", "orr", "eor", "ands">>[Fld(w, 29, 2) + 1], Sf(w),
    Rd(w), Rn(w), Shifts4[Fld(w, 22, 2) + 1], Rm(w), Fld(w, 10, 6)>>

TwoSource(w) ==
  LET o == Fld(w, 10, 6)
      names == [n \in {2, 3, 8, 9, 10, 11} |->
                  CASE n = 2 -> "udiv" [] n = 3 -> "sdiv" [] n = 8 -> "lslv"
                    [] n = 9 -> "lsrv" [] n = 10 -> "asrv" [] n = 11 -> "rorv"]
  IN  <<IF o \in DOMAIN names THEN names[o] ELSE "?", Sf(w), Rd(w), Rn(w), Rm(w)>>
OneSource(w) ==
  <<CASE Fld(w, 10, 6) = 2 /\ 31 \notin w -> "rev" [] Fld(w, 10, 6) = 3 /\ 31 \in w -> "rev"
      [] OTHER -> "?", Sf(w), Rd(w), Rn(w)>>
ThreeSource(w) ==
  LET o == Fld(w, 21, 3) IN
  CASE o = 0 -> <<IF 15 \in w THEN "msub" ELSE "madd", Sf(w), Rd(w), Rn(w), Rm(w), Fld(w, 10, 5)>>
    [] o \in {2, 6} /\ 15 \notin w -> <<IF o = 2 THEN "smulh" ELSE "umulh", Sf(w), Rd(w), Rn(w), Rm(w)>>
    [] OTHER -> Unallocated
CondSelect(w) ==
  <<<<<<"csel", "csinc">>, <<"csinv", "csneg">>>>[Fld(w, 30, 1) + 1][Fld(w, 10, 2) + 1], Sf(w),
    Rd(w), Rn(w), Rm(w), CondOf(w, 12)>>
Bitfield(w) ==
  <<<<"sbfm", "bfm", "ubfm", "?">>[Fld(w, 29, 2) + 1], Sf(w), Rd(w), Rn(w), Fld(w, 16, 6), Fld(w, 10, 6)>>

(* The access size of an unsigned-offset load or store, and the load bit.  *)
LdSt(w) ==
  LET quad == 26 \in w /\ 23 \in w
      size == IF quad THEN 16 ELSE 2^Fld(w, 30, 2)
  IN  IF 23 \in w /\ (26 \notin w \/ Fld(w, 30, 2) # 0) THEN Unallocated
      ELSE <<IF 22 \in w THEN "ldr" ELSE "str", IF 26 \in w THEN "v" ELSE "g", size,
             Rd(w), Rn(w), size * Fld(w, 10, 12)>>
LdStPair(w) ==
  IF Fld(w, 30, 2) # 2 \/ 26 \in w THEN Unallocated
  ELSE <<IF 22 \in w THEN "ldp" ELSE "stp", <<"?", "post", "offset", "pre">>[Fld(w, 23, 2) + 1],
         Rd(w), Fld(w, 10, 5), Rn(w), 8 * SFld(w, 15, 7)>>
----------------------------------------------------------------------------
(* Vectors *)
ThreeSame(w) ==
  LET u == 29 \in w
      size == Fld(w, 22, 2)
      op == Fld(w, 11, 5)
      fp == IF size % 2 = 0 THEN "4s" ELSE "2d"
      regs == <<Rd(w), Rn(w), Rm(w)>>
  IN  CASE op = 3 -> <<<<<<"and", "bic", "orr", "orn">>, <<"eor", "bsl", "bit", "bif">>>>
                         [Fld(w, 29, 1) + 1][size + 1], "16b">> \o regs
        [] op = 16 -> <<IF u THEN "sub" ELSE "add", Arr(w)>> \o regs
        [] op = 17 /\ u -> <<"cmeq", Arr(w)>> \o regs
        [] op = 19 /\ ~u /\ size # 3 -> <<"mul", Arr(w)>> \o regs
        [] op = 26 /\ ~u -> <<IF size < 2 THEN "fadd" ELSE "fsub", fp>> \o regs
        [] op = 27 /\ u /\ size < 2 -> <<"fmul", fp>> \o regs
        [] op = 31 /\ u /\ size < 2 -> <<"fdiv", fp>> \o regs
        [] OTHER -> Unallocated
Permute(w) ==
  <<CASE Fld(w, 12, 3) = 3 -> "zip1" [] Fld(w, 12, 3) = 7 -> "zip2" [] OTHER -> "?",
    Arr(w), Rd(w), Rn(w), Rm(w)>>
Copy(w) ==
  LET imm5 == Fld(w, 16, 5)
      imm4 == Fld(w, 11, 4)
  IN  CASE 29 \in w /\ imm5 % 8 = 4 -> <<"ins", "s", Rd(w), imm5 \div 8, Rn(w), imm4 \div 4>>
        [] 29 \notin w /\ imm4 = 3 /\ imm5 % 16 = 8 -> <<"insx", "d", Rd(w), imm5 \div 16, Rn(w)>>
        [] 29 \notin w /\ imm4 = 7 /\ 30 \notin w /\ imm5 % 2 = 1 -> <<"umov", "b", Rd(w), Rn(w), imm5 \div 2>>
        [] OTHER -> Unallocated
ShiftImm(w) ==
  LET v == Fld(w, 16, 7)
      lane == CASE v >= 64 -> 64 [] v \in 32..63 -> 32 [] v \in 16..31 -> 16 [] OTHER -> 8
      arr == CASE lane = 64 -> "2d" [] lane = 32 -> "4s" [] lane = 16 -> "8h" [] OTHER -> "16b"
      op == Fld(w, 11, 5)
  IN  CASE v < 8 \/ 30 \notin w -> Unallocated
        [] v >= 8 /\ 30 \in w /\ op = 10 /\ 29 \notin w -> <<"shl", arr, Rd(w), Rn(w), v - lane>>
        [] v >= 8 /\ 30 \in w /\ op = 0 ->
             <<IF 29 \in w THEN "ushr" ELSE "sshr", arr, Rd(w), Rn(w), 2 * lane - v>>
        [] OTHER -> Unallocated

(* Scalar floating point *)
FpTwoSource(w) ==
  <<<<"fmul", "fdiv", "fadd", "fsub", "fmax", "fmin">>[Fld(w, 12, 4) + 1], FpType(w), Rd(w), Rn(w), Rm(w)>>
FpOneSource(w) ==
  LET o == Fld(w, 15, 6) IN
  CASE o = 3 -> <<"fsqrt", FpType(w), Rd(w), Rn(w)>>
    [] o = 4 -> <<"fcvt", "s" \o FpType(w), Rd(w), Rn(w)>>
    [] o = 5 -> <<"fcvt", "d" \o FpType(w), Rd(w), Rn(w)>>
    [] OTHER -> Unallocated
FpInt(w) ==
  LET o == Fld(w, 16, 5) IN
  CASE o = 2 -> <<"scvtf", FpType(w) \o Sf(w), Rd(w), Rn(w)>>
    [] o = 0 -> <<"fcvtns", Sf(w) \o FpType(w), Rd(w), Rn(w)>>
    [] o = 24 -> <<"fcvtzs", Sf(w) \o FpType(w), Rd(w), Rn(w)>>
    [] OTHER -> Unallocated
----------------------------------------------------------------------------
(* Branches and system.  A branch's target is its offset in words. *)
Branch(w) ==
  CASE Fld(w, 26, 5) = 5 -> <<IF 31 \in w THEN "bl" ELSE "b", "", SFld(w, 0, 26)>>
    [] Fld(w, 24, 8) = 84 -> <<"b.cond", CondOf(w, 0), SFld(w, 5, 19)>>
    [] Fld(w, 25, 6) = 26 -> <<IF 24 \in w THEN "cbnz" ELSE "cbz", Sf(w), Rd(w), SFld(w, 5, 19)>>
    [] Fld(w, 25, 6) = 27 -> <<IF 24 \in w THEN "tbnz" ELSE "tbz", "", Rd(w),
                               32 * Fld(w, 31, 1) + Fld(w, 19, 5), SFld(w, 5, 14)>>
    [] Fld(w, 25, 7) = 107 ->
         <<CASE Fld(w, 10, 15) = 1984 -> "br" [] Fld(w, 10, 15) = 4032 -> "blr"
             [] Fld(w, 10, 15) = 6080 -> "ret" [] OTHER -> "?", "", Rn(w)>>
    [] OTHER -> Unallocated
System(w) ==
  LET crm == Fld(w, 8, 4)
  IN  CASE Fld(w, 21, 11) = 1697 -> <<"brk", "", Fld(w, 5, 16)>>
        [] Fld(w, 12, 12) = 50 /\ Fld(w, 0, 12) = 31 -> <<"nop", "">>
        [] Fld(w, 12, 12) = 51 /\ Fld(w, 0, 8) = 223 -> <<"isb", "">>
        [] Fld(w, 12, 12) = 51 /\ Fld(w, 0, 8) = 191 -> <<"dmb", IF crm = 11 THEN "ish" ELSE "?">>
        [] 20 \in w /\ 19 \in w ->      \* op0 = 3, then op1 CRn CRm op2
             <<IF 21 \in w THEN "mrs" ELSE "msr",
               CASE Fld(w, 5, 14) = 3 * 2048 + 4 * 128 + 2 * 8 -> "nzcv"
                 [] Fld(w, 5, 14) = 3 * 2048 + 13 * 128 + 2 -> "tpidr_el0"
                 [] OTHER -> "?", Rd(w)>>
        [] OTHER -> Unallocated

(* The meaning of w. *)
Decode(w) ==
  LET is(at, n, v) == Fld(w, at, n) = v
  IN
  CASE is(23, 6, 37) -> MoveWide(w)
    [] is(23, 6, 34) -> AddSubImm(w)
    [] is(23, 6, 38) -> Bitfield(w)
    [] is(24, 5, 11) /\ 21 \notin w -> AddSubReg(w)
    [] is(24, 5, 10) -> LogicReg(w)
    [] is(21, 10, 214) -> TwoSource(w)
    [] is(16, 15, 23232) -> OneSource(w)
    [] is(24, 7, 27) -> ThreeSource(w)
    [] is(21, 9, 212) /\ 11 \notin w -> CondSelect(w)
    [] is(27, 3, 7) /\ is(24, 2, 1) -> LdSt(w)
    [] is(27, 3, 5) /\ 25 \notin w -> LdStPair(w)
    [] 31 \notin w /\ is(24, 5, 14) /\ 30 \in w /\ 21 \in w /\ 10 \in w -> ThreeSame(w)
    [] is(24, 8, 78) /\ 21 \notin w /\ 15 \notin w /\ is(10, 2, 2) -> Permute(w)
    [] is(21, 11, 880) /\ 15 \notin w /\ 10 \notin w -> <<"ext", "16b", Rd(w), Rn(w), Rm(w), Fld(w, 11, 4)>>
    [] 31 \notin w /\ is(21, 8, 112) /\ 15 \notin w /\ 10 \in w -> Copy(w)
    [] 31 \notin w /\ is(23, 6, 30) /\ 10 \in w -> ShiftImm(w)
    [] is(10, 22, 232558) -> <<"addv", "8b", Rd(w), Rn(w)>>
    [] is(24, 8, 30) /\ 21 \in w /\ is(10, 2, 2) -> FpTwoSource(w)
    [] is(24, 8, 30) /\ 21 \in w /\ is(10, 6, 8) /\ is(0, 5, 0) -> <<"fcmp", FpType(w), Rn(w), Rm(w)>>
    [] is(24, 8, 30) /\ 21 \in w /\ is(10, 5, 16) -> FpOneSource(w)
    [] is(24, 7, 30) /\ 21 \in w /\ is(10, 6, 0) -> FpInt(w)
    [] is(24, 8, 213) \/ is(24, 8, 212) -> System(w)
    [] OTHER -> Branch(w)
============================================================================
