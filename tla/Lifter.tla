------------------------------- MODULE Lifter -------------------------------
(***************************************************************************)
(* The general-purpose half of quantum-jit/src/lifter.rs: each lift_*      *)
(* method is an operator that returns the AArch64 instructions it emits.   *)
(* The specification translates one x86 instruction, runs the code it got  *)
(* instruction by instruction on HostCpu, and stops; the properties        *)
(* compare where it stops with X86.                                        *)
(*                                                                         *)
(* The guest's registers live in host registers (host_reg), X16 and X17    *)
(* are scratch, X24 and X25 hold the bases of gs and fs, and the guest's   *)
(* flags are the host's NZCV with the carry of a subtraction inverted.     *)
(***************************************************************************)
EXTENDS X86, SequencesExt

CONSTANTS ImmBits,     \* width of an unsigned immediate: 12 in the code
          Insts,       \* the instructions translated, and the registers and
          Starts(_)    \* flags each of them is run with

ASSUME ImmBitsAssumption == ImmBits \in Nat /\ ImmBits >= 4

(* A guest register lives in the host register of its number, RSP in X19. *)
HostReg ==
  [r \in GpRegs |-> IF r = "rsp" THEN 19
                    ELSE (CHOOSE n \in DOMAIN GpOrder : GpOrder[n] = r) - 1]
rax == HostReg.rax
rcx == HostReg.rcx
rdx == HostReg.rdx
Guest_SP == HostReg.rsp

Unsupported == <<[k |-> "unsupported"]>>

(* cond_x86_to_a64 as it would be without the swap of the carry. *)
cond_x86_to_a64_Straight(c) ==
  [E |-> "eq", NE |-> "ne", B |-> "cs", NB |-> "cc", BE |-> "ls", A |-> "hi",
   S |-> "mi", NS |-> "pl", L |-> "lt", NL |-> "ge", LE |-> "le", G |-> "gt",
   O |-> "vs", NO |-> "vc", P |-> "vs", NP |-> "vc"][c]
cond_x86_to_a64(c) ==
  [E |-> "eq", NE |-> "ne", B |-> "cc", NB |-> "cs", BE |-> "ls", A |-> "hi",
   S |-> "mi", NS |-> "pl", L |-> "lt", NL |-> "ge", LE |-> "le", G |-> "gt",
   O |-> "vs", NO |-> "vc", P |-> "vs", NP |-> "vc"][c]

imm12_encodable(v) ==
  v < 2^ImmBits \/ (v % 2^ImmBits = 0 /\ v \div 2^ImmBits < 2^ImmBits)
FoldLimit == 2^(2 * ImmBits)
------------------------------------------------------------------------------
(* Addresses *)

add64_imm_safe(d, n, v) ==
  IF imm12_encodable(v) THEN <<RRI("add", d, n, v)>>
  ELSE <<Const(17, v), RRR("add", d, n, 17)>>
sub64_imm_safe(d, n, v) ==
  IF imm12_encodable(v) THEN <<RRI("sub", d, n, v)>>
  ELSE <<Const(17, v), RRR("sub", d, n, 17)>>

Folds(disp) == disp > 0 /\ disp < FoldLimit
Log2 == <<0, 1, 1, 2, 2, 2, 2, 3>>

(* The code that puts the address in x, and the displacement left over. *)
mem_address_into(m, x) ==
  [code |-> <<IF m.base = "none" THEN Const(x, 0) ELSE MovR(x, HostReg[m.base])>>
            \o (IF m.seg = "none" THEN << >>
                ELSE <<RRR("add", x, x, IF m.seg = "gs" THEN 24 ELSE 25)>>)
            \o (IF m.index = "none" THEN << >>
                ELSE <<Lsl3("add", x, x, HostReg[m.index], Log2[m.scale])>>)
            \o (IF m.disp = 0 \/ Folds(m.disp) THEN << >>
                ELSE IF m.disp > 0 THEN add64_imm_safe(x, x, m.disp)
                ELSE sub64_imm_safe(x, x, -m.disp)),
   off |-> IF Folds(m.disp) THEN m.disp ELSE 0]

addr_into_xtmp(o, i, x) ==
  IF o.k = "mem" THEN mem_address_into(o, x)
  ELSE [code |-> <<Const(x, i.next + o.disp)>>, off |-> 0]

(* Load from, and store to, an operand addressed through X16. *)
LoadOp(o, i, t, size) ==
  LET ad == addr_into_xtmp(o, i, 16) IN Append(ad.code, Ld(size, t, 16, ad.off))
StoreOp(o, i, t, size) ==
  LET ad == addr_into_xtmp(o, i, 16) IN Append(ad.code, St(size, t, 16, ad.off))
StoreBack(o, i, t, size) == <<St(size, t, 16, addr_into_xtmp(o, i, 16).off)>>

emit_and_imm_lo32(d, n) == <<Un("uxt", d, n, 4)>>
Mask(size, d) == IF size = 4 THEN emit_and_imm_lo32(d, d) ELSE << >>

(* A register or memory source brought into X17. *)
IntoX17(o, i) ==
  CASE o.k = "reg" -> <<MovR(17, HostReg[o.r])>>
    [] o.k = "imm" -> <<Const(17, o.v)>>
    [] OTHER -> LoadOp(o, i, 17, o.size)
------------------------------------------------------------------------------
(* Moves *)

mov_reg_imm(r, size, v) ==
  CASE size = 8 -> <<Const(HostReg[r], v)>>
    [] size = 4 -> <<Const(HostReg[r], Trunc(v, 4))>>
    [] OTHER -> <<MovK(HostReg[r], v)>>

mov_reg_reg(d, size, s) ==
  IF size = 4 THEN emit_and_imm_lo32(HostReg[d], HostReg[s])
  ELSE <<MovR(HostReg[d], HostReg[s])>>

lift_mov(i) ==
  CASE IsReg(i.a) /\ i.b.k = "imm" -> mov_reg_imm(i.a.r, i.a.size, i.b.v)
    [] IsReg(i.a) /\ IsReg(i.b) -> mov_reg_reg(i.a.r, i.a.size, i.b.r)
    [] IsReg(i.a) /\ IsMem(i.b) -> LoadOp(i.b, i, HostReg[i.a.r], i.a.size)
    [] IsMem(i.a) /\ IsReg(i.b) -> StoreOp(i.a, i, HostReg[i.b.r], i.b.size)
    [] IsMem(i.a) /\ i.b.k = "imm" ->
         LET ad == addr_into_xtmp(i.a, i, 16)
         IN  ad.code \o <<Const(17, i.b.v), St(i.a.size, 17, 16, ad.off)>>
    [] OTHER -> Unsupported

lift_movzx_or_movsx(i, signed) ==
  LET hd == HostReg[i.a.r]
      size == i.b.size
      ext == IF signed THEN <<Un("sxt", hd, hd, size)>> ELSE << >>
  IN  CASE size \notin {1, 2} -> Unsupported
        [] IsReg(i.b) ->
             <<Un(IF signed THEN "sxt" ELSE "uxt", hd, HostReg[i.b.r], size)>>
        [] OTHER -> LoadOp(i.b, i, hd, size) \o ext

lift_movsxd(i) ==
  IF IsReg(i.b) THEN <<Un("sxt", HostReg[i.a.r], HostReg[i.b.r], 4)>> ELSE Unsupported

(* The effective address is built in the destination itself. *)
lift_lea(i) ==
  LET hd == HostReg[i.a.r]
      ad == addr_into_xtmp(i.b, i, hd)
  IN  ad.code \o (IF ad.off # 0 THEN <<RRI("add", hd, hd, ad.off)>> ELSE << >>)
              \o Mask(i.a.size, hd)

lift_push(i) ==
  <<RRI("sub", Guest_SP, Guest_SP, 8)>> \o
  (CASE IsReg(i.a) -> <<St(8, HostReg[i.a.r], Guest_SP, 0)>>
     [] i.a.k = "imm" -> <<Const(16, i.a.v), St(8, 16, Guest_SP, 0)>>
     [] OTHER -> Unsupported)

lift_pop(i) ==
  IF IsReg(i.a)
  THEN <<Ld(8, HostReg[i.a.r], Guest_SP, 0), RRI("add", Guest_SP, Guest_SP, 8)>>
  ELSE Unsupported

lift_leave(i) ==
  <<MovR(Guest_SP, HostReg.rbp), Ld(8, HostReg.rbp, Guest_SP, 0),
    RRI("add", Guest_SP, Guest_SP, 8)>>

lift_xchg(i) ==
  CASE IsReg(i.a) /\ IsReg(i.b) ->
         IF i.a.r = i.b.r THEN << >>
         ELSE <<MovR(16, HostReg[i.a.r]), MovR(HostReg[i.a.r], HostReg[i.b.r]),
                MovR(HostReg[i.b.r], 16)>>
    [] OTHER ->
         LET m == IF IsMem(i.a) THEN i.a ELSE i.b
             hr == HostReg[IF IsMem(i.a) THEN i.b.r ELSE i.a.r]
         IN  LoadOp(m, i, 17, m.size) \o StoreBack(m, i, hr, m.size) \o <<MovR(hr, 17)>>
------------------------------------------------------------------------------
(* Arithmetic and logic.  Every form of a two-operand instruction but its  *)
(* register-immediate one has the same shape; Emit(d, n, size) emits the   *)
(* operation d = d op n.                                                   *)
BinaryForms(i, Emit(_, _, _)) ==
  CASE IsReg(i.a) /\ IsReg(i.b) -> Emit(HostReg[i.a.r], HostReg[i.b.r], i.a.size)
    [] IsReg(i.a) /\ IsMem(i.b) ->
         LoadOp(i.b, i, 17, i.b.size) \o Emit(HostReg[i.a.r], 17, i.a.size)
    [] IsMem(i.a) /\ IsReg(i.b) ->
         LoadOp(i.a, i, 17, i.a.size) \o Emit(17, HostReg[i.b.r], i.a.size)
           \o StoreBack(i.a, i, 17, i.a.size)
    [] IsMem(i.a) /\ i.b.k = "imm" ->
         LoadOp(i.a, i, 17, i.a.size) \o <<Const(16, i.b.v)>> \o Emit(17, 16, i.a.size)
           \o StoreOp(i.a, i, 17, i.a.size)
    [] OTHER -> Unsupported

(* Mutant: the result of a 4-byte operation is not masked. *)
emit_arith_rr_NoMask(op, d, n, size) == <<RRR(op, d, d, n)>>
emit_arith_rr(op, d, n, size) == <<RRR(op, d, d, n)>> \o Mask(size, d)
lift_arith(i, op) ==
  IF IsReg(i.a) /\ i.b.k = "imm"
  THEN CASE i.a.size \notin {4, 8} -> Unsupported
         [] i.b.v >= 0 /\ imm12_encodable(i.b.v) ->
              <<RRI(op, HostReg[i.a.r], HostReg[i.a.r], i.b.v)>>
                \o Mask(i.a.size, HostReg[i.a.r])
         [] OTHER ->
              <<Const(17, i.b.v)>> \o emit_arith_rr(op, HostReg[i.a.r], 17, i.a.size)
  ELSE BinaryForms(i, LAMBDA d, n, size : emit_arith_rr(op, d, n, size))

emit_bitop_rr(op, d, n, size) == <<RRR(op, d, d, n)>> \o Mask(size, d)
lift_bitop(i, op) ==
  IF IsReg(i.a) /\ i.b.k = "imm"
  THEN <<Const(16, i.b.v)>> \o emit_bitop_rr(op, HostReg[i.a.r], 16, i.a.size)
  ELSE BinaryForms(i, LAMBDA d, n, size : emit_bitop_rr(op, d, n, size))

emit_xor_rr(d, n, size) == <<RRR("eor", d, d, n)>> \o Mask(size, d)
lift_xor(i) ==
  CASE IsReg(i.a) /\ IsReg(i.b) /\ i.a.r = i.b.r -> <<Const(HostReg[i.a.r], 0)>>
    [] IsReg(i.a) /\ i.b.k = "imm" ->
         <<Const(16, i.b.v)>> \o emit_xor_rr(HostReg[i.a.r], 16, i.a.size)
    [] OTHER -> BinaryForms(i, emit_xor_rr)

lift_test(i) ==
  CASE IsReg(i.a) /\ IsReg(i.b) ->
         <<RRR("ands", XZR, HostReg[i.a.r], HostReg[i.b.r])>>
    [] IsReg(i.a) /\ i.b.k = "imm" ->
         <<Const(16, i.b.v), RRR("ands", XZR, HostReg[i.a.r], 16)>>
    [] IsMem(i.a) /\ IsReg(i.b) ->
         LoadOp(i.a, i, 17, i.a.size) \o <<RRR("ands", XZR, 17, HostReg[i.b.r])>>
    [] IsReg(i.a) /\ IsMem(i.b) ->
         LoadOp(i.b, i, 17, i.b.size) \o <<RRR("ands", XZR, HostReg[i.a.r], 17)>>
    [] OTHER ->
         LoadOp(i.a, i, 17, i.a.size) \o <<Const(16, i.b.v), RRR("ands", XZR, 17, 16)>>

(* A comparison is 64 bits wide whatever the operands are. *)
lift_cmp(i) ==
  LET cheap == i.b.k = "imm" /\ i.b.v >= 0 /\ imm12_encodable(i.b.v) IN
  CASE IsReg(i.a) /\ ~IsMem(i.b) /\ i.a.size \notin {4, 8} -> Unsupported
    [] IsReg(i.a) /\ IsReg(i.b) ->
         <<RRR("subs", XZR, HostReg[i.a.r], HostReg[i.b.r])>>
    [] IsReg(i.a) /\ cheap -> <<RRI("subs", XZR, HostReg[i.a.r], i.b.v)>>
    [] IsReg(i.a) /\ i.b.k = "imm" ->
         <<Const(17, i.b.v), RRR("subs", XZR, HostReg[i.a.r], 17)>>
    [] IsMem(i.a) /\ IsReg(i.b) ->
         LoadOp(i.a, i, 17, i.b.size) \o <<RRR("subs", XZR, 17, HostReg[i.b.r])>>
    [] IsReg(i.a) /\ IsMem(i.b) ->
         LoadOp(i.b, i, 17, i.a.size) \o <<RRR("subs", XZR, HostReg[i.a.r], 17)>>
    [] OTHER ->
         LoadOp(i.a, i, 17, i.a.size) \o
         (IF cheap THEN <<RRI("subs", XZR, 17, i.b.v)>>
          ELSE <<Const(16, i.b.v), RRR("subs", XZR, 17, 16)>>)

(* One-operand forms; Emit(d) changes d in place. *)
UnaryForms(i, Emit(_)) ==
  IF IsReg(i.a) THEN <<Emit(HostReg[i.a.r])>> \o Mask(i.a.size, HostReg[i.a.r])
  ELSE LoadOp(i.a, i, 17, i.a.size) \o <<Emit(17)>> \o Mask(i.a.size, 17)
         \o StoreBack(i.a, i, 17, i.a.size)
lift_neg(i) == UnaryForms(i, LAMBDA d : RRR("subs", d, XZR, d))
lift_not(i) == UnaryForms(i, LAMBDA d : RRR("orn", d, XZR, d))
lift_inc_dec(i, inc) ==
  UnaryForms(i, LAMBDA d : RRI(IF inc THEN "adds" ELSE "subs", d, d, 1))

lift_addc(i, add) ==
  IF ~IsReg(i.a) THEN Unsupported
  ELSE LET d == HostReg[i.a.r]
       IN  IntoX17(i.b, i) \o <<RRR(IF add THEN "adcs" ELSE "sbcs", d, d, 17)>>
             \o Mask(i.a.size, d)

lift_imul_n_operand(i) ==
  LET d == HostReg[i.a.r]
  IN  IntoX17(i.b, i)
        \o <<IF i.c = None THEN MovR(16, d) ELSE Const(16, i.c.v),
             RRR("mul", d, 17, 16)>>
        \o Mask(i.a.size, d)
------------------------------------------------------------------------------
(* Multiplication and division of rdx:rax *)

(* Mutant: the dividend is not saved before the quotient replaces it. *)
DivWide(signed, divisor) ==
  <<MovR(16, rax), RRR(IF signed THEN "sdiv" ELSE "udiv", rax, 16, divisor),
    MSub(rdx, rax, divisor, 16)>>

DivNarrow(signed, divisor) ==
  <<Un("uxt", 16, rax, 4), Un("uxt", 17, rdx, 4),
    Lsl3("orr", 16, 16, 17, Bits(4)), Un("uxt", 17, divisor, 4)>>
  \o (IF signed
      THEN <<Un("sxt", 16, rax, 4), Lsl3("orr", 16, 16, 17, Bits(4)),
             Un("sxt", 17, divisor, 4), RRR("sdiv", rax, 16, 17)>>
      ELSE <<RRR("udiv", rax, 16, 17)>>)
  \o <<MSub(rdx, rax, 17, 16), Un("uxt", rax, rax, 4), Un("uxt", rdx, rdx, 4)>>

MulWide(signed, divisor) ==
  <<MovR(16, rax), RRR("mul", rax, 16, divisor),
    RRR(IF signed THEN "smulh" ELSE "umulh", rdx, 16, divisor)>>

MulNarrow(signed, divisor) ==
  LET x == IF signed THEN "sxt" ELSE "uxt"
  IN  <<Un(x, 16, rax, 4), Un(x, 17, divisor, 4), RRR("mul", rax, 16, 17),
        RRI("lsr", rdx, rax, Bits(4)), Un("uxt", rax, rax, 4)>>

lift_divmul(i) ==
  LET divisor == IF IsReg(i.a) THEN HostReg[i.a.r] ELSE 17
      load == IF IsReg(i.a) THEN << >> ELSE LoadOp(i.a, i, 17, i.a.size)
      signed == i.op \in {"idiv", "imul"}
      div == i.op \in {"div", "idiv"}
  IN  CASE i.a.size \notin {4, 8} -> Unsupported
        [] div /\ i.a.size = 8 -> load \o DivWide(signed, divisor)
        [] div /\ i.a.size = 4 -> load \o DivNarrow(signed, divisor)
        [] i.a.size = 8 -> load \o MulWide(signed, divisor)
        [] OTHER -> load \o MulNarrow(signed, divisor)

(* The second word encodes ASR #3. *)
lift_cdq(i) ==
  <<Un("sxt", rdx, rax, 4), RRI("asr", rdx, rdx, 3)>> \o emit_and_imm_lo32(rdx, rdx)
lift_cqo(i) == <<RRI("asr", rdx, rax, W - 1)>>
------------------------------------------------------------------------------
(* Shifts, conditional moves, bit scans *)

ShiftMask(size) == IF size = 8 THEN W ELSE Bits(4)

lift_shift(i, op) ==
  IF ~IsReg(i.a) THEN Unsupported
  ELSE LET hd == HostReg[i.a.r]
           byImm == i.b.k = "imm"
       IN  (IF byImm THEN <<Const(16, i.b.v % ShiftMask(i.a.size))>> ELSE << >>)
           \o (IF op = "asr" /\ i.a.size = 4 THEN <<Un("sxt", hd, hd, 4)>> ELSE << >>)
           \o <<RRR(op, hd, hd, IF byImm THEN 16 ELSE rcx)>> \o Mask(i.a.size, hd)

lift_rotate(i, rol) ==
  IF ~IsReg(i.a) THEN Unsupported
  ELSE LET hd == HostReg[i.a.r]
           m == ShiftMask(i.a.size)
           amount == IF i.b.k = "imm"
                     THEN <<Const(16, (IF rol THEN m - (i.b.v % m) ELSE i.b.v) % m)>>
                     ELSE IF rol THEN <<Const(16, m), RRR("subs", 16, 16, rcx)>>
                     ELSE << >>
       IN  amount \o <<RRR("ror", hd, hd, IF amount = << >> THEN rcx ELSE 16)>>
             \o Mask(i.a.size, hd)

lift_cmov(i) ==
  IF IsReg(i.a) /\ IsReg(i.b)
  THEN <<CSel(HostReg[i.a.r], HostReg[i.b.r], HostReg[i.a.r], cond_x86_to_a64(i.c.cond))>>
  ELSE Unsupported

lift_set(i) ==
  IF IsReg(i.a) THEN <<CSet(HostReg[i.a.r], cond_x86_to_a64(i.c.cond))>> ELSE Unsupported

lift_bitscan(i, reverse) ==
  LET d == HostReg[i.a.r]
      size == i.a.size
  IN  IntoX17(i.b, i) \o Mask(size, 17)
      \o (IF reverse
          THEN <<Un("clz", d, 17, 8), Const(16, (IF size = 8 THEN W ELSE Bits(4)) - 1),
                 RRR("subs", d, 16, d)>>
          ELSE <<Un("rbit", d, 17, 8), Un("clz", d, d, 8)>>)
      \o Mask(size, d)

lift_bswap(i) ==
  IF i.a.size \in {4, 8} THEN <<Un("rev", HostReg[i.a.r], HostReg[i.a.r], i.a.size)>>
  ELSE Unsupported

(* CMPXCHG and XADD, whose memory forms are not atomic. *)
lift_cmpxchg(i) ==
  LET size == i.b.size
      src == HostReg[i.b.r]
      d == HostReg[i.a.r]
      fetch == IF IsReg(i.a) THEN <<MovR(17, d)>> ELSE LoadOp(i.a, i, 17, i.a.size)
      equal == IF IsReg(i.a) THEN <<MovR(d, src)>> \o Mask(size, d)
               ELSE StoreBack(i.a, i, src, i.a.size)
      differ == <<MovR(rax, 17)>> \o Mask(size, rax)
  IN  fetch \o <<RRR("subs", XZR, rax, 17), JumpIf("ne", Len(equal) + 2)>>
        \o equal \o <<Jump(Len(differ) + 1)>> \o differ

lift_xadd(i) ==
  LET size == i.b.size
      src == HostReg[i.b.r]
      d == HostReg[i.a.r]
  IN  IF IsReg(i.a)
      THEN <<MovR(17, d)>> \o emit_arith_rr("adds", d, src, size)
             \o <<MovR(src, 17)>> \o Mask(size, src)
      ELSE LoadOp(i.a, i, 17, i.a.size) \o <<Stp(17, XZR)>>
             \o emit_arith_rr("adds", 17, src, size) \o StoreBack(i.a, i, 17, i.a.size)
             \o <<Ldp(src, XZR)>> \o Mask(size, src)

(* Mutant: the loop tests for zero only after the first lane. *)
emit_rep_loop(size, rep, stos) ==
  LET lane == (IF stos THEN <<St(size, rax, 7, 0)>>
               ELSE <<Ld(size, 16, 6, 0), St(size, 16, 7, 0), RRI("add", 6, 6, size)>>)
              \o <<RRI("add", 7, 7, size)>>
  IN  CASE size \notin Sizes -> Unsupported
        [] rep -> <<Cbz(rcx, Len(lane) + 3)>> \o lane
                    \o <<RRI("sub", rcx, rcx, 1), Jump(-(Len(lane) + 2))>>
        [] OTHER -> lane
lift_movs(i) == emit_rep_loop(i.a.v, i.b = Imm(1), FALSE)
lift_stos(i) == emit_rep_loop(i.a.v, i.b = Imm(1), TRUE)

(* CPUID: leaf 0, leaf 1, and zeros for any other. *)
lift_cpuid(i) ==
  <<RRI("subs", XZR, rax, 0), JumpIf("ne", 6)>>
  \o <<Const(rax, 7), Const(3, \h756e6547), Const(rdx, \h49656e69),
       Const(rcx, \h6c65746e), Jump(12)>>
  \o <<RRI("subs", XZR, rax, 1), JumpIf("ne", 6)>>
  \o <<Const(rax, \h000106A9), Const(3, \h00010800), Const(rcx, \h00982201),
       Const(rdx, \h07808111), Jump(5)>>
  \o <<Const(rax, 0), Const(3, 0), Const(rcx, 0), Const(rdx, 0)>>

lift_rdtsc(i) ==
  <<Mrs(rax), RRI("lsr", rdx, rax, Bits(4))>> \o emit_and_imm_lo32(rax, rax)
------------------------------------------------------------------------------
(* An indirect call: straight into the host function, without a return     *)
(* address on the guest's stack.                                           *)

(* Mutant: the guest's non-volatile registers are not saved. *)
CallBridge_NoSave(i) ==
  <<MovR(0, 1), MovR(1, 2), MovR(2, 8), MovR(3, 9),
    Ld(8, 4, Guest_SP, 32), Ld(8, 5, Guest_SP, 40), Ld(8, 6, Guest_SP, 48),
    Ld(8, 7, Guest_SP, 56), Stp(29, 30), Blr(16), Ldp(29, 30)>>
CallBridge(i) ==
  <<Stp(3, 5), Stp(6, 7), Stp(12, 13), Stp(14, 15)>>
  \o <<MovR(0, 1), MovR(1, 2), MovR(2, 8), MovR(3, 9),
       Ld(8, 4, Guest_SP, 32), Ld(8, 5, Guest_SP, 40), Ld(8, 6, Guest_SP, 48),
       Ld(8, 7, Guest_SP, 56), Stp(29, 30), Blr(16), Ldp(29, 30)>>
  \o <<Ldp(14, 15), Ldp(12, 13), Ldp(6, 7), Ldp(3, 5)>>

LegacyBridge ==
  <<Ld(4, 0, Guest_SP, 4), Ld(4, 1, Guest_SP, 8), Ld(4, 2, Guest_SP, 12),
    Ld(4, 3, Guest_SP, 16), Stp(29, 30), Blr(16), Ldp(29, 30)>>

lift_call_indirect(i, legacy32) ==
  CASE IsReg(i.a) -> <<MovR(16, HostReg[i.a.r])>> \o CallBridge(i)
    [] legacy32 -> LoadOp(i.a, i, 16, 4) \o LegacyBridge
    [] OTHER -> LoadOp(i.a, i, 16, 8) \o CallBridge(i)
------------------------------------------------------------------------------
(* Lifter::lift *)
lift(i, legacy32) ==
  CASE i.op = "mov" -> lift_mov(i)
    [] i.op = "movzx" -> lift_movzx_or_movsx(i, FALSE)
    [] i.op = "movsx" -> lift_movzx_or_movsx(i, TRUE)
    [] i.op = "movsxd" -> lift_movsxd(i)
    [] i.op = "add" -> lift_arith(i, "adds")
    [] i.op = "sub" -> lift_arith(i, "subs")
    [] i.op = "and" -> lift_bitop(i, "and")
    [] i.op = "or" -> lift_bitop(i, "orr")
    [] i.op = "xor" -> lift_xor(i)
    [] i.op = "test" -> lift_test(i)
    [] i.op = "lea" -> lift_lea(i)
    [] i.op = "cmp" -> lift_cmp(i)
    [] i.op \in {"inc", "dec"} -> lift_inc_dec(i, i.op = "inc")
    [] i.op \in {"div", "idiv", "mul"} \/ (i.op = "imul" /\ i.b = None) -> lift_divmul(i)
    [] i.op = "imul" -> lift_imul_n_operand(i)
    [] i.op \in {"adc", "sbb"} -> lift_addc(i, i.op = "adc")
    [] i.op = "neg" -> lift_neg(i)
    [] i.op = "not" -> lift_not(i)
    [] i.op = "cdq" -> lift_cdq(i)
    [] i.op = "cqo" -> lift_cqo(i)
    [] i.op = "leave" -> lift_leave(i)
    [] i.op = "xchg" -> lift_xchg(i)
    [] i.op \in {"bsf", "bsr"} -> lift_bitscan(i, i.op = "bsr")
    [] i.op = "cmpxchg" -> lift_cmpxchg(i)
    [] i.op = "xadd" -> lift_xadd(i)
    [] i.op = "cpuid" -> lift_cpuid(i)
    [] i.op = "rdtsc" -> lift_rdtsc(i)
    [] i.op = "bswap" -> lift_bswap(i)
    [] i.op = "shl" -> lift_shift(i, "lsl")
    [] i.op = "shr" -> lift_shift(i, "lsr")
    [] i.op = "sar" -> lift_shift(i, "asr")
    [] i.op \in {"rol", "ror"} -> lift_rotate(i, i.op = "rol")
    [] i.op = "cmov" -> lift_cmov(i)
    [] i.op = "set" -> lift_set(i)
    [] i.op = "push" -> lift_push(i)
    [] i.op = "pop" -> lift_pop(i)
    [] i.op = "call" -> lift_call_indirect(i, legacy32)
    [] i.op = "nop" -> <<[k |-> "nop"]>>
    [] i.op = "ret" -> <<[k |-> "ret"]>>      \* a terminator: no block has one in its body
    [] i.op \in {"int3", "ud2"} -> <<Brk>>
    [] i.op = "movs" -> lift_movs(i)
    [] i.op = "stos" -> lift_stos(i)
    [] OTHER -> Unsupported
------------------------------------------------------------------------------
(* The emitter's encoders, as far as an immediate can fail to fit.  An     *)
(* ADD or SUB immediate that does not fit panics (`expect`).  The offset   *)
(* of a load or store is only looked at by debug_assert: the dev build     *)
(* panics, the release build drops the remainder of an unaligned offset    *)
(* and lets one that is too large run into the opcode.                     *)
Fits(c) ==
  CASE c.k = "rri" /\ c.op \in {"add", "adds", "sub", "subs"} -> imm12_encodable(c.i)
    [] c.k \in {"ld", "st"} -> c.off % c.size = 0 /\ c.off \div c.size < 2^ImmBits
    [] OTHER -> TRUE

Unchecked(c) == c.k \in {"ld", "st"}    \* in the release build

encode(c) ==
  IF c.k \in {"ld", "st"}
  THEN IF c.off \div c.size < 2^ImmBits
       THEN [c EXCEPT !.off = c.size * (c.off \div c.size)] ELSE Brk
  ELSE c
------------------------------------------------------------------------------
VARIABLES inst, legacy32, start, code, pc, cpu, stage

vars == <<inst, legacy32, start, code, pc, cpu, stage>>

Reset(x, f, conv) ==
  [x |-> x, f |-> f, conv |-> conv, mem |-> << >>, acc |-> << >>, sp |-> << >>,
   call |-> << >>, trap |-> FALSE]
Blank == Reset([r \in Regs |-> 0], [n |-> 0, z |-> 0, c |-> 0, v |-> 0], "sub")

Init ==
  /\ stage = "idle" /\ inst = Inst("nop", None, None, None) /\ legacy32 = FALSE
  /\ start = Blank /\ cpu = Blank /\ code = << >> /\ pc = 1

(* Translate i: refuse it, panic, or have code to run. *)
Translate(i, s, legacy) ==
  /\ inst' = i /\ legacy32' = legacy /\ start' = s /\ cpu' = s /\ pc' = 1
  /\ \E c \in {lift(i, legacy)} :
       \/ /\ \E k \in DOMAIN c : c[k].k = "unsupported"
          /\ stage' = "refused" /\ code' = << >>
       \/ /\ \A k \in DOMAIN c : c[k].k # "unsupported"
          /\ \E k \in DOMAIN c : ~Fits(c[k])
          /\ stage' = "panicked" /\ code' = << >>
       \/ /\ \A k \in DOMAIN c : c[k].k # "unsupported" /\ (Fits(c[k]) \/ Unchecked(c[k]))
          /\ stage' = "running" /\ code' = [k \in DOMAIN c |-> encode(c[k])]

(* One host instruction. *)
Step ==
  /\ stage = "running" /\ pc \in DOMAIN code
  /\ cpu' = Exec(code[pc], cpu)
  /\ pc' = pc + Advance(code[pc], cpu)
  /\ UNCHANGED <<inst, legacy32, start, code, stage>>

(* The code has run to its end. *)
Retire ==
  /\ stage = "running" /\ pc \notin DOMAIN code
  /\ stage' = "done"
  /\ UNCHANGED <<inst, legacy32, start, code, pc, cpu>>

Next ==
  \/ /\ stage = "idle"
     /\ \E i \in Insts : \E s \in Starts(i), legacy \in BOOLEAN :
          (legacy => i.op = "call") /\ Translate(i, s, legacy)
  \/ Step
  \/ Retire

Spec == Init /\ [][Next]_vars
------------------------------------------------------------------------------
(* The guest state a host state stands for.  conv says whether the last    *)
(* instruction that set the flags was an addition (C is the carry) or a    *)
(* subtraction (C is the inverted borrow).                                 *)
GuestOf(h) ==
  [r |-> [g \in GpRegs |-> h.x[HostReg[g]]], gs |-> h.x[24], fs |-> h.x[25],
   f |-> [cf |-> IF h.conv = "sub" THEN 1 - h.f.c ELSE h.f.c,
          zf |-> h.f.z, sf |-> h.f.n, of |-> h.f.v],
   mem |-> h.mem, acc |-> << >>]
Expected == After(GuestOf(start), inst)

High(r) == GuestOf(start).r[r] \div 2^Bits(4)
CarryConds == {"B", "NB", "BE", "A"}

(* The displacement of every memory operand can be left to the load or     *)
(* store: it is a multiple of the operand's size, and small enough.        *)
FoldFits(o) ==
  o.k = "mem" /\ Folds(o.disp) =>
     o.disp % o.size = 0 /\ o.disp \div o.size < 2^ImmBits

(* The displacement is neither left to the load or store nor an immediate  *)
(* that ADD or SUB can encode: the address is computed through X17.        *)
AddressUsesX17(o) ==
  o.k = "mem" /\ o.disp # 0 /\ ~Folds(o.disp)
    /\ ~imm12_encodable(IF o.disp < 0 THEN -o.disp ELSE o.disp)

(* DIV and IDIV: the quotient exists, the dividend is an extension of rax, *)
(* the divisor is not rax, and in the 4-byte forms not in memory (X17 holds *)
(* it while rdx passes through X17) nor negative under a positive rax.      *)
DivExact(i, g) ==
  LET d == Value(g, i, i.a, i.a.size)
      size == i.a.size
      signed == i.op = "idiv"
      neg == signed /\ Signed(g.r["rax"], size) < 0
  IN  /\ d # 0 /\ i.a # R("rax", 8)
      /\ IF signed THEN InRange(Quotient(g, i), size) ELSE Quotient(g, i) < 2^Bits(size)
      /\ size = 8 => g.r["rdx"] = IF neg THEN 2^W - 1 ELSE 0
      /\ size = 4 => IsReg(i.a)
      /\ size = 4 /\ signed =>
           /\ Trunc(g.r["rdx"], 4) = IF neg THEN 2^Bits(4) - 1 ELSE 0
           /\ ~neg => Signed(d, 4) > 0

FlagNeutral ==
  {"mov", "movzx", "movsx", "movsxd", "lea", "push", "pop", "leave", "xchg", "not",
   "cmov", "set", "movs", "stos", "bswap", "cdq", "cqo", "rdtsc", "nop"}

(* An instruction that leaves the flags alone on x86 leaves NZCV alone, so *)
(* that it may stand between a comparison and the branch that uses it.     *)
FlagsSurvive == stage = "done" /\ inst.op \in FlagNeutral => cpu.f = start.f

(* Where the lowering is meant to be, and is, exact.  What is left out is  *)
(* what the code does differently from an x86 processor: the README lists  *)
(* the reason for each line.                                               *)
Exact(i) ==
  LET g == GuestOf(start) IN
  /\ FoldFits(i.a) /\ (i.op # "lea" => FoldFits(i.b))
  /\ IsReg(i.a) /\ i.op \notin {"cmp", "test"} =>
       i.a.size >= 4 \/ (i.op = "mov" /\ i.b.k = "imm" /\ i.a.size = 2)
  /\ i.op \in {"add", "sub", "and", "or", "xor"} /\ i.b.k = "imm" => ~AddressUsesX17(i.a)
  /\ i.op \in {"xchg", "xadd", "cmpxchg"} => i.b.size >= 4
  /\ i.op = "movsx" => i.a.size = 8
  /\ i.op = "lea" /\ i.b.k = "mem" =>
                        /\ i.b.index # i.a.r
                        /\ i.b.seg = "none"
                        /\ Folds(i.b.disp) => imm12_encodable(i.b.disp)
  /\ i.op \in {"push", "pop"} => i.a # R("rsp", 8)
  /\ i.op \in {"xchg", "cmov"} /\ i.a.size = 4 /\ IsReg(i.b) /\ IsReg(i.a) =>
       High(i.a.r) = 0 /\ High(i.b.r) = 0
  /\ i.op \in {"cmov", "set"} /\ i.c.cond \in CarryConds => start.conv = "sub"
  /\ i.op = "adc" => start.conv = "add"
  /\ i.op = "sbb" => start.conv = "sub"
  /\ i.op = "xadd" => i.a # i.b
  /\ i.op = "cmpxchg" /\ i.b.size = 4 => High("rax") = 0 /\ (IsReg(i.a) => High(i.a.r) = 0)
  /\ i.op = "shr" /\ i.a.size = 4 => High(i.a.r) = 0
  /\ i.op \in {"shl", "shr", "sar"} /\ i.a.size = 4 /\ IsReg(i.b) =>
       g.r["rcx"] % W < Bits(4)
  /\ i.op \in {"rol", "ror", "bsr"} => i.a.size = 8
  /\ i.op \in {"bsf", "bsr"} => Value(g, i, i.b, i.a.size) # 0
  /\ i.op \in {"mul", "imul"} /\ i.b = None /\ i.a.size = 8 => i.a # R("rax", 8)
  /\ i.op \in {"div", "idiv"} => DivExact(i, g)
  /\ i.op \notin {"cdq", "cpuid", "rdtsc", "call", "int3"}
------------------------------------------------------------------------------
(* Running the code that lifter.rs emits for an instruction leaves every   *)
(* guest register and every byte of memory as the instruction would on an  *)
(* x86 processor, makes the same accesses in the same order, leaves the    *)
(* host stack as it was, and translating it does not panic.  One that does *)
(* not touch the flags on x86 keeps NZCV.                                  *)
LoweringIsExact ==
  /\ stage = "panicked" => ~Exact(inst)
  /\ stage = "done" /\ Exact(inst) =>
       /\ \E x \in {Expected} :
            /\ [g \in GpRegs |-> cpu.x[HostReg[g]]] = x.r
            /\ cpu.mem = x.mem /\ cpu.acc = x.acc
       /\ cpu.sp = << >> /\ ~cpu.trap
  /\ FlagsSurvive

SubLike == {"cmp", "sub", "neg", "cmpxchg", "sbb"}
AddLike == {"add", "inc", "dec", "xadd", "adc", "test"}

(* After an 8-byte subtraction or comparison every condition a Jcc, CMOVcc *)
(* or SETcc tests has its x86 meaning when cond_x86_to_a64 has translated  *)
(* it; after an addition, INC, DEC or TEST those that do not look at the   *)
(* carry have.                                                             *)
ConditionsMeanX86 ==
  stage = "done" /\ Exact(inst) /\ inst.op \in SubLike \cup AddLike /\ inst.a.size = 8 =>
    \A c \in XConds \ (IF inst.op \in SubLike THEN {} ELSE CarryConds) :
       CondHolds(cond_x86_to_a64(c), cpu.f) <=> XCond(c, Expected.f)

NonVolatile == {"rbx", "rbp", "rsi", "rdi", "rsp", "r12", "r13", "r14", "r15"}

(* An indirect call hands the host function the target and the first eight *)
(* arguments of the Win64 convention, and whatever that function does to   *)
(* the registers its own convention lets it destroy, the guest gets back   *)
(* its non-volatile registers and the block its link register.             *)
CallCrossesConventions ==
  stage = "done" /\ inst.op = "call" /\ ~legacy32 /\ FoldFits(inst.a) =>
    LET g == GuestOf(start)
        arg(k) == LoadVal(g, Word(g.r["rsp"] + 8 * k), 8)
    IN  /\ cpu.call = <<Value(g, inst, inst.a, 8), g.r["rcx"], g.r["rdx"], g.r["r8"],
                        g.r["r9"], arg(4), arg(5), arg(6), arg(7)>>
        /\ \A r \in NonVolatile : cpu.x[HostReg[r]] = g.r[r]
        /\ cpu.x[30] = start.x[30] /\ cpu.x[28] = start.x[28] /\ cpu.sp = << >>

=============================================================================
