------------------------------ MODULE Decoder ------------------------------
(***************************************************************************)
(* The x86 decoder (quantum-jit/src/decoder.rs) and the loop of            *)
(* translate_for_dispatcher (block.rs) that reads a basic block with it:   *)
(* prefixes, opcode tables, ModRM/SIB operands, immediates, the length of  *)
(* an instruction, and what becomes of a block whose bytes run out.        *)
(*                                                                         *)
(* The guest's code is a program assembled by the reference X86Manual; the *)
(* loop sees at most Window bytes of it, as run_loop in                    *)
(* quantum-cli/src/process.rs copies them.                                 *)
(*                                                                         *)
(* An arm of the decoder's tables is a form: an operation and the operands *)
(* it reads, in the notation of X86Manual with the widths worked out.      *)
(***************************************************************************)
EXTENDS X86Manual

CONSTANTS
  Programs,   \* [long, code]: the mode and the instructions [row, c] of a guest
  Windows(_)  \* numbers of bytes the loop may be given of a program

(* Sources of the reg field that do not extend it with REX.R, and a ModRM  *)
(* byte that is read and dropped.                                          *)
VLow(w) == [k |-> "VLow", w |-> w, n |-> 0]
ModOnly == [k |-> "ModOnly", w |-> 1, n |-> 0]

Form(op, args) == [op |-> op, args |-> args]
unhandled(args) == Form(<<"unhandled">>, args)
Peek(bytes, at) == IF at < Len(bytes) THEN bytes[at + 1] ELSE 0

LegacyPrefixes == {240, 242, 243, 102, 103, 46, 62, 38, 54, 100, 101}
read_prefixes(bytes, pos, long) ==
  LET ends == {e \in pos..Len(bytes) : Peek(bytes, e) \notin LegacyPrefixes}
      end == Min(ends)
      seen == {Peek(bytes, e) : e \in pos..(end - 1)}
      segs == {e \in pos..(end - 1) : Peek(bytes, e) \in {100, 101}}
      b == Peek(bytes, end)
      rex == long /\ b \in 64..79
      bit(v) == rex /\ (b \div v) % 2 = 1
  IN  [ repe |-> 243 \in seen, repne |-> 242 \in seen, osize |-> 102 \in seen,
        seg |-> IF segs = {} THEN "none" ELSE IF Peek(bytes, Max(segs)) = 100 THEN "fs" ELSE "gs",
        w |-> bit(8), r |-> bit(4), x |-> bit(2), b |-> bit(1),
        end |-> IF rex THEN end + 1 ELSE end ]

op_size_default32(p, long) == IF long /\ p.w THEN 8 ELSE IF p.osize THEN 2 ELSE 4
op_size_default64(p, long) == IF p.osize THEN 2 ELSE IF long THEN 8 ELSE 4
WideOr4(p) == IF p.w THEN 8 ELSE 4
ImmSize(size) == IF size = 2 THEN 2 ELSE 4
cond_from_low4(o) == Cond[(o % 16) + 1]

decode_arith_form(o, op, size) ==
  Form(op, CASE o % 8 = 0 -> <<E(1), G(1)>>
             [] o % 8 = 1 -> <<E(size), G(size)>>
             [] o % 8 = 2 -> <<G(1), E(1)>>
             [] o % 8 = 3 -> <<G(size), E(size)>>
             [] o % 8 = 4 -> <<A(1), I(1, 1)>>
             [] o % 8 = 5 -> <<A(size), I(ImmSize(size), ImmSize(size))>>)

GroupOps == <<"add", "or", "adc", "sbb", "and", "sub", "xor", "cmp">>
ArithRows(o, size) == decode_arith_form(o, <<GroupOps[(o \div 8) + 1]>>, size)
decode_group1(sub, size, imm) == Form(<<GroupOps[sub + 1]>>, <<E(size), I(imm, imm)>>)
decode_group2(sub, size, amount) ==
  Form(<<<<"rol", "ror", "rcl", "rcr", "shl", "shr", "shl", "sar">>[sub + 1]>>, <<E(size), amount>>)
decode_group3(sub, size) ==
  IF sub \in {0, 1}
  THEN LET imm == IF size = 8 THEN 4 ELSE size IN Form(<<"test">>, <<E(size), I(imm, imm)>>)
  ELSE Form(<<<<"not", "neg", "mul", "imul", "div", "idiv">>[sub - 1]>>, <<E(size)>>)
decode_group4(sub) ==
  IF sub \in {0, 1} THEN Form(<<<<"inc", "dec">>[sub + 1]>>, <<E(1)>>) ELSE unhandled(<<E(1)>>)
decode_group5(sub, size, call_size) ==
  CASE sub \in {0, 1} -> Form(<<<<"inc", "dec">>[sub + 1]>>, <<E(size)>>)
    [] sub \in {2, 4, 6} ->
         Form(<<CASE sub = 2 -> "call_indirect" [] sub = 4 -> "jmp_indirect" [] sub = 6 -> "push">>,
              <<E(call_size)>>)
    [] OTHER -> unhandled(<<E(size)>>)

(* The arms of decode_primary, by range of the opcode byte.                *)
StackRows(o, p, size, stack, long) ==
  CASE o \in 64..71 /\ ~long -> Form(<<"inc">>, <<O(size)>>)
    [] o \in 72..79 /\ ~long -> Form(<<"dec">>, <<O(size)>>)
    [] o \in 80..87 -> Form(<<"push">>, <<O(stack)>>)
    [] o \in 88..95 -> Form(<<"pop">>, <<O(stack)>>)
    [] o = 99 -> Form(<<"movsxd">>, <<G(WideOr4(p)), E(4)>>)
    [] o = 104 -> Form(<<"push">>, <<I(4, stack)>>)
    [] o = 106 -> Form(<<"push">>, <<I(1, stack)>>)
    [] o = 105 -> Form(<<"imul">>, <<G(size), E(size), I(ImmSize(size), size)>>)
    [] o = 107 -> Form(<<"imul">>, <<G(size), E(size), I(1, size)>>)
    [] o \in 112..127 -> Form(<<"jcc", cond_from_low4(o)>>, <<I(1, 1)>>)
    [] OTHER -> unhandled(<<>>)
MoveRows(o, p, size, stack, sub) ==
  CASE o = 128 -> decode_group1(sub, 1, 1)
    [] o = 129 -> decode_group1(sub, size, ImmSize(size))
    [] o = 131 -> decode_group1(sub, size, 1)
    [] o \in {132, 133, 134, 135, 136, 137} ->
         LET w == IF o % 2 = 0 THEN 1 ELSE size
         IN  Form(<<CASE o \in {132, 133} -> "test" [] o \in {134, 135} -> "xchg" [] o \in {136, 137} -> "mov">>,
                  <<E(w), G(w)>>)
    [] o = 138 -> Form(<<"mov">>, <<G(1), E(1)>>)
    [] o = 139 -> Form(<<"mov">>, <<G(size), E(size)>>)
    [] o = 141 -> Form(<<"lea">>, <<G(size), E(size)>>)
    [] o = 143 -> IF sub = 0 THEN Form(<<"pop">>, <<E(stack)>>) ELSE unhandled(<<E(stack)>>)
    [] o = 144 -> Form(<<"nop">>, <<>>)
    [] o \in 145..151 -> Form(<<"xchg">>, <<A(size), O(size)>>)
    [] o \in {152, 156, 157} ->
         Form(<<CASE o = 152 -> "cwde" [] o = 156 -> "pushfq" [] o = 157 -> "popfq">>, <<>>)
    [] o = 153 -> Form(<<IF p.w THEN "cqo" ELSE "cdq">>, <<>>)
    [] OTHER -> unhandled(<<>>)
ImmRows(o, p, size) ==
  CASE o = 168 -> Form(<<"test">>, <<A(1), I(1, 1)>>)
    [] o = 169 -> Form(<<"test">>, <<A(size), I(ImmSize(size), ImmSize(size))>>)
    [] o \in 176..183 -> Form(<<"mov">>, <<O(1), I(1, 1)>>)
    [] o \in 184..191 ->
         LET w == IF p.w THEN 8 ELSE IF p.osize THEN 2 ELSE 4 IN Form(<<"mov">>, <<O(w), I(w, w)>>)
    [] OTHER -> unhandled(<<>>)
StringRows(o, p) ==
  LET lane == IF o \in {164, 170} THEN 1 ELSE WideOr4(p)
      rep == IF p.repe THEN 1 ELSE 0
  IN  Form(<<IF o \in {164, 165} THEN "movs" ELSE "stos">>, <<Lit(lane), Lit(rep)>>)
MiscRows(o, size, sub) ==
  CASE o = 192 -> decode_group2(sub, 1, U(1, 1))
    [] o = 193 -> decode_group2(sub, size, U(1, 1))
    [] o = 194 -> Form(<<"ret_imm">>, <<U(2, 2)>>)
    [] o = 198 -> IF sub = 0 THEN Form(<<"mov">>, <<E(1), I(1, 1)>>) ELSE unhandled(<<E(1)>>)
    [] o = 199 -> IF sub = 0 THEN Form(<<"mov">>, <<E(size), I(ImmSize(size), ImmSize(size))>>)
                  ELSE unhandled(<<E(size)>>)
    [] o = 205 -> Form(<<"int">>, <<U(1, 1)>>)
    [] o \in {195, 201, 204} ->
         Form(<<CASE o = 195 -> "ret" [] o = 201 -> "leave" [] o = 204 -> "int3">>, <<>>)
    [] OTHER -> unhandled(<<>>)
TailRows(o, size, stack, sub) ==
  CASE o \in {208, 209} -> decode_group2(sub, IF o = 208 THEN 1 ELSE size, Lit(1))
    [] o \in {210, 211} -> decode_group2(sub, IF o = 210 THEN 1 ELSE size, CL)
    [] o = 232 -> Form(<<"call">>, <<I(4, 4)>>)
    [] o = 233 -> Form(<<"jmp">>, <<I(4, 4)>>)
    [] o = 235 -> Form(<<"jmp">>, <<I(1, 1)>>)
    [] o \in {244, 245, 248, 249, 252, 253} ->
         Form(<<CASE o = 244 -> "hlt" [] o = 245 -> "cmc" [] o = 248 -> "clc" [] o = 249 -> "stc"
                  [] o = 252 -> "cld" [] o = 253 -> "std">>, <<>>)
    [] o = 246 -> decode_group3(sub, 1)
    [] o = 247 -> decode_group3(sub, size)
    [] o = 254 -> decode_group4(sub)
    [] o = 255 -> decode_group5(sub, size, stack)
    [] OTHER -> unhandled(<<>>)

decode_primary(o, p, long, modrm) ==
  LET size == op_size_default32(p, long)
      stack == op_size_default64(p, long)
      sub == (modrm \div 8) % 8
  IN  CASE o <= 61 /\ o % 8 <= 5 -> ArithRows(o, size)
        [] o \in 64..127 -> StackRows(o, p, size, stack, long)
        [] o \in 128..159 -> MoveRows(o, p, size, stack, sub)
        [] o \in {164, 165, 170, 171} -> StringRows(o, p)
        [] o \in (160..191) \ {164, 165, 170, 171} -> ImmRows(o, p, size)
        [] o \in 192..207 -> MiscRows(o, size, sub)
        [] o \in 208..255 -> TailRows(o, size, stack, sub)
        [] OTHER -> unhandled(<<>>)

-----------------------------------------------------------------------------
(* The arms of decode_secondary, the opcodes after 0F.                     *)
Scalar(p) == p.repne \/ p.repe
FpSize(p) == IF p.repne THEN 8 ELSE 4
XmmForm(op, size) == Form(op, <<VX(size), WX(size)>>)
ShiftGroup(o, sub, mod) ==
  LET lane == 2^(o - 112)
      args == <<NX(8), U(1, 1)>>
  IN  CASE mod # 3 -> unhandled(<<ModOnly>>)
        [] mod = 3 /\ sub = 2 -> Form(<<"psrl", lane>>, args)
        [] mod = 3 /\ sub = 3 /\ lane = 8 -> Form(<<"psrldq">>, args)
        [] mod = 3 /\ sub = 4 /\ lane # 8 -> Form(<<"psra", lane>>, args)
        [] mod = 3 /\ sub = 6 -> Form(<<"psll", lane>>, args)
        [] mod = 3 /\ sub = 7 /\ lane = 8 -> Form(<<"pslldq">>, args)
        [] OTHER -> unhandled(args)
VectorMoveRows(o, p) ==
  LET scalar == <<IF p.repne THEN "movsd_xmm" ELSE "movss_xmm">>
  IN  CASE o = 16 /\ Scalar(p) -> XmmForm(scalar, FpSize(p))
        [] o = 17 /\ Scalar(p) -> Form(scalar, <<WX(FpSize(p)), VX(FpSize(p))>>)
        [] o = 110 /\ p.osize -> Form(<<"movq_xmm">>, <<VLow(WideOr4(p)), E(WideOr4(p))>>)
        [] o = 126 /\ p.osize -> Form(<<"movq_xmm">>, <<E(WideOr4(p)), VLow(WideOr4(p))>>)
        [] o = 126 /\ ~p.osize /\ p.repe -> XmmForm(<<"movq_xmm">>, 8)
        [] o = 111 /\ (p.osize \/ p.repe) -> XmmForm(<<"movdq_xmm">>, 8)
        [] o = 127 /\ (p.osize \/ p.repe) -> Form(<<"movdq_xmm">>, <<WX(8), VX(8)>>)
        [] OTHER -> unhandled(<<>>)
PackedRows(o, sub, mod) ==
  CASE o \in 113..115 -> ShiftGroup(o, sub, mod)
    [] o \in {96, 97, 98, 108} -> XmmForm(<<"punpck_low", IF o = 108 THEN 8 ELSE 2^(o - 96)>>, 8)
    [] o \in {104, 105, 106, 109} -> XmmForm(<<"punpck_high", IF o = 109 THEN 8 ELSE 2^(o - 104)>>, 8)
    [] o = 215 -> IF mod = 3 THEN Form(<<"pmovmskb">>, <<G(4), NX(8)>>) ELSE unhandled(<<ModOnly>>)
    [] o = 112 -> Form(<<"pshufd">>, <<VX(8), WX(8), U(1, 1)>>)
    [] o \in 116..118 -> XmmForm(<<"pcmpeq", 2^(o - 116)>>, 8)
    [] OTHER -> unhandled(<<>>)
PackedIntRows(o) ==
  LET names == [ b \in {213, 239, 219, 235, 212, 251, 254, 250, 253, 249, 252, 248} |->
                   CASE b = 213 -> "pmullw" [] b = 239 -> "pxor" [] b = 219 -> "pand" [] b = 235 -> "por"
                     [] b = 212 -> "paddq" [] b = 251 -> "psubq" [] b = 254 -> "paddd" [] b = 250 -> "psubd"
                     [] b = 253 -> "paddw" [] b = 249 -> "psubw" [] b = 252 -> "paddb" [] b = 248 -> "psubb" ]
  IN  IF o \in DOMAIN names THEN XmmForm(<<names[o]>>, 8) ELSE unhandled(<<>>)
FloatArms(o, p) ==
  LET name == CASE o = 88 -> "add" [] o = 89 -> "mul" [] o = 92 -> "sub" [] o = 94 -> "div"
                [] o = 81 -> "sqrt" [] o = 93 -> "min" [] o = 95 -> "max" [] OTHER -> "none"
      packed == IF p.osize THEN 8 ELSE 4
  IN  CASE o \in {88, 89, 92, 94} /\ Scalar(p) -> XmmForm(<<name \o "_scalar">>, FpSize(p))
        [] o \in {88, 89, 92, 94} /\ ~Scalar(p) -> XmmForm(<<name \o "_packed">>, packed)
        [] o = 42 /\ Scalar(p) -> Form(<<"cvt_int_to_scalar">>, <<VLow(FpSize(p)), E(WideOr4(p))>>)
        [] o = 44 /\ Scalar(p) -> Form(<<"cvt_scalar_to_int_trunc">>, <<G(WideOr4(p)), WX(FpSize(p))>>)
        [] o = 45 /\ Scalar(p) -> Form(<<"cvt_scalar_to_int">>, <<G(WideOr4(p)), WX(FpSize(p))>>)
        [] o = 90 /\ p.repne -> Form(<<"cvt_sd_to_ss">>, <<VX(4), WX(8)>>)
        [] o = 90 /\ ~p.repne /\ p.repe -> Form(<<"cvt_ss_to_sd">>, <<VX(8), WX(4)>>)
        [] o \in {46, 47} /\ ~Scalar(p) -> XmmForm(<<"ucomis_scalar">>, packed)
        [] o \in {81, 93, 95} /\ Scalar(p) -> XmmForm(<<name \o "_scalar">>, FpSize(p))
        [] OTHER -> unhandled(<<>>)
IntegerRows(o, p, size, sub) ==
  CASE o \in {5, 11, 49} -> Form(<<CASE o = 5 -> "syscall" [] o = 11 -> "ud2" [] o = 49 -> "rdtsc">>, <<>>)
    [] o = 162 /\ ~p.osize /\ ~Scalar(p) -> Form(<<"cpuid">>, <<>>)
    [] o = 31 -> Form(<<"nop">>, <<E(4)>>)
    [] o \in 64..79 -> Form(<<"cmov", cond_from_low4(o)>>, <<G(size), E(size)>>)
    [] o \in 128..143 -> Form(<<"jcc", cond_from_low4(o)>>, <<I(4, 4)>>)
    [] o \in 144..159 -> Form(<<"set", cond_from_low4(o)>>, <<E(1)>>)
    [] o = 163 -> Form(<<"bt">>, <<E(size), G(size)>>)
    [] o = 175 -> Form(<<"imul">>, <<G(size), E(size)>>)
    [] o \in {176, 192} -> Form(<<IF o = 176 THEN "cmpxchg" ELSE "xadd">>, <<E(1), G(1)>>)
    [] o \in {177, 193} -> Form(<<IF o = 177 THEN "cmpxchg" ELSE "xadd">>, <<E(size), G(size)>>)
    [] o \in {182, 190} -> Form(<<IF o = 182 THEN "movzx" ELSE "movsx">>, <<G(size), E(1)>>)
    [] o \in {183, 191} -> Form(<<IF o = 183 THEN "movzx" ELSE "movsx">>, <<G(size), E(2)>>)
    [] o = 186 -> IF sub < 4 THEN unhandled(<<E(size), I(1, 1)>>)
                  ELSE Form(<<<<"bt", "bts", "btr", "btc">>[sub - 3]>>, <<E(size), I(1, 1)>>)
    [] o \in {188, 189} -> Form(<<IF o = 188 THEN "bsf" ELSE "bsr">>, <<G(size), E(size)>>)
    [] o \in 200..207 -> Form(<<"bswap">>, <<O(WideOr4(p))>>)
    [] OTHER -> unhandled(<<>>)
decode_secondary(o, p, long, modrm) ==
  CASE o \in {16, 17, 110, 111, 126, 127} -> VectorMoveRows(o, p)
    [] o \in {42, 44, 45, 46, 47, 81} \cup 88..95 -> FloatArms(o, p)
    [] o \in (96..109) \cup (112..118) \cup {215} ->
         IF p.osize THEN PackedRows(o, (modrm \div 8) % 8, modrm \div 64) ELSE unhandled(<<>>)
    [] o \in (208..255) \ {215} -> IF p.osize THEN PackedIntRows(o) ELSE unhandled(<<>>)
    [] OTHER -> IntegerRows(o, p, op_size_default32(p, long), (modrm \div 8) % 8)

-----------------------------------------------------------------------------
(* decode_rm_memory: the operand and the offset after it.  `at` is the     *)
(* offset after the ModRM byte.                                            *)
Bytes(bytes, at, n) == [i \in 1..n |-> Peek(bytes, at + i - 1)]
Extended_NoRex(bit, field) == field
Extended(bit, field) == (IF bit THEN 8 ELSE 0) + field
decode_rm_memory(bytes, at, p, long, mod, rm, size) ==
  LET sib == Peek(bytes, at)
      hasSib == rm = 4
      base_idx == sib % 8
      index_idx == (sib \div 8) % 8
      base == IF ~hasSib THEN Extended(p.b, rm)
              ELSE IF mod = 0 /\ base_idx = 5 THEN NoReg ELSE Extended(p.b, base_idx)
      index == IF ~hasSib \/ (index_idx = 4 /\ ~p.x) THEN NoReg ELSE Extended(p.x, index_idx)
      after == IF hasSib THEN at + 1 ELSE at
      n == CASE mod = 0 -> (IF hasSib /\ base = NoReg THEN 4 ELSE 0) [] mod = 1 -> 1 [] OTHER -> 4
      disp == IF n = 0 THEN <<0, 0, 0, 0>> ELSE SignExtend(Bytes(bytes, after, n), 4)
  IN  IF mod = 0 /\ rm = 5
      THEN [ op |-> IF long THEN RipRel(Bytes(bytes, at, 4), size)
                    ELSE Mem(NoReg, NoReg, 1, Bytes(bytes, at, 4), size, p.seg),
             end |-> at + 4 ]
      ELSE [ op |-> Mem(base, index, IF hasSib THEN 2^(sib \div 64) ELSE 1, disp, size, p.seg),
             end |-> after + n ]

(* decode_modrm and decode_modrm_xmm: r/m as an operand of a.w bytes.      *)
decode_modrm(bytes, at, p, long, a) ==
  LET modrm == Peek(bytes, at)
      n == Extended(p.b, modrm % 8)
  IN  IF a.k = "ModOnly" THEN [op |-> Reg(0, 1), end |-> at + 1]
      ELSE IF modrm \div 64 = 3
      THEN [op |-> IF a.k = "E" THEN Reg(n, a.w) ELSE XmmReg(n, a.w), end |-> at + 1]
      ELSE decode_rm_memory(bytes, at + 1, p, long, modrm \div 64, modrm % 8, a.w)
RmKinds == {"E", "W", "N", "ModOnly"}
Truncated == [ok |-> FALSE, inst |-> Inst(<<"unhandled">>, <<>>, 0, 0)]

(* The operands, from the ModRM byte at `body` on, and the instruction.    *)
(* `rm` is its r/m operand, if the form has one, and the offset after it.  *)
read_operands(bytes, pos, p, opcode, reg, form, rm) ==
  LET imms == {i \in DOMAIN form.args : form.args[i].k \in {"I", "U"}}
      end == rm.end + (IF imms = {} THEN 0 ELSE form.args[Min(imms)].n)
      imm(a) == Bytes(bytes, rm.end, a.n)
      read(a) ==
        CASE a.k \in RmKinds -> rm.op
          [] a.k = "G" -> Reg(Extended(p.r, reg), a.w)
          [] a.k = "O" -> Reg(Extended(p.b, opcode % 8), a.w)
          [] a.k = "A" -> Reg(0, a.w)
          [] a.k = "CL" -> Reg(1, 1)
          [] a.k = "I" -> Imm(SignExtend(imm(a), 8), a.w)
          [] a.k = "U" -> Imm(ZeroExtend(imm(a), 8), a.w)
          [] a.k = "L" -> Imm(ZeroExtend(<<a.n>>, 8), 1)
          [] a.k = "V" -> XmmReg(Extended(p.r, reg), a.w)
          [] a.k = "VLow" -> XmmReg(reg, a.w)
      operands == IF form.op \in {<<"unhandled">>, <<"nop">>} THEN <<>>
                  ELSE [i \in DOMAIN form.args |-> read(form.args[i])]
  IN  IF end > Len(bytes) THEN Truncated
      ELSE [ok |-> TRUE, inst |-> Inst(form.op, operands, pos, end - pos)]

read_form(bytes, pos, long, p, opcode, body, form) ==
  LET rms == {i \in DOMAIN form.args : form.args[i].k \in RmKinds}
  IN  read_operands(bytes, pos, p, opcode, (Peek(bytes, body) \div 8) % 8, form,
        IF rms # {} THEN decode_modrm(bytes, body, p, long, form.args[Min(rms)])
        ELSE [op |-> Reg(0, 1), end |-> body])

read_opcode(bytes, pos, long, p) ==
  LET two == Peek(bytes, p.end) = 15
      at == IF two THEN p.end + 1 ELSE p.end
      opcode == Peek(bytes, at)
      modrm == Peek(bytes, at + 1)
  IN  read_form(bytes, pos, long, p, opcode, at + 1,
        IF two THEN decode_secondary(opcode, p, long, modrm) ELSE decode_primary(opcode, p, long, modrm))

(* next: one instruction at pos.  Every byte it needs is read in order; a  *)
(* read past the end is Truncated.                                         *)
next(bytes, pos, long) == read_opcode(bytes, pos, long, read_prefixes(bytes, pos, long))

-----------------------------------------------------------------------------
VARIABLES
  prog,     \* the guest program being read
  bytes,    \* the window the loop was given
  pos,      \* the decoder's position in it
  insts,    \* the instructions read so far
  exits,    \* what the translated block does and where it goes
  outcome   \* "decoding", "decoded", "block", "truncated", "refused", "panicked"
vars == <<prog, bytes, pos, insts, exits, outcome>>

Text(q) == FlattenSeq([i \in DOMAIN q.code |-> Assemble(q.long, q.code[i].row, q.code[i].c)])
Stop == -1
Dynamic == -2
(* The addresses a block may leave for, the return addresses it pushes and *)
(* the bytes it pops; `ran` of its instructions have been performed.       *)
Leave(to, push, pop, ran) == [to |-> to, push |-> push, pop |-> pop, ran |-> ran]

Init ==
  /\ prog \in Programs
  /\ \E w \in Windows(prog) : bytes = LET t == Text(prog) IN SubSeq(t, 1, Min({w, Len(t)}))
  /\ pos = 0 /\ insts = <<>> /\ exits = Leave({}, {}, 0, 0) /\ outcome = "decoding"

Terminators == {"jmp", "jcc", "ret", "ret_imm", "ud2", "jmp_indirect", "call"}

(* One turn of the loop of translate_for_dispatcher.                       *)
ReadOne ==
  /\ outcome = "decoding"
  /\ \E r \in {next(bytes, pos, prog.long)} :
       IF r.ok
       THEN /\ insts' = Append(insts, r.inst)
            /\ pos' = pos + r.inst.len
            /\ outcome' = IF r.inst.op[1] \in Terminators \/ pos' = Len(bytes) THEN "decoded" ELSE "decoding"
       ELSE outcome' = "truncated" /\ UNCHANGED <<insts, pos>>
  /\ UNCHANGED <<prog, bytes, exits>>

(* Operations Lifter::lift has no arm for.                                 *)
Unlifted ==
  { "pushfq", "popfq", "cwde", "rcl", "rcr", "bt", "bts", "btr", "btc", "call", "jmp_indirect", "ret_imm",
    "int", "hlt", "syscall", "cld", "std", "clc", "stc", "cmc", "jmp", "jcc", "unhandled" }

(* The terminator arms: where each leaves for, the return address a call   *)
(* pushes and what a return pops.  An instruction that is no terminator,   *)
(* the last the window holds, gets no code: the dispatcher is stopped.     *)
Imm16(t) == t.operands[1].v[1] + 256 * t.operands[1].v[2]
Exits_FromStart(t, n) ==
  LET target == t.guest_rip + I32(SubSeq(t.operands[1].v, 1, 4))
  IN  IF t.op[1] \in {"jmp", "call"} THEN Leave({target}, {}, 0, n) ELSE Leave({Stop}, {}, 0, n)
Exits(t, n) ==
  LET fall == t.guest_rip + t.len
      target == fall + I32(SubSeq(t.operands[1].v, 1, 4))
  IN  CASE t.op[1] = "jmp" -> Leave({target}, {}, 0, n)
        [] t.op[1] = "call" -> Leave({target}, {fall}, 0, n)
        [] t.op[1] = "jcc" -> Leave({target, fall}, {}, 0, n)
        [] t.op[1] = "ret" -> Leave({Dynamic}, {}, 8, n)
        [] t.op[1] = "ret_imm" -> Leave({Dynamic}, {}, 8 + Imm16(t), n)
        [] t.op[1] = "jmp_indirect" -> Leave({Dynamic}, {}, 0, n)
        [] t.op[1] = "ud2" -> Leave({Stop}, {}, 0, n)
        [] OTHER -> Leave({Stop}, {}, 0, n - 1)

(* encode_addsub_imm: the values ADD has an immediate for.                 *)
encode_addsub_imm(v) == v < 4096 \/ (v % 4096 = 0 /\ v \div 4096 < 4096)

(* add64_imm's expect: `ret imm16` with a value it cannot encode panics.   *)
AddPanics(t) == t.op[1] = "ret_imm" /\ ~encode_addsub_imm(8 + Imm16(t))

(* ldr64's debug_assert: the displacement an indirect jump leaves to the   *)
(* load is no multiple of 8, or too large for its field.  The dev build    *)
(* panics.                                                                 *)
LoadMayPanic(t) ==
  /\ t.op[1] = "jmp_indirect" /\ t.operands[1].k = "mem"
  /\ LET d == I32(t.operands[1].disp)
     IN  d > 0 /\ d < 2^24 /\ (d % 8 # 0 \/ d \div 8 >= 4096)

(* Lifting the body and emitting the terminator's exits.  Whether lift     *)
(* takes the operands of an operation it has an arm for is Lifter's part:  *)
(* here the body is lifted if every operation has one.                     *)
EmitBlock ==
  /\ outcome = "decoded"
  /\ LET t == Last(insts) IN
     IF \E i \in 1..(Len(insts) - 1) : insts[i].op[1] \in Unlifted
     THEN outcome' = "refused" /\ UNCHANGED exits
     ELSE \/ (AddPanics(t) \/ LoadMayPanic(t)) /\ outcome' = "panicked" /\ UNCHANGED exits
          \/ ~AddPanics(t) /\ outcome' = "block" /\ exits' = Exits(t, Len(insts))
  /\ UNCHANGED <<prog, bytes, pos, insts>>

Next == ReadOne \/ EmitBlock
Spec == Init /\ [][Next]_vars

-----------------------------------------------------------------------------
(* Forms the decoder reads otherwise than the manual: a 16-bit push of a   *)
(* four-byte immediate, a segment override of a RIP-relative address, XMM  *)
(* registers from 8 up where REX.R is left out, XCHG with R8 in the        *)
(* opcode.                                                                 *)
Exact(x) ==
  /\ ~(x.row.op = <<"push">> /\ x.row.opcode = <<104>> /\ x.c.o = 2)
  /\ ~(x.c.rm.k = "riprel" /\ x.c.seg # "none")
  /\ ~(x.row.opcode \in {<<15, 110>>, <<15, 42>>, <<15, 126>>} /\ x.row.prefix # PF3 /\ Has(x.row, {"V"}) /\ x.c.reg >= 8)
  /\ ~(x.row.opcode = <<15, 42>> /\ x.c.reg >= 8)
  /\ ~(x.row.op = <<"xchg">> /\ Has(x.row, {"O"}) /\ x.c.z % 8 = 0)
  /\ x.row \in Rows
AllExact(k) == \A j \in 1..k : j \in DOMAIN prog.code => Exact(prog.code[j])

(* The program's own account of itself: where instruction k starts and     *)
(* what it is.                                                             *)
Length(k) == Len(Assemble(prog.long, prog.code[k].row, prog.code[k].c))
StartOf(k) == FoldLeft(+, 0, [j \in 1..(k - 1) |-> Length(j)])
EndOf(k) == StartOf(k) + Length(k)
Written(k) ==
  LET m == Meaning(prog.code[k].row, prog.code[k].c) IN Inst(m.op, m.operands, StartOf(k), Length(k))

(* Every operation is one iform.rs declares and every register number      *)
(* exists: GpReg::from_index(..).unwrap() never fails.                     *)
TypeOK ==
  \A i \in DOMAIN insts :
    /\ insts[i].op \in Op
    /\ \A j \in DOMAIN insts[i].operands :
         LET a == insts[i].operands[j] IN
         /\ a.size \in OpSize
         /\ a.k \in {"reg", "xmm"} => a.n \in GpReg
         /\ a.k = "mem" => {a.base, a.index} \subseteq GpReg \cup {NoReg}

(* The decoder follows the program instruction by instruction: operation,  *)
(* operands, address and length of each are those it was assembled from,   *)
(* so it never loses the boundary of the next one (Decoder::next).         *)
DecodesProgram ==
  \A i \in DOMAIN insts : AllExact(i) => i <= Len(prog.code) /\ insts[i] = Written(i)

(* The program's first control transfer, and what it does to RSP where a   *)
(* stack slot has 8 bytes.                                                 *)
EndsAt == Min({k \in DOMAIN prog.code : prog.code[k].row.op[1] \in Terminators})
Pops(x) ==
  CASE x.row.op[1] = "ret" -> 8
    [] x.row.op[1] = "ret_imm" -> 8 + 257 * x.c.imm      \* both bytes of imm16 are c.imm
    [] OTHER -> 0

(* When the window holds the program's first control transfer, the block   *)
(* performs every instruction up to and with it, leaves for the addresses  *)
(* it names, and in 64-bit code pops what it pops.  When the window ends   *)
(* before that, exactly between two instructions, the block performs all   *)
(* but the last it holds and stops the dispatcher.                         *)
BlockLeavesWhereProgramDoes ==
  (outcome = "block" /\ AllExact(Len(prog.code))) =>
    LET t == EndsAt
        x == prog.code[t]
        rel == I32([j \in 1..WidthIn(x.row.args[1].n, x.c.o) |-> x.c.imm])
    IN  IF EndOf(t) <= Len(bytes)
        THEN /\ Len(insts) = t /\ exits.ran = t
             /\ exits.to = CASE x.row.op[1] \in {"jmp", "call"} -> {EndOf(t) + rel}
                             [] x.row.op[1] = "jcc" -> {EndOf(t) + rel, EndOf(t)}
                             [] x.row.op[1] = "ud2" -> {Stop}
                             [] OTHER -> {Dynamic}
             /\ exits.push = IF x.row.op[1] = "call" THEN {EndOf(t)} ELSE {}
             /\ prog.long => exits.pop = Pops(x)
        ELSE /\ Len(bytes) = EndOf(Len(insts))
             /\ exits = Leave({Stop}, {}, 0, Len(insts) - 1)

(* Emitting a block's end panics only for `ret imm16` whose immediate and  *)
(* the return address do not make a value that ADD can encode, and for an  *)
(* indirect jump through a positive displacement the load cannot hold.     *)
PanicsOnlyAtWideEnds ==
  (outcome = "panicked" /\ AllExact(Len(prog.code))) =>
    LET x == prog.code[EndsAt]
    IN  /\ EndOf(EndsAt) <= Len(bytes)
        /\ \/ Pops(x) > 4095 /\ Pops(x) % 4096 # 0
           \/ /\ x.row.op[1] = "jmp_indirect" /\ x.c.rm.k = "mem"
              /\ I32(x.c.rm.disp) > 0 /\ I32(x.c.rm.disp) \notin {8 * k : k \in 0..4095}

(* Translation runs out of bytes only when the window really cuts an       *)
(* instruction in two; all before it was read (Error::Truncated).          *)
TruncatedMeansCut ==
  (outcome = "truncated" /\ AllExact(Len(insts) + 1)) =>
    LET k == Len(insts) + 1 IN
    k <= Len(prog.code) /\ StartOf(k) < Len(bytes) /\ Len(bytes) < EndOf(k)

(* Together: translation ends where the program, or its window, does.      *)
BlockEndsWithProgram ==
  BlockLeavesWhereProgramDoes /\ PanicsOnlyAtWideEnds /\ TruncatedMeansCut
=============================================================================
