----------------------------- MODULE X86Manual -----------------------------
(***************************************************************************)
(* How x86 instructions are encoded, after the opcode tables of the        *)
(* architecture manuals: the reference that quantum-jit/src/decoder.rs is  *)
(* compared with.  A row says which bytes an instruction form has and      *)
(* which operands they carry; Assemble builds the bytes of a form for a    *)
(* choice of operands and Meaning says what they denote.  The direction is *)
(* that of an assembler: operands are chosen, prefixes and fields follow.  *)
(***************************************************************************)
EXTENDS IForm, FiniteSetsExt

(* Operand widths of a row: a number of bytes, the operand size (66 and    *)
(* REX.W select it), the operand size without its 16-bit form, at most     *)
(* four bytes of it, or the width of a stack slot.                         *)
V == 0
Y == 5
Z == 3
StackSlot == 16

(* Operand kinds: r/m, reg field, register in the opcode, accumulator, CL, *)
(* sign- and zero-extended immediates of n bytes read as operands of width *)
(* w, a literal, XMM r/m, XMM reg field, XMM register in r/m.              *)
E(w) == [k |-> "E", w |-> w, n |-> 0]
G(w) == [k |-> "G", w |-> w, n |-> 0]
O(w) == [k |-> "O", w |-> w, n |-> 0]
A(w) == [k |-> "A", w |-> w, n |-> 0]
CL == [k |-> "CL", w |-> 1, n |-> 0]
I(n, w) == [k |-> "I", w |-> w, n |-> n]
U(n, w) == [k |-> "U", w |-> w, n |-> n]
Lit(n) == [k |-> "L", w |-> 1, n |-> n]
WX(w) == [k |-> "W", w |-> w, n |-> 0]
VX(w) == [k |-> "V", w |-> w, n |-> 0]
NX(w) == [k |-> "N", w |-> w, n |-> 0]

NoDigit == -1
Row(op, prefix, opcode, digit, args) ==
  [op |-> op, prefix |-> prefix, opcode |-> opcode, digit |-> digit, args |-> args]
Plain(name, byte, args) == Row(<<name>>, <<>>, <<byte>>, NoDigit, args)
Group(name, byte, digit, args) == Row(<<name>>, <<>>, <<byte>>, digit, args)
Two(op, byte, args) == Row(op, <<>>, <<15, byte>>, NoDigit, args)
Sse(op, prefix, byte, args) == Row(op, prefix, <<15, byte>>, NoDigit, args)
P66 == <<102>>
PF2 == <<242>>
PF3 == <<243>>

ArithNames == <<"add", "or", "adc", "sbb", "and", "sub", "xor", "cmp">>
Arithmetic ==
  UNION { LET n == ArithNames[i + 1] IN
          { Plain(n, 8 * i, <<E(1), G(1)>>), Plain(n, 8 * i + 1, <<E(V), G(V)>>),
            Plain(n, 8 * i + 2, <<G(1), E(1)>>), Plain(n, 8 * i + 3, <<G(V), E(V)>>),
            Plain(n, 8 * i + 4, <<A(1), I(1, 1)>>), Plain(n, 8 * i + 5, <<A(V), I(Z, Z)>>),
            Group(n, 128, i, <<E(1), I(1, 1)>>), Group(n, 129, i, <<E(V), I(Z, Z)>>),
            Group(n, 131, i, <<E(V), I(1, 1)>>) } : i \in 0..7 }

ShiftNames == <<"rol", "ror", "rcl", "rcr", "shl", "shr", "shl", "sar">>
ShiftRows ==
  UNION { LET n == ShiftNames[d + 1] IN
          { Group(n, 192, d, <<E(1), U(1, 1)>>), Group(n, 193, d, <<E(V), U(1, 1)>>),
            Group(n, 208, d, <<E(1), Lit(1)>>), Group(n, 209, d, <<E(V), Lit(1)>>),
            Group(n, 210, d, <<E(1), CL>>), Group(n, 211, d, <<E(V), CL>>) } : d \in 0..7 }

UnaryNames == <<"not", "neg", "mul", "imul", "div", "idiv">>
UnaryRows ==
  UNION { {Group(UnaryNames[d - 1], 246, d, <<E(1)>>), Group(UnaryNames[d - 1], 247, d, <<E(V)>>)}
            : d \in 2..7 }
    \cup UNION { {Group("test", 246, d, <<E(1), I(1, 1)>>), Group("test", 247, d, <<E(V), I(Z, Z)>>)}
                   : d \in 0..1 }
    \cup UNION { {Group(<<"inc", "dec">>[d + 1], 254, d, <<E(1)>>),
                  Group(<<"inc", "dec">>[d + 1], 255, d, <<E(V)>>)} : d \in 0..1 }

Moves ==
  { Plain("mov", 136, <<E(1), G(1)>>), Plain("mov", 137, <<E(V), G(V)>>),
    Plain("mov", 138, <<G(1), E(1)>>), Plain("mov", 139, <<G(V), E(V)>>),
    Plain("mov", 176, <<O(1), I(1, 1)>>), Plain("mov", 184, <<O(V), I(V, V)>>),
    Group("mov", 198, 0, <<E(1), I(1, 1)>>), Group("mov", 199, 0, <<E(V), I(Z, Z)>>),
    Plain("lea", 141, <<G(V), E(V)>>), Plain("xchg", 134, <<E(1), G(1)>>),
    Plain("xchg", 135, <<E(V), G(V)>>), Plain("xchg", 144, <<A(V), O(V)>>),
    Plain("test", 132, <<E(1), G(1)>>), Plain("test", 133, <<E(V), G(V)>>),
    Plain("test", 168, <<A(1), I(1, 1)>>), Plain("test", 169, <<A(V), I(Z, Z)>>),
    Plain("push", 80, <<O(StackSlot)>>),
    Plain("pop", 88, <<O(StackSlot)>>), Group("pop", 143, 0, <<E(StackSlot)>>),
    Group("push", 255, 6, <<E(StackSlot)>>), Plain("push", 104, <<I(4, StackSlot)>>),
    Plain("push", 106, <<I(1, StackSlot)>>), Plain("imul", 105, <<G(V), E(V), I(Z, V)>>),
    Plain("imul", 107, <<G(V), E(V), I(1, V)>>) }
OneByte ==
  { Plain(p[1], p[2], <<>>) :
      p \in { <<"nop", 144>>, <<"cwde", 152>>, <<"cdq", 153>>, <<"pushfq", 156>>, <<"popfq", 157>>,
              <<"ret", 195>>, <<"leave", 201>>, <<"int3", 204>>, <<"hlt", 244>>, <<"cmc", 245>>,
              <<"clc", 248>>, <<"stc", 249>>, <<"cld", 252>>, <<"std", 253>> } }
Strings ==
  UNION { { Row(<<n>>, <<>>, <<b>>, NoDigit, <<Lit(1), Lit(0)>>), Row(<<n>>, PF3, <<b>>, NoDigit, <<Lit(1), Lit(1)>>),
            Row(<<n>>, <<>>, <<b + 1>>, NoDigit, <<Lit(4), Lit(0)>>),
            Row(<<n>>, PF3, <<b + 1>>, NoDigit, <<Lit(4), Lit(1)>>) }
            : <<n, b>> \in {<<"movs", 164>>, <<"stos", 170>>} }
Transfers ==
  { Row(<<"jcc", Cond[c + 1]>>, <<>>, <<112 + c>>, NoDigit, <<I(1, 1)>>) : c \in 0..15 }
    \cup { Two(<<"jcc", Cond[c + 1]>>, 128 + c, <<I(4, 4)>>) : c \in 0..15 }
    \cup { Plain("call", 232, <<I(4, 4)>>), Plain("jmp", 233, <<I(4, 4)>>), Plain("jmp", 235, <<I(1, 1)>>),
           Plain("ret_imm", 194, <<U(2, 2)>>), Plain("int", 205, <<U(1, 1)>>),
           Group("call_indirect", 255, 2, <<E(StackSlot)>>), Group("jmp_indirect", 255, 4, <<E(StackSlot)>>) }

TwoByte ==
  { Row(<<"nop">>, <<>>, <<15, 31>>, 0, <<E(V)>>), Two(<<"syscall">>, 5, <<>>), Two(<<"ud2">>, 11, <<>>), Two(<<"rdtsc">>, 49, <<>>), Two(<<"cpuid">>, 162, <<>>),
    Two(<<"bt">>, 163, <<E(V), G(V)>>), Two(<<"imul">>, 175, <<G(V), E(V)>>),
    Two(<<"cmpxchg">>, 176, <<E(1), G(1)>>), Two(<<"cmpxchg">>, 177, <<E(V), G(V)>>),
    Two(<<"movzx">>, 182, <<G(V), E(1)>>), Two(<<"movzx">>, 183, <<G(V), E(2)>>),
    Two(<<"bsf">>, 188, <<G(V), E(V)>>), Two(<<"bsr">>, 189, <<G(V), E(V)>>),
    Two(<<"movsx">>, 190, <<G(V), E(1)>>), Two(<<"movsx">>, 191, <<G(V), E(2)>>),
    Two(<<"xadd">>, 192, <<E(1), G(1)>>), Two(<<"xadd">>, 193, <<E(V), G(V)>>), Two(<<"bswap">>, 200, <<O(Y)>>) }
    \cup UNION { { Two(<<"cmov", Cond[c + 1]>>, 64 + c, <<G(V), E(V)>>), Two(<<"set", Cond[c + 1]>>, 144 + c, <<E(1)>>) }
                   : c \in 0..15 }
    \cup { Row(<<<<"bt", "bts", "btr", "btc">>[d - 3]>>, <<>>, <<15, 186>>, d, <<E(V), I(1, 1)>>) : d \in 4..7 }

(* Scalar and packed floating point: F2 and F3 select the scalar double    *)
(* and single, 66 and no prefix the packed ones.                           *)
FloatRows ==
  UNION { { Sse(<<n \o "_scalar">>, PF2, b, <<VX(8), WX(8)>>), Sse(<<n \o "_scalar">>, PF3, b, <<VX(4), WX(4)>>) }
            : <<n, b>> \in { <<"add", 88>>, <<"mul", 89>>, <<"sub", 92>>, <<"div", 94>>, <<"sqrt", 81>>,
                             <<"min", 93>>, <<"max", 95>> } }
    \cup UNION { { Sse(<<n \o "_packed">>, P66, b, <<VX(8), WX(8)>>), Sse(<<n \o "_packed">>, <<>>, b, <<VX(4), WX(4)>>) }
                   : <<n, b>> \in {<<"add", 88>>, <<"mul", 89>>, <<"sub", 92>>, <<"div", 94>>} }
    \cup UNION { { Sse(<<"ucomis_scalar">>, P66, b, <<VX(8), WX(8)>>), Sse(<<"ucomis_scalar">>, <<>>, b, <<VX(4), WX(4)>>) }
                   : b \in 46..47 }
    \cup UNION { { Sse(<<"cvt_int_to_scalar">>, p[1], 42, <<VX(p[2]), E(Y)>>),
                   Sse(<<"cvt_scalar_to_int_trunc">>, p[1], 44, <<G(Y), WX(p[2])>>),
                   Sse(<<"cvt_scalar_to_int">>, p[1], 45, <<G(Y), WX(p[2])>>) } : p \in {<<PF2, 8>>, <<PF3, 4>>} }
    \cup { Sse(<<"cvt_sd_to_ss">>, PF2, 90, <<VX(4), WX(8)>>), Sse(<<"cvt_ss_to_sd">>, PF3, 90, <<VX(8), WX(4)>>) }
VectorMoves ==
  { Sse(<<"movsd_xmm">>, PF2, 16, <<VX(8), WX(8)>>), Sse(<<"movss_xmm">>, PF3, 16, <<VX(4), WX(4)>>),
    Sse(<<"movsd_xmm">>, PF2, 17, <<WX(8), VX(8)>>), Sse(<<"movss_xmm">>, PF3, 17, <<WX(4), VX(4)>>),
    Sse(<<"movq_xmm">>, P66, 110, <<VX(Y), E(Y)>>), Sse(<<"movq_xmm">>, P66, 126, <<E(Y), VX(Y)>>),
    Sse(<<"movq_xmm">>, PF3, 126, <<VX(8), WX(8)>>), Sse(<<"movdq_xmm">>, P66, 111, <<VX(8), WX(8)>>),
    Sse(<<"movdq_xmm">>, PF3, 111, <<VX(8), WX(8)>>), Sse(<<"movdq_xmm">>, P66, 127, <<WX(8), VX(8)>>),
    Sse(<<"movdq_xmm">>, PF3, 127, <<WX(8), VX(8)>>), Sse(<<"pmovmskb">>, P66, 215, <<G(4), NX(8)>>) }
VectorInts ==
  { Sse(<<p[1]>>, P66, p[2], <<VX(8), WX(8)>>) :
      p \in { <<"pmullw", 213>>, <<"pxor", 239>>, <<"pand", 219>>, <<"por", 235>>, <<"paddq", 212>>,
              <<"psubq", 251>>, <<"paddd", 254>>, <<"psubd", 250>>, <<"paddw", 253>>, <<"psubw", 249>>,
              <<"paddb", 252>>, <<"psubb", 248>> } }
    \cup { Sse(<<"pshufd">>, P66, 112, <<VX(8), WX(8), U(1, 1)>>) }
    \cup { Sse(<<"pcmpeq", 2^k>>, P66, 116 + k, <<VX(8), WX(8)>>) : k \in 0..2 }
    \cup UNION { { Sse(<<"punpck_low", 2^k>>, P66, (IF k = 3 THEN 108 ELSE 96 + k), <<VX(8), WX(8)>>),
                   Sse(<<"punpck_high", 2^k>>, P66, (IF k = 3 THEN 109 ELSE 104 + k), <<VX(8), WX(8)>>) } : k \in 0..3 }
    \cup UNION { { Row(<<"psrl", 2^k>>, P66, <<15, 112 + k>>, 2, <<NX(8), U(1, 1)>>),
                   Row(<<"psll", 2^k>>, P66, <<15, 112 + k>>, 6, <<NX(8), U(1, 1)>>) } : k \in 1..3 }
    \cup { Row(<<"psra", 2^k>>, P66, <<15, 112 + k>>, 4, <<NX(8), U(1, 1)>>) : k \in 1..2 }
    \cup { Row(<<"psrldq">>, P66, <<15, 115>>, 3, <<NX(8), U(1, 1)>>), Row(<<"pslldq">>, P66, <<15, 115>>, 7, <<NX(8), U(1, 1)>>) }

(* Forms one mode has and the other does not.                              *)
LongOnly == { Row(<<"cqo">>, <<72>>, <<153>>, NoDigit, <<>>), Plain("movsxd", 99, <<G(Y), E(4)>>) }
LegacyOnly == { Plain("inc", 64, <<O(V)>>), Plain("dec", 72, <<O(V)>>) }
Rows ==
  Arithmetic \cup ShiftRows \cup UnaryRows \cup Moves \cup OneByte \cup Strings \cup Transfers \cup TwoByte
    \cup FloatRows \cup VectorMoves \cup VectorInts \cup LongOnly \cup LegacyOnly

-----------------------------------------------------------------------------
(* A place r/m can name: a register, a memory address with a displacement  *)
(* of 0, 1 or 4 bytes, or an address relative to the next instruction.     *)
InReg(n) == [k |-> "reg", n |-> n]
At(base, index, scale, disp) == [k |-> "mem", base |-> base, index |-> index, scale |-> scale, disp |-> disp]
AtRip(disp) == [k |-> "riprel", disp |-> disp]

Has(row, kinds) == \E i \in DOMAIN row.args : row.args[i].k \in kinds
HasWidth(row, w) == \E i \in DOMAIN row.args : row.args[i].w = w \/ (row.args[i].k \in {"I", "U"} /\ row.args[i].n = w)
UsesModRM(row) == row.digit # NoDigit \/ Has(row, {"E", "G", "W", "V", "N"})

(* Operand sizes the form exists in.                                       *)
SizesIn(row, long) ==
  IF HasWidth(row, V) \/ HasWidth(row, Z) THEN {2, 4} \cup (IF long THEN {8} ELSE {})
  ELSE IF HasWidth(row, Y) THEN {4} \cup (IF long THEN {8} ELSE {})
  ELSE IF HasWidth(row, StackSlot) THEN {2} \cup (IF long THEN {8} ELSE {4})
  ELSE {4}
WidthIn(w, o) == CASE w \in {V, Y, StackSlot} -> o [] w = Z -> (IF o = 2 THEN 2 ELSE 4) [] OTHER -> w

(* A choice c of operands: size o, reg field, r/m place, opcode register,  *)
(* immediate (a byte, repeated up to its width) and segment override.      *)
ByteReg(row, c, n) ==
  \E i \in DOMAIN row.args :
    /\ row.args[i].w = 1
    /\ \/ row.args[i].k = "G" /\ n = c.reg
       \/ row.args[i].k = "O" /\ n = c.z
       \/ row.args[i].k = "E" /\ c.rm.k = "reg" /\ n = c.rm.n
Rex(row, c) ==
  LET bit(b, v) == IF b THEN v ELSE 0
      bits == bit(c.o = 8 /\ ~HasWidth(row, StackSlot), 8) + bit(Has(row, {"G", "V"}) /\ c.reg >= 8, 4)
                + bit(c.rm.k = "mem" /\ c.rm.index >= 8, 2)
                + bit((c.rm.k = "reg" /\ c.rm.n >= 8) \/ (c.rm.k = "mem" /\ c.rm.base >= 8) \/ c.z >= 8, 1)
  IN  IF bits > 0 \/ \E n \in 4..7 : ByteReg(row, c, n) THEN <<64 + bits>> ELSE <<>>

ModRM(reg, rm, long) ==
  LET field(mod, low) == 64 * mod + 8 * (reg % 8) + low
      log2(s) == CHOOSE k \in 0..3 : 2^k = s
      sib(base) == 64 * log2(rm.scale) + 8 * (IF rm.index = NoReg THEN 4 ELSE rm.index % 8) + base
      mod == CASE Len(rm.disp) = 0 -> 0 [] Len(rm.disp) = 1 -> 1 [] OTHER -> 2
  IN  CASE rm.k = "reg" -> <<field(3, rm.n % 8)>>
        [] rm.k = "riprel" -> <<field(0, 5)>> \o rm.disp
        [] rm.k = "mem" /\ rm.base = NoReg /\ rm.index = NoReg /\ ~long -> <<field(0, 5)>> \o rm.disp
        [] rm.k = "mem" /\ rm.base = NoReg /\ (rm.index # NoReg \/ long) -> <<field(0, 4), sib(5)>> \o rm.disp
        [] rm.k = "mem" /\ rm.base # NoReg /\ (rm.index # NoReg \/ rm.base % 8 = 4) ->
             <<field(mod, 4), sib(rm.base % 8)>> \o rm.disp
        [] OTHER -> <<field(mod, rm.base % 8)>> \o rm.disp

ImmBytes(row, c) ==
  FlattenSeq([i \in DOMAIN row.args |->
    IF row.args[i].k \in {"I", "U"} THEN [j \in 1..WidthIn(row.args[i].n, c.o) |-> c.imm] ELSE <<>>])
(* FS and GS address; CS is a branch hint and LOCK changes no operand.     *)
SegPrefix(seg) ==
  CASE seg = "fs" -> <<100>> [] seg = "gs" -> <<101>> [] seg = "cs" -> <<46>> [] seg = "lock" -> <<240>> [] OTHER -> <<>>

Assemble(long, row, c) ==
  LET o == row.opcode
      opcode == IF Has(row, {"O"}) THEN Front(o) \o <<Last(o) + (c.z % 8)>> ELSE o
  IN  SegPrefix(c.seg) \o (IF c.o = 2 THEN P66 ELSE <<>>) \o row.prefix \o Rex(row, c) \o opcode
        \o (IF UsesModRM(row) THEN ModRM(IF row.digit = NoDigit THEN c.reg ELSE row.digit, c.rm, long) ELSE <<>>)
        \o ImmBytes(row, c)

(* The instruction those bytes denote.                                     *)
Place(rm, size, seg) ==
  LET disp(d) == IF d = <<>> THEN <<0, 0, 0, 0>> ELSE SignExtend(d, 4)
  IN  CASE rm.k = "reg" -> Reg(rm.n, size)
        [] rm.k = "riprel" -> RipRel(rm.disp, size)
        [] rm.k = "mem" -> Mem(rm.base, rm.index, rm.scale, disp(rm.disp), size, IF seg \in {"fs", "gs"} THEN seg ELSE "none")
Denotes(a, c) ==
  LET w == WidthIn(a.w, c.o)
      imm == [j \in 1..WidthIn(a.n, c.o) |-> c.imm]
  IN  CASE a.k = "E" -> Place(c.rm, w, c.seg)
        [] a.k = "G" -> Reg(c.reg, w)
        [] a.k = "O" -> Reg(c.z, w)
        [] a.k = "A" -> Reg(0, w)
        [] a.k = "CL" -> Reg(1, 1)
        [] a.k = "I" -> Imm(SignExtend(imm, 8), w)
        [] a.k = "U" -> Imm(ZeroExtend(imm, 8), w)
        [] a.k = "L" -> Imm(ZeroExtend(<<a.n>>, 8), 1)
        [] a.k = "V" -> XmmReg(c.reg, w)
        [] a.k = "N" -> XmmReg(c.rm.n, w)
        [] a.k = "W" -> IF c.rm.k = "reg" THEN XmmReg(c.rm.n, w) ELSE Place(c.rm, w, c.seg)
Meaning(row, c) ==
  [ op |-> row.op,
    operands |-> IF row.op = <<"nop">> THEN <<>> ELSE [i \in DOMAIN row.args |-> Denotes(row.args[i], c)] ]

(* Choices the form and the mode allow: eight registers and no             *)
(* RIP-relative address in legacy mode, byte registers above BL only with  *)
(* a REX prefix, no displacement-free RBP or R13 base, and an address      *)
(* where LEA wants one.                                                    *)
Encodable(long, row, c) ==
  /\ c.o \in SizesIn(row, long)
  /\ ~long => /\ c.reg < 8 /\ c.z < 8 /\ c.rm.k # "riprel"
              /\ c.rm.k = "reg" => c.rm.n < 8
              /\ c.rm.k = "mem" => c.rm.base < 8 /\ c.rm.index < 8
              /\ ~(\E n \in 4..7 : ByteReg(row, c, n))
  /\ c.rm.k = "mem" => /\ c.rm.index # 4
                       /\ c.rm.base = NoReg => Len(c.rm.disp) = 4
                       /\ c.rm.base # NoReg /\ c.rm.base % 8 = 5 => c.rm.disp # <<>>
  /\ c.rm.k # "reg" => ~Has(row, {"N"})
  /\ row.op = <<"lea">> => c.rm.k # "reg"
  /\ row \in LegacyOnly => ~long
  /\ row \in LongOnly => long
  /\ row.op = <<"xchg">> /\ Has(row, {"A"}) => c.z # 0
=============================================================================
