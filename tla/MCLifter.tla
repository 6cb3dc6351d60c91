------------------------------ MODULE MCLifter ------------------------------
(***************************************************************************)
(* TLC instance of Lifter and LifterSse: every form of every instruction   *)
(* the lifter accepts, on operands at the edges of each width.  Bytes have *)
(* two bits, so a register has 16 and its lower half eight.                *)
(***************************************************************************)
EXTENDS LifterSse

Flags(n, z, c, v) == [n |-> n, z |-> z, c |-> c, v |-> v]

(* Memory operands: plain, indexed, segment-relative; displacements on     *)
(* both sides of every limit.                                              *)
MemOps(size) ==
  {Mem("rbx", "none", 1, d, "none", size) :
     d \in {0, size, 15 * size, 16 * size, 1, 256, 300, -8, -17}}
  \cup {Mem("rbx", "rsi", s, 0, "none", size) : s \in {1, 4}}
  \cup {Mem("none", "rsi", 2, 0, "gs", size), RipRel(-5, size)}
MemOp(size) ==
  {Mem("rbx", "rsi", 2, 2 * size, "fs", size), RipRel(-5, size)}
  \cup {Mem("rbx", "none", 1, d, "none", size) : d \in {15 * size, 16 * size, 1, 256, -8, -17}}
Imms == {Imm(v) : v \in {-1, 1, 15, 17, 32, 300}}

Both(ops, S) == {Inst(op, s[1], s[2], None) : op \in ops, s \in S}
RR(sizes) == {<<R("rax", z), R(r, z)>> : z \in sizes, r \in {"rax", "rcx"}}
RI(sizes) == {<<R("rax", z), v>> : z \in sizes, v \in Imms}
RM(sizes) == UNION {{<<R("rax", z), m>> : m \in MemOp(z)} : z \in sizes}
MR(sizes) == UNION {{<<m, R("rcx", z)>> : m \in MemOp(z)} : z \in sizes}
MI(sizes) == UNION {{<<m, v>> : m \in MemOp(z), v \in {Imm(1), Imm(-1)}} : z \in sizes}
AllForms == RR(Sizes) \cup RI(Sizes) \cup RM(Sizes) \cup MR(Sizes) \cup MI(Sizes)

OneOp(ops, S) == {Inst(op, a, None, None) : op \in ops, a \in S}
RegsOf(sizes) == {R(r, z) : r \in {"rax", "rcx"}, z \in sizes}
RegMem(sizes) == RegsOf(sizes) \cup UNION {MemOp(z) : z \in sizes}

Addressing ==
  UNION {{Inst("mov", R("rcx", z), m, None) : m \in MemOps(z)} : z \in {1, 4, 8}}
  \cup UNION {{Inst("mov", m, R("rcx", z), None) : m \in MemOps(z)} : z \in {2, 8}}
  \cup UNION {{Inst("lea", R(r, z), m, None) : m \in MemOps(z)} : r \in {"rax", "rbx", "rsi"}, z \in {4, 8}}

Extends == {Inst(op, R("rax", z), R("rcx", s), None) : op \in {"movzx", "movsx"}, z \in {4, 8}, s \in {1, 2}}
  \cup UNION {{Inst(op, R("rax", 8), m, None) : m \in MemOp(s)} : op \in {"movzx", "movsx"}, s \in {1, 2}}
  \cup {Inst("movsxd", R("rax", 8), R("rcx", 4), None)}

Shifts == {Inst(op, R("rax", z), n, None) : op \in {"shl", "shr", "sar", "rol", "ror"},
             z \in {4, 8}, n \in {Imm(0), Imm(1), Imm(7), Imm(9), R("rcx", 1)}}

Muls == OneOp({"mul", "imul", "div", "idiv"}, RegMem({4, 8}) \cup {R("rdx", 4)})
  \cup {Inst("imul", R("rax", z), b, c) : z \in {4, 8}, c \in {None, Imm(-3), Imm(17)},
          b \in {R("rcx", 4), R("rcx", 8)}}

Conditional == {Inst(op, R("rax", z), IF op = "cmov" THEN R("rcx", z) ELSE None, When(c)) :
                  op \in {"cmov", "set"}, z \in {4, 8}, c \in XConds}

Rest ==
  Both({"xchg", "cmpxchg", "xadd"}, RR({4, 8}) \cup MR({1, 4, 8})
                                      \cup {<<R("rcx", z), R("rdx", z)>> : z \in {4, 8}})
  \cup Both({"bsf", "bsr"}, {<<R("rax", z), R("rcx", z)>> : z \in {4, 8}} \cup RM({4, 8}))
  \cup Both({"adc", "sbb"}, RR({4, 8}) \cup RI({4, 8}) \cup RM({8}))
  \cup OneOp({"bswap"}, RegsOf({4, 8}))
  \cup OneOp({"push"}, {R("rax", 8), R("rsp", 8), Imm(-2)} \cup MemOp(8))
  \cup OneOp({"pop"}, {R("rax", 8), R("rsp", 8)})
  \cup OneOp({"cdq", "cqo", "leave", "cpuid", "rdtsc", "nop", "int3"}, {None})
  \cup OneOp({"call"}, {R("rax", 8), R("rbx", 8), RipRel(3, 8)} \cup MemOp(8))
  \cup {Inst(op, Imm(z), Imm(rep), None) : op \in {"movs", "stos"}, z \in Sizes, rep \in {0, 1}}

MCInsts ==
  Both({"mov", "add", "sub", "and", "or", "xor", "test", "cmp"}, AllForms)
  \cup OneOp({"inc", "dec", "neg", "not"}, RegMem(Sizes))
  \cup Addressing \cup Extends \cup Shifts \cup Muls \cup Conditional \cup Rest

(* Register files: rax and rcx at the edges (fewer where the address is    *)
(* what varies), rdx where it is an input, the others distinct.            *)
Edge == {0, 1, 127, 128, 255, 256, 32767, 32768, 65535}
Few == {1, 128, 65535}
Background(r) == Word(4099 * r + 513)
Set(x, y, z) ==
  [r \in Regs |-> CASE r = 0 -> x [] r = 1 -> y [] r = 2 -> z
                    [] OTHER -> Background(r)]
MCStarts(i) ==
  LET addressing == \E o \in {i.a, i.b} : IsMem(o) /\ (o.k = "mem" => o.index = "none")
      A == IF addressing \/ i.op \in {"lea", "call", "push", "pop", "leave", "nop", "int3"}
           THEN Few ELSE Edge
      B == IF i.op \in {"movs", "stos"} THEN {0, 1, 3}
           ELSE IF i.b.k = "imm" \/ i.op \in {"lea", "call", "push", "pop", "leave", "nop", "int3"} THEN {3}
           ELSE IF addressing THEN Few ELSE Edge
      D == IF i.op \in {"div", "idiv", "mul", "imul"} THEN {0, 2, 255, 65535} ELSE {77}
      reads == i.op \in {"adc", "sbb", "cmov", "set"}
      F == IF reads THEN {Flags(0, 1, 1, 0), Flags(1, 0, 0, 1), Flags(1, 0, 1, 0)}
           ELSE {Flags(1, 0, 1, 1)}
  IN  {Reset(Set(x, y, z), f, conv) : x \in A, y \in B, z \in D, f \in F,
         conv \in IF reads THEN {"add", "sub"} ELSE {"sub"}}
------------------------------------------------------------------------------
(* SSE: every form of every operation, on one register and on two, in      *)
(* memory at displacements on both sides of every limit, with immediates   *)
(* on both sides of each width.                                            *)
VMem(size) ==
  {Mem("rbx", "none", 1, d, "none", size) : d \in {0, 16, 240, 256, 8, -8, -17, 300}}
  \cup {Mem("rbx", "rsi", 2, -16, "gs", size), RipRel(-5, size)}
XX(size) == {<<X(0, size), X(n, size)>> : n \in Slots}
XM(size) == {<<X(0, size), m>> : m \in VMem(size)}
MX(size) == {<<m, X(0, size)>> : m \in VMem(size)}
GX(size) == {<<R("rax", z), X(1, size)>> : z \in {4, 8}}
XG(size) == {<<X(1, size), R("rax", z)>> : z \in {4, 8}}
Scalars == UNION {XX(z) \cup XM(z) : z \in {4, 8}}

MCSInsts ==
  UNION {Both({"movq"}, XX(z) \cup XM(z) \cup MX(z) \cup {<<X(1, z), R("rax", z)>>, <<R("rax", z), X(1, z)>>}) :
           z \in {2, 4, 8}}
  \cup Both({"movsd", "cvtsd2ss"}, XX(8) \cup XM(8)) \cup Both({"movsd"}, MX(8))
  \cup Both({"movss", "cvtss2sd"}, XX(4) \cup XM(4)) \cup Both({"movss"}, MX(4))
  \cup Both({"movdq"}, XX(8) \cup XM(8) \cup MX(8))
  \cup Both(DOMAIN LogicOps \cup DOMAIN ArithOps \cup {"pmullw"}, XX(8) \cup XM(8))
  \cup Both(DOMAIN ScalarOps \cup {"sqrt", "ucomis"}, Scalars \cup XX(2))
  \cup Both(DOMAIN PackedOps, Scalars \cup XX(2))
  \cup Both({"cvtint"}, UNION {XG(z) : z \in {4, 8}} \cup XM(8) \cup XM(4))
  \cup Both({"cvtscalar", "cvttscalar"},
            UNION {GX(z) : z \in {4, 8}} \cup {<<R("rax", 4), m>> : m \in VMem(8)})
  \cup Both({"pmovmskb"}, {<<R("rax", 4), X(n, 8)>> : n \in Slots})
  \cup {Inst(op, s[1], s[2], Imm(lane)) : op \in {"pcmpeq", "punpckl", "punpckh"},
          s \in XX(8) \cup XM(8), lane \in Sizes}
  \cup {Inst(op, X(0, 8), Imm(n), Imm(lane)) : op \in DOMAIN ShiftOps,
          n \in {0, 1, 15, 16, 31, 32, 63, 64}, lane \in {1, 2, 4, 8}}
  \cup {Inst("pshufd", s[1], s[2], Imm(n)) : s \in XX(8) \cup XM(8),
          n \in {0, 27, 228, 177, 78, 147}}
  \cup {Inst(op, X(0, 8), Imm(n), None) : op \in {"pslldq", "psrldq"}, n \in {0, 1, 8, 15, 16, 17}}
=============================================================================
