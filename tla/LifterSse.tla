------------------------------ MODULE LifterSse ------------------------------
(***************************************************************************)
(* The SSE half of quantum-jit/src/lifter.rs.  The guest's XMM registers   *)
(* live in GuestContext (X28); a lowering loads them into V16..V18, works  *)
(* there and stores back.  What matters is which bytes an instruction      *)
(* writes, keeps or clears and where each came from, so a byte is a symbol *)
(* (a byte of a register, of memory, zero, or of the result of a named     *)
(* lane operation), and arithmetic on lanes is not interpreted.            *)
(***************************************************************************)
EXTENDS Lifter

CONSTANTS SInsts,      \* SSE instructions translated
          Orders       \* outcomes of a floating-point comparison

Slots == 0..1
Memory == 16           \* the bytes at a memory operand's address,
Elsewhere == 17        \* those at any other
Places == Slots \cup {Memory, Elsewhere}
Lo(n) == 0..(n - 1)
Zero == <<"zero">>
Zeros == [b \in Lo(16) |-> Zero]

(* The low n bytes of w, the rest zero; w with its low n bytes from u. *)
Low(n, w) == [b \in Lo(16) |-> IF b < n THEN w[b] ELSE Zero]
Merge(n, u, w) == [b \in Lo(16) |-> IF b < n THEN u[b] ELSE w[b]]

(* Lane operations: each byte of a lane of n bytes is a function of the    *)
(* operands' lanes.  x EOR x is zero and x ORR x is x, whatever x is.      *)
LaneOf(n, w, b) == [j \in Lo(n) |-> w[n * (b \div n) + j]]
LaneWise(f, n, w, u) ==
  IF f = "eor" /\ w = u THEN Zeros
  ELSE IF f = "orr" /\ w = u THEN w
  ELSE [b \in Lo(16) |-> <<f, LaneOf(n, w, b), LaneOf(n, u, b), b % n>>]
Amount(n) == [b \in Lo(16) |-> <<"amount", n>>]
Convert(f, n, w, m) ==
  [b \in Lo(16) |-> IF b < m THEN <<f, LaneOf(n, w, 0), m, b>> ELSE Zero]
Interleave2(n, w, u, high) ==
  [b \in Lo(16) |->
     LET lane == b \div n
         from == (lane \div 2) * n + (b % n) + (IF high THEN 8 ELSE 0)
     IN  IF lane % 2 = 0 THEN w[from] ELSE u[from]]
Extract(k, w, u) == [b \in Lo(16) |-> IF b + k < 16 THEN w[b + k] ELSE u[b + k - 16]]
------------------------------------------------------------------------------
(* Host instructions on the vector file.  `at` is a place. *)
LdV(n, d, at)     == [k |-> "ldv", n |-> n, d |-> d, at |-> at]
StV(n, d, at)     == [k |-> "stv", n |-> n, d |-> d, at |-> at]
LdX(n, d, at)     == [k |-> "ldx", n |-> n, d |-> d, at |-> at]
StX(n, s, at, off) == [k |-> "stx", n |-> n, d |-> s, at |-> at, off |-> off]
MovX(d, s)        == [k |-> "movx", d |-> d, s |-> s]
Vec(f, n, d, a, b) == [k |-> "vec", f |-> f, n |-> n, d |-> d, a |-> a, b |-> b]
Scalar(f, n, d, a, b) == [k |-> "scalar", f |-> f, n |-> n, d |-> d, a |-> a, b |-> b]
ShiftV(f, n, d, i) == [k |-> "shiftv", f |-> f, n |-> n, d |-> d, i |-> i]
ZipV(n, high, d, a, b) == [k |-> "zip", n |-> n, high |-> high, d |-> d, a |-> a, b |-> b]
ExtV(i, d, a, b)  == [k |-> "ext", i |-> i, d |-> d, a |-> a, b |-> b]
InsS(d, dl, a, al) == [k |-> "ins", d |-> d, dl |-> dl, a |-> a, al |-> al]
CvtVX(f, n, d, s, m) == [k |-> "cvtvx", f |-> f, n |-> n, d |-> d, s |-> s, m |-> m]
CvtXV(f, n, d, s, m) == [k |-> "cvtxv", f |-> f, n |-> n, d |-> d, s |-> s, m |-> m]
CvtV(f, n, d, m)  == [k |-> "cvtv", f |-> f, n |-> n, d |-> d, m |-> m]
AddV(d)           == [k |-> "addv", d |-> d]
AndMask(d)        == [k |-> "andmask", d |-> d]
UMov(d, s)        == [k |-> "umov", d |-> d, s |-> s]
Bfi(d, s)         == [k |-> "bfi", d |-> d, s |-> s]
FCmp(n, a, b)     == [k |-> "fcmp", n |-> n, a |-> a, b |-> b]

(* General registers here are 16 bytes of which eight are used. *)
At(s, at) == s.at[at]
PutV(s, d, w) == [s EXCEPT !.v[d] = w]
PutX(s, d, w) == [s EXCEPT !.x[d] = w]
PutAt(s, at, w) == [s EXCEPT !.at[at] = w]

ExecV(i, s) ==
  CASE i.k = "ldv" -> PutV(s, i.d, Low(i.n, At(s, i.at)))
    [] i.k = "stv" -> PutAt(s, i.at, Merge(i.n, s.v[i.d], At(s, i.at)))
    [] i.k = "ldx" -> PutX(s, i.d, Low(i.n, At(s, i.at)))
    [] i.k = "stx" ->
         LET w == IF i.d = XZR THEN Zeros ELSE s.x[i.d]
         IN  PutAt(s, i.at, [b \in Lo(16) |->
               IF b \in i.off..(i.off + i.n - 1) THEN w[b - i.off] ELSE At(s, i.at)[b]])
    [] i.k = "movx" -> PutX(s, i.d, s.x[i.s])
    [] i.k = "vec" -> PutV(s, i.d, LaneWise(i.f, i.n, s.v[i.a], s.v[i.b]))
    [] i.k = "scalar" -> PutV(s, i.d, Low(i.n, LaneWise(i.f, i.n, s.v[i.a], s.v[i.b])))
    [] i.k = "shiftv" -> PutV(s, i.d, LaneWise(i.f, i.n, s.v[i.d], Amount(i.i)))
    [] i.k = "zip" -> PutV(s, i.d, Interleave2(i.n, s.v[i.a], s.v[i.b], i.high))
    [] i.k = "ext" -> PutV(s, i.d, Extract(i.i, s.v[i.a], s.v[i.b]))
    [] i.k = "ins" ->
         PutV(s, i.d, [b \in Lo(16) |-> IF b \div 4 = i.dl THEN s.v[i.a][4 * i.al + (b % 4)]
                                         ELSE s.v[i.d][b]])
    [] i.k = "cvtvx" -> PutV(s, i.d, Convert(i.f, i.n, s.x[i.s], i.m))
    [] i.k = "cvtxv" -> PutX(s, i.d, Convert(i.f, i.n, s.v[i.s], i.m))
    [] i.k = "cvtv" -> PutV(s, i.d, Convert(i.f, i.n, s.v[i.d], i.m))
    [] i.k = "addv" -> PutV(s, i.d, [Zeros EXCEPT ![0] = <<"sum", LaneOf(8, s.v[i.d], 0)>>])
    [] i.k = "andmask" -> PutV(s, i.d, [b \in Lo(16) |-> <<"bit", s.v[i.d][b], b % 8>>])
    [] i.k = "umov" -> PutX(s, i.d, Low(1, s.v[i.s]))
    [] i.k = "bfi" -> PutX(s, i.d, [Low(4, s.x[i.d]) EXCEPT ![1] = s.x[i.s][0]])
    [] i.k = "fcmp" -> [s EXCEPT !.cmp = <<LaneOf(i.n, s.v[i.a], 0), LaneOf(i.n, s.v[i.b], 0)>>]
------------------------------------------------------------------------------
(* Lowerings.  X(n, size) is an XMM operand, general operands are rax.     *)
X(n, size) == [k |-> "xmm", n |-> n, size |-> size]
SizedOp(a, b) == IF a.k = "xmm" THEN a.size ELSE b.size

(* Where an access of n bytes to a memory operand goes: Memory if the      *)
(* address that addr_into_xtmp computes in register t, with what the       *)
(* emitter makes of the leftover displacement, is the operand's.           *)
SRegs == Reset([r \in Regs |-> Word(4099 * r + 513)], [n |-> 0, z |-> 0, c |-> 0, v |-> 0], "sub")
Access(o, i, n, t) == Ld(n, t, t, addr_into_xtmp(o, i, t).off)
Reaches(o, i, n, t) ==
  LET after == FoldLeft(LAMBDA s, c : Exec(c, s), SRegs, addr_into_xtmp(o, i, t).code)
      ld == encode(Access(o, i, n, t))
  IN  ld.k = "ld" /\ Word(Reg(after, t) + ld.off) = EA(GuestOf(SRegs), i, o)
Place(o, i, n, t) ==
  CASE o.k = "xmm" -> o.n
    [] IsMem(o) -> IF Reaches(o, i, n, t) THEN Memory ELSE Elsewhere

ZeroFrom(at, n) ==
  (IF n = 4 THEN <<StX(4, XZR, at, 4)>> ELSE << >>) \o <<StX(8, XZR, at, 8)>>

lift_movq_xmm(i) ==
  LET a == i.a  b == i.b
      n == SizedOp(a, b)
  IN  CASE n \notin {4, 8} /\ ~(a.k = "xmm" /\ b.k = "xmm") -> Unsupported
        [] a.k = "xmm" /\ b.k = "xmm" ->
             <<LdV(8, 16, b.n), StV(8, 16, a.n)>> \o ZeroFrom(a.n, 8)
        [] a.k = "xmm" /\ IsReg(b) -> <<StX(n, rax, a.n, 0)>> \o ZeroFrom(a.n, n)
        [] a.k = "xmm" /\ IsMem(b) ->
             <<LdX(n, 16, Place(b, i, n, 17)), StX(n, 16, a.n, 0)>> \o ZeroFrom(a.n, n)
        [] IsReg(a) /\ b.k = "xmm" -> <<LdX(n, rax, b.n)>>
        [] IsMem(a) /\ b.k = "xmm" ->
             <<LdX(n, 16, b.n), StX(n, 16, Place(a, i, n, 17), 0)>>
        [] OTHER -> Unsupported

(* MOVSD and MOVSS: between registers the upper bytes stay, a load clears. *)
lift_movs_xmm(i, n) ==
  <<LdX(n, 16, Place(i.b, i, n, 17)), StX(n, 16, Place(i.a, i, n, 17), 0)>>
  \o (IF IsMem(i.b) THEN ZeroFrom(i.a.n, n) ELSE << >>)
lift_movsd_xmm(i) == lift_movs_xmm(i, 8)
lift_movss_xmm(i) == lift_movs_xmm(i, 4)
lift_movdq_xmm(i) ==
  <<LdV(16, 16, Place(i.b, i, 16, 17)), StV(16, 16, Place(i.a, i, 16, 17))>>

(* dst and src into V16 and V17, one vector instruction, V16 back. *)
ThroughQ(i, op) ==
  <<LdV(16, 16, i.a.n), LdV(16, 17, Place(i.b, i, 16, 17)), op, StV(16, 16, i.a.n)>>
lift_packed_logical(i, f) == ThroughQ(i, Vec(f, 16, 16, 16, 17))
lift_packed_arith(i, f, lane) == ThroughQ(i, Vec(f, lane, 16, 16, 17))
lift_pcmpeq(i, lane) == ThroughQ(i, Vec("cmeq", lane, 16, 16, 17))
lift_packed_fp(i, f) ==
  IF i.a.size \notin {4, 8} THEN Unsupported
  ELSE ThroughQ(i, Vec(f, i.a.size, 16, 16, 17))
lift_pmullw(i) == ThroughQ(i, Vec("mul", 2, 16, 16, 17))
lift_punpck(i, lane, high) == ThroughQ(i, ZipV(lane, high, 16, 16, 17))

lift_scalar_fp(i, f) ==
  LET n == i.a.size IN
  IF n \notin {4, 8} THEN Unsupported
  ELSE <<LdV(n, 16, i.a.n), LdV(n, 17, Place(i.b, i, n, 17)), Scalar(f, n, 16, 16, 17),
         StV(n, 16, i.a.n)>>

lift_sqrt_scalar(i) ==
  LET n == i.a.size IN
  IF n \notin {4, 8} THEN Unsupported
  ELSE <<LdV(n, 16, Place(i.b, i, n, 17)), CvtV("fsqrt", n, 16, n), StV(n, 16, i.a.n)>>

lift_ucomis(i) ==
  LET n == i.a.size IN
  IF n \notin {4, 8} THEN Unsupported
  ELSE <<LdV(n, 16, i.a.n), LdV(n, 17, Place(i.b, i, n, 17)), FCmp(n, 16, 17)>>

lift_cvt_int_to_scalar(i) ==
  LET n == i.b.size IN
  IF n \notin {4, 8} \/ i.a.size \notin {4, 8} THEN Unsupported
  ELSE (IF IsReg(i.b) THEN <<MovX(17, rax)>> ELSE <<LdX(n, 17, Place(i.b, i, n, 16))>>)
       \o <<CvtVX("scvtf", n, 16, 17, i.a.size), StV(i.a.size, 16, i.a.n)>>

lift_cvt_scalar_to_int(i, truncate) ==
  LET n == i.b.size IN
  IF n \notin {4, 8} \/ i.a.size \notin {4, 8} THEN Unsupported
  ELSE <<LdV(n, 16, Place(i.b, i, n, 17)),
         CvtXV(IF truncate THEN "fcvtzs" ELSE "fcvtns", n, rax, 16, i.a.size)>>

lift_cvt_precision(i, up) ==
  LET n == IF up THEN 4 ELSE 8
  IN  <<LdV(n, 16, Place(i.b, i, n, 17)), CvtV("fcvt", n, 16, 12 - n), StV(12 - n, 16, i.a.n)>>

lift_pmovmskb(i) ==
  <<LdV(16, 16, i.b.n), ShiftV("sshr", 1, 16, 7), AndMask(16), ExtV(8, 18, 16, 16),
    AddV(16), AddV(18), UMov(rax, 16), UMov(17, 18), Bfi(rax, 17)>>

lift_pshift_dq(i, left) ==
  LET n == i.b.v IN
  <<LdV(16, 16, i.a.n), Vec("eor", 16, 17, 17, 17)>>
  \o (CASE n = 0 -> << >>
        [] n >= 16 -> <<Vec("eor", 16, 16, 16, 16)>>
        [] n \in 1..15 /\ left -> <<ExtV(16 - n, 16, 17, 16)>>
        [] n \in 1..15 /\ ~left -> <<ExtV(n, 16, 16, 17)>>)
  \o <<StV(16, 16, i.a.n)>>

Selector(imm, lane) == (imm \div 4^lane) % 4
lift_pshufd_InPlace(i) ==
  LET ins(lane) == InsS(17, lane, 17, Selector(i.c.v, lane))
  IN  <<LdV(16, 17, Place(i.b, i, 16, 17)), ins(0), ins(1), ins(2), ins(3), StV(16, 17, i.a.n)>>
lift_pshufd(i) ==
  LET ins(lane) == IF Selector(i.c.v, lane) = lane THEN << >>
                   ELSE <<InsS(16, lane, 17, Selector(i.c.v, lane))>>
  IN  <<LdV(16, 17, Place(i.b, i, 16, 17)), Vec("orr", 16, 16, 17, 17)>>
      \o ins(0) \o ins(1) \o ins(2) \o ins(3) \o <<StV(16, 16, i.a.n)>>

lift_pshift_imm(i, lane, f) ==
  LET bits == 8 * lane
      n == i.b.v
      body == CASE n >= bits /\ f = "sshr" -> <<ShiftV(f, lane, 16, bits - 1)>>
                [] n >= bits /\ f # "sshr" -> <<Vec("eor", 16, 16, 16, 16)>>
                [] n = 0 -> << >>
                [] OTHER -> <<ShiftV(f, lane, 16, n)>>
  IN  IF lane \notin {2, 4, 8} \/ (f = "sshr" /\ lane = 8 /\ n # 0) THEN Unsupported
      ELSE <<LdV(16, 16, i.a.n)>> \o body \o <<StV(16, 16, i.a.n)>>

ScalarOps == [addscalar |-> "fadd", subscalar |-> "fsub", mulscalar |-> "fmul",
              divscalar |-> "fdiv", minscalar |-> "fmin", maxscalar |-> "fmax"]
LogicOps == [pxor |-> "eor", pand |-> "and", por |-> "orr"]
ArithOps == [paddq |-> <<"add", 8>>, psubq |-> <<"sub", 8>>, paddd |-> <<"add", 4>>,
             psubd |-> <<"sub", 4>>, paddw |-> <<"add", 2>>, psubw |-> <<"sub", 2>>,
             paddb |-> <<"add", 1>>, psubb |-> <<"sub", 1>>]
PackedOps == [addpacked |-> "fadd", subpacked |-> "fsub", mulpacked |-> "fmul",
              divpacked |-> "fdiv"]
ShiftOps == [psll |-> "shl", psrl |-> "ushr", psra |-> "sshr"]

(* The SSE arms of lift.  The lane of a lane-wise operation is i.c.v. *)
lift_sse(i) ==
  CASE i.op = "movq" -> lift_movq_xmm(i)
    [] i.op = "movsd" -> lift_movsd_xmm(i)
    [] i.op = "movss" -> lift_movss_xmm(i)
    [] i.op = "movdq" -> lift_movdq_xmm(i)
    [] i.op \in DOMAIN LogicOps -> lift_packed_logical(i, LogicOps[i.op])
    [] i.op \in DOMAIN ScalarOps -> lift_scalar_fp(i, ScalarOps[i.op])
    [] i.op = "cvtint" -> lift_cvt_int_to_scalar(i)
    [] i.op = "cvtscalar" -> lift_cvt_scalar_to_int(i, FALSE)
    [] i.op = "cvttscalar" -> lift_cvt_scalar_to_int(i, TRUE)
    [] i.op = "cvtss2sd" -> lift_cvt_precision(i, TRUE)
    [] i.op = "cvtsd2ss" -> lift_cvt_precision(i, FALSE)
    [] i.op = "ucomis" -> lift_ucomis(i)
    [] i.op = "sqrt" -> lift_sqrt_scalar(i)
    [] i.op \in DOMAIN ArithOps -> lift_packed_arith(i, ArithOps[i.op][1], ArithOps[i.op][2])
    [] i.op \in DOMAIN PackedOps -> lift_packed_fp(i, PackedOps[i.op])
    [] i.op = "pcmpeq" -> lift_pcmpeq(i, i.c.v)
    [] i.op \in DOMAIN ShiftOps -> lift_pshift_imm(i, i.c.v, ShiftOps[i.op])
    [] i.op = "pshufd" -> lift_pshufd(i)
    [] i.op = "pmullw" -> lift_pmullw(i)
    [] i.op = "pslldq" -> lift_pshift_dq(i, TRUE)
    [] i.op = "psrldq" -> lift_pshift_dq(i, FALSE)
    [] i.op = "punpckl" -> lift_punpck(i, i.c.v, FALSE)
    [] i.op = "punpckh" -> lift_punpck(i, i.c.v, TRUE)
    [] i.op = "pmovmskb" -> lift_pmovmskb(i)
------------------------------------------------------------------------------
VARIABLES sinst, vm, scode, spc, sstage

svars == <<sinst, vm, scode, spc, sstage>>

VBlank ==
  [at |-> [p \in Places |-> [b \in Lo(16) |-> <<"at", p, b>>]],
   v |-> [n \in 16..18 |-> [b \in Lo(16) |-> <<"v", n, b>>]],
   x |-> [n \in {rax, 16, 17} |-> [b \in Lo(16) |-> <<"x", n, b>>]],
   cmp |-> << >>, order |-> "none"]

SInit ==
  /\ sstage = "idle" /\ sinst = Inst("movq", X(0, 8), X(1, 8), None)
  /\ vm = VBlank /\ scode = << >> /\ spc = 1

(* The access i makes to memory, if its offset is one the emitter asserts. *)
AccessSize(i) ==
  CASE i.op \in {"movsd", "cvtsd2ss"} -> 8
    [] i.op \in {"movss", "cvtss2sd"} -> 4
    [] i.op \in {"movq"} -> SizedOp(i.a, i.b)
    [] i.op \in {"ucomis", "sqrt"} \cup DOMAIN ScalarOps -> i.a.size
    [] i.op \in {"cvtint", "cvtscalar", "cvttscalar"} -> i.b.size
    [] OTHER -> 16
Asserted(i) ==
  \A o \in {i.a, i.b} : IsMem(o) => Fits(Access(o, i, AccessSize(i), 17))

STranslate(i) ==
  /\ sinst' = i /\ vm' = VBlank /\ spc' = 1
  /\ \E c \in {lift_sse(i)} :
       \/ c = Unsupported /\ sstage' = "refused" /\ scode' = << >>
       \/ c # Unsupported /\ ~Asserted(i) /\ sstage' = "panicked" /\ scode' = << >>
       \/ c # Unsupported /\ sstage' = "running" /\ scode' = c

SStep ==
  /\ sstage = "running" /\ spc <= Len(scode)
  /\ \E o \in Orders :
       /\ scode[spc].k # "fcmp" => o = "eq"
       /\ vm' = [ExecV(scode[spc], vm) EXCEPT !.order = IF scode[spc].k = "fcmp" THEN o ELSE @]
  /\ spc' = spc + 1
  /\ UNCHANGED <<sinst, scode, sstage>>

SRetire ==
  /\ sstage = "running" /\ spc > Len(scode)
  /\ sstage' = "done"
  /\ UNCHANGED <<sinst, vm, scode, spc>>

SNext ==
  \/ /\ sstage = "idle"
     /\ \E i \in SInsts : STranslate(i)
  \/ SStep
  \/ SRetire

(* One instruction, of either half. *)
AllInit == Init /\ SInit
AllNext ==
  \/ sstage = "idle" /\ Next /\ UNCHANGED svars
  \/ stage = "idle" /\ SNext /\ UNCHANGED vars
------------------------------------------------------------------------------
(* What the instruction does on an x86 processor. *)
SValue(s, o) == IF IsReg(o) THEN s.x[rax] ELSE IF IsMem(o) THEN s.at[Memory] ELSE s.at[o.n]
SPut(s, o, w) ==
  IF IsReg(o) THEN PutX(s, rax, w)
  ELSE PutAt(s, IF IsMem(o) THEN Memory ELSE o.n, w)

(* The whole of the destination operand afterwards. *)
Result(s, i) ==
  LET a == SValue(s, i.a)
      b == SValue(s, i.b)
      n == AccessSize(i)
      sign(k) == <<"bit", LaneWise("sshr", 1, b, Amount(7))[k], k % 8>>
  IN
  CASE i.op \in {"movq", "movsd", "movss", "movdq"} /\ IsMem(i.a) -> Merge(n, b, a)
    [] i.op = "movq" /\ ~IsMem(i.a) -> Low(IF i.a.k = i.b.k THEN 8 ELSE n, b)
    [] i.op \in {"movsd", "movss"} /\ ~IsMem(i.a) ->
         IF IsMem(i.b) THEN Low(n, b) ELSE Merge(n, b, a)
    [] i.op = "movdq" /\ ~IsMem(i.a) -> b
    [] i.op \in DOMAIN LogicOps -> LaneWise(LogicOps[i.op], 16, a, b)
    [] i.op \in DOMAIN ArithOps -> LaneWise(ArithOps[i.op][1], ArithOps[i.op][2], a, b)
    [] i.op \in DOMAIN PackedOps -> LaneWise(PackedOps[i.op], i.a.size, a, b)
    [] i.op \in DOMAIN ScalarOps -> Merge(n, LaneWise(ScalarOps[i.op], n, a, b), a)
    [] i.op = "cvtint" -> Merge(i.a.size, Convert("scvtf", n, b, i.a.size), a)
    [] i.op = "cvtscalar" -> Convert("fcvtns", n, b, i.a.size)
    [] i.op = "cvttscalar" -> Convert("fcvtzs", n, b, i.a.size)
    [] i.op = "cvtss2sd" -> Merge(8, Convert("fcvt", 4, b, 8), a)
    [] i.op = "cvtsd2ss" -> Merge(4, Convert("fcvt", 8, b, 4), a)
    [] i.op = "sqrt" -> Merge(n, Convert("fsqrt", n, b, n), a)
    [] i.op = "pcmpeq" -> LaneWise("cmeq", i.c.v, a, b)
    [] i.op = "pmullw" -> LaneWise("mul", 2, a, b)
    [] i.op = "punpckl" -> Interleave2(i.c.v, a, b, FALSE)
    [] i.op = "punpckh" -> Interleave2(i.c.v, a, b, TRUE)
    [] i.op = "pshufd" -> [k \in Lo(16) |-> b[4 * Selector(i.c.v, k \div 4) + (k % 4)]]
    [] i.op = "pslldq" -> [k \in Lo(16) |-> IF k >= i.b.v THEN a[k - i.b.v] ELSE Zero]
    [] i.op = "psrldq" -> [k \in Lo(16) |-> IF k + i.b.v < 16 THEN a[k + i.b.v] ELSE Zero]
    [] i.op \in DOMAIN ShiftOps ->
         IF i.b.v = 0 THEN a
         ELSE IF i.b.v < 8 * i.c.v THEN LaneWise(ShiftOps[i.op], i.c.v, a, Amount(i.b.v))
         ELSE IF i.op = "psra" THEN LaneWise("sshr", i.c.v, a, Amount(8 * i.c.v - 1)) ELSE Zeros
    [] i.op = "pmovmskb" ->
         [k \in Lo(16) |-> IF k < 2 THEN <<"sum", [j \in Lo(8) |-> sign(8 * k + j)]>> ELSE Zero]
    [] i.op = "ucomis" -> a

(* The displacement of i's memory operand reaches the access: it is left   *)
(* to the load and fits there, or it fits the ADD or SUB that forms the    *)
(* address (past that X17, which holds the address, is used up as the      *)
(* scratch register of add64_imm_safe).                                    *)
AddressFits(i) ==
  \A o \in {i.a, i.b} : IsMem(o) /\ o.k = "mem" =>
    /\ Folds(o.disp) => /\ o.disp % AccessSize(i) = 0
                        /\ o.disp \div AccessSize(i) < 2^ImmBits
    /\ ~Folds(o.disp) => i.op = "cvtint" \/ imm12_encodable(IF o.disp < 0 THEN -o.disp ELSE o.disp)

(* The code emitted for an SSE instruction puts into every byte of its     *)
(* destination what the instruction does (computed, moved, kept or         *)
(* cleared) also when source and destination are the same register, and    *)
(* changes no other byte of the XMM slots, of memory or of rax.            *)
SseIsExact ==
  /\ sstage = "panicked" => ~AddressFits(sinst)
  /\ sstage = "done" /\ AddressFits(sinst) =>
       LET x == SPut(VBlank, sinst.a, Result(VBlank, sinst))
           low8(w) == [b \in Lo(8) |-> w[b]]
       IN  /\ vm.at = x.at
           /\ low8(vm.x[rax]) = low8(x.x[rax])

(* The host's flags after FCMP, the guest's after UCOMISS and UCOMISD. *)
FCmpFlags(o) ==
  [n |-> Bool(o = "lt"), z |-> Bool(o = "eq"), c |-> Bool(o # "lt"), v |-> Bool(o = "unordered")]
UcomisFlags(o) ==
  [cf |-> Bool(o \in {"lt", "unordered"}), zf |-> Bool(o \in {"eq", "unordered"}), sf |-> 0, of |-> 0]

(* A floating-point comparison compares its first operand with its second, *)
(* and the branch that follows goes the way it would on x86: JP and JNP    *)
(* always, JE, JNE, JA, JAE, JB and JBE when neither operand is a NaN.     *)
CompareOrdersBranches ==
  sstage = "done" /\ sinst.op = "ucomis" /\ AddressFits(sinst) =>
    /\ vm.cmp = <<LaneOf(sinst.a.size, SValue(VBlank, sinst.a), 0),
                  LaneOf(sinst.a.size, SValue(VBlank, sinst.b), 0)>>
    /\ CondHolds(cond_x86_to_a64("P"), FCmpFlags(vm.order)) <=> vm.order = "unordered"
    /\ CondHolds(cond_x86_to_a64("NP"), FCmpFlags(vm.order)) <=> vm.order # "unordered"
    /\ vm.order # "unordered" =>
         \A c \in {"E", "NE", "A", "NB", "B", "BE"} :
            CondHolds(cond_x86_to_a64(c), FCmpFlags(vm.order)) <=> XCond(c, UcomisFlags(vm.order))

(* Branches go the way they go on x86, after integer and after             *)
(* floating-point comparisons.                                             *)
BranchesGoTheX86Way == ConditionsMeanX86 /\ CompareOrdersBranches
=============================================================================
