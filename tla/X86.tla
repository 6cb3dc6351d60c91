--------------------------------- MODULE X86 ---------------------------------
(***************************************************************************)
(* What the x86-64 manual says of the instructions the decoder produces    *)
(* (quantum-jit/src/iform.rs), on the scaled words of HostCpu: the         *)
(* reference the lowering is compared with.  A guest state is a record of  *)
(* registers r, flags f (cf, zf, sf, of), the bytes written (mem) and the  *)
(* accesses made (acc).                                                    *)
(***************************************************************************)
EXTENDS HostCpu, Folds

GpOrder ==
  <<"rax", "rcx", "rdx", "rbx", "rsp", "rbp", "rsi", "rdi",
    "r8", "r9", "r10", "r11", "r12", "r13", "r14", "r15">>
GpRegs == {GpOrder[n] : n \in DOMAIN GpOrder}

(* Operands and instructions.  RIP and the length of the instruction only *)
(* matter to operands relative to them: `next` is their sum.              *)
R(r, size)  == [k |-> "reg", r |-> r, size |-> size]
Imm(v)      == [k |-> "imm", v |-> v]
Mem(base, index, scale, disp, seg, size) ==
  [k |-> "mem", base |-> base, index |-> index, scale |-> scale, disp |-> disp,
   seg |-> seg, size |-> size]
RipRel(disp, size) == [k |-> "rip", disp |-> disp, size |-> size]
None        == [k |-> "none"]
When(c)     == [k |-> "cond", cond |-> c]
Inst(op, a, b, c) == [op |-> op, a |-> a, b |-> b, c |-> c, next |-> 37]
IsMem(o) == o.k \in {"mem", "rip"}
IsReg(o) == o.k = "reg"

(* The conditions of Jcc, CMOVcc and SETcc (P and NP are left out: the    *)
(* parity flag has no counterpart on the host).                           *)
XConds == {"E", "NE", "B", "NB", "BE", "A", "S", "NS", "L", "NL", "LE", "G", "O", "NO"}
XCond(c, f) ==
  CASE c = "E" -> f.zf = 1            [] c = "NE" -> f.zf = 0
    [] c = "B" -> f.cf = 1            [] c = "NB" -> f.cf = 0
    [] c = "BE" -> f.cf = 1 \/ f.zf = 1
    [] c = "A" -> f.cf = 0 /\ f.zf = 0
    [] c = "S" -> f.sf = 1            [] c = "NS" -> f.sf = 0
    [] c = "L" -> f.sf # f.of         [] c = "NL" -> f.sf = f.of
    [] c = "LE" -> f.zf = 1 \/ f.sf # f.of
    [] c = "G" -> f.zf = 0 /\ f.sf = f.of
    [] c = "O" -> f.of = 1            [] c = "NO" -> f.of = 0

Bool(b) == IF b THEN 1 ELSE 0
InRange(v, size) == v \in -(2^(Bits(size) - 1))..(2^(Bits(size) - 1) - 1)
ResultFlags(r, size, cf, of) ==
  [cf |-> cf, zf |-> Bool(Trunc(r, size) = 0),
   sf |-> Bit(Trunc(r, size), Bits(size) - 1), of |-> of]
AddResult(a, b, c, size) ==
  ResultFlags(a + b + c, size, Bool(a + b + c >= 2^Bits(size)),
              Bool(~InRange(Signed(a, size) + Signed(b, size) + c, size)))
SubResult(a, b, c, size) ==
  ResultFlags(a - b - c, size, Bool(a < b + c),
              Bool(~InRange(Signed(a, size) - Signed(b, size) - c, size)))
------------------------------------------------------------------------------
RegOr0(g, r) == IF r = "none" THEN 0 ELSE g.r[r]
SegBase(g, seg) == IF seg = "gs" THEN g.gs ELSE IF seg = "fs" THEN g.fs ELSE 0
Offset(g, i, o) ==
  IF o.k = "rip" THEN Word(i.next + o.disp)
  ELSE Word(RegOr0(g, o.base) + Word(RegOr0(g, o.index) * o.scale) + o.disp)
EA(g, i, o) ==
  Word(Offset(g, i, o) + (IF o.k = "mem" THEN SegBase(g, o.seg) ELSE 0))

Value(g, i, o, size) ==
  CASE o.k = "reg" -> Trunc(g.r[o.r], size)
    [] o.k = "imm" -> Trunc(o.v, size)
    [] OTHER -> LoadVal(g, EA(g, i, o), size)

Touch(g, i, o, kind) ==
  IF IsMem(o) THEN [g EXCEPT !.acc = Append(@, <<kind, EA(g, i, o), o.size>>)] ELSE g

(* A write of a register: 4 bytes clear the rest, 1 and 2 leave it. *)
PutReg(g, r, size, v) ==
  [g EXCEPT !.r[r] = IF size >= 4 THEN Trunc(v, size)
                     ELSE @ - Trunc(@, size) + Trunc(v, size)]
Put(g, i, o, v) ==
  IF IsReg(o) THEN PutReg(g, o.r, o.size, v)
  ELSE [Touch(g, i, o, "w") EXCEPT !.mem = StoreVal(@, EA(g, i, o), o.size, v)]

(* Division of rdx:rax; it faults (and is not compared) on a zero divisor *)
(* or a quotient that does not fit.  Only dividends that fit a word are   *)
(* considered at size 8.                                                  *)
Dividend(g, size, signed) ==
  IF size = 8 THEN IF signed THEN Signed(g.r["rax"], 8) ELSE g.r["rax"]
  ELSE LET w == Trunc(g.r["rdx"], 4) * 2^Bits(4) + Trunc(g.r["rax"], 4)
       IN  IF signed THEN Signed(w, 8) ELSE w
Quotient(g, i) ==
  LET signed == i.op = "idiv"
      d == Value(g, i, i.a, i.a.size)
  IN  Quot(Dividend(g, i.a.size, signed), IF signed THEN Signed(d, i.a.size) ELSE d)
LeftOver(n, s, q) ==
  LET p == (IF q < 0 THEN -q ELSE q) * (IF s < 0 THEN -s ELSE s)
  IN  IF n < 0 THEN n + p ELSE n - p
Remainder(g, i) ==
  LET signed == i.op = "idiv"
      d == Value(g, i, i.a, i.a.size)
      s == IF signed THEN Signed(d, i.a.size) ELSE d
  IN  LeftOver(Dividend(g, i.a.size, signed), s, Quotient(g, i))

Binary(g, i, v, f) == [Put(Touch(g, i, i.b, "r"), i, i.a, v) EXCEPT !.f = f]
Pair(g, size, lo, hi) == PutReg(PutReg(g, "rax", size, lo), "rdx", size, hi)

(* MOVS and STOS, once. *)
StringStep(g, i) ==
  LET size == i.a.v
      v == IF i.op = "movs" THEN LoadVal(g, g.r["rsi"], size) ELSE Trunc(g.r["rax"], size)
      to == g.r["rdi"]
  IN  [g EXCEPT !.mem = StoreVal(@, to, size, v), !.r["rdi"] = Word(to + size),
                !.r["rsi"] = IF i.op = "movs" THEN Word(@ + size) ELSE @,
                !.acc = @ \o (IF i.op = "movs" THEN <<<<"r", g.r["rsi"], size>>>> ELSE << >>)
                          \o <<<<"w", to, size>>>>]
RepStep(g, i) == [StringStep(g, i) EXCEPT !.r["rcx"] = @ - 1]

(* The state after instruction i; flags the manual leaves undefined, and   *)
(* those of operations whose flags are not compared, keep their value.     *)
(* g0 is the state before it, g the same with the read of the first operand *)
(* recorded, a and b are the operands' values.                             *)
Effect(g0, g, i, size, a, b) ==
  LET n == b % (IF size = 8 THEN W ELSE Bits(4))
      src == g.r["rsp"]
  IN
  CASE i.op = "mov" -> Put(Touch(g, i, i.b, "r"), i, i.a, b)
    [] i.op = "movzx" ->
         Put(Touch(g, i, i.b, "r"), i, i.a, Value(g, i, i.b, i.b.size))
    [] i.op \in {"movsx", "movsxd"} ->
         Put(Touch(g, i, i.b, "r"), i, i.a, Sext(Value(g, i, i.b, i.b.size), i.b.size))
    [] i.op = "lea" -> Put(g, i, i.a, Offset(g, i, i.b))
    [] i.op = "add" -> Binary(g, i, a + b, AddResult(a, b, 0, size))
    [] i.op = "sub" -> Binary(g, i, a - b, SubResult(a, b, 0, size))
    [] i.op = "adc" -> Binary(g, i, a + b + g.f.cf, AddResult(a, b, g.f.cf, size))
    [] i.op = "sbb" -> Binary(g, i, a - b - g.f.cf, SubResult(a, b, g.f.cf, size))
    [] i.op = "and" -> Binary(g, i, a & b, ResultFlags(a & b, size, 0, 0))
    [] i.op = "or" -> Binary(g, i, a | b, ResultFlags(a | b, size, 0, 0))
    [] i.op = "xor" -> Binary(g, i, a ^^ b, ResultFlags(a ^^ b, size, 0, 0))
    [] i.op = "cmp" -> [Touch(g, i, i.b, "r") EXCEPT !.f = SubResult(a, b, 0, size)]
    [] i.op = "test" ->
         [Touch(g, i, i.b, "r") EXCEPT !.f = ResultFlags(a & b, size, 0, 0)]
    [] i.op = "inc" ->
         [Put(g, i, i.a, a + 1) EXCEPT !.f = [AddResult(a, 1, 0, size) EXCEPT !.cf = g.f.cf]]
    [] i.op = "dec" ->
         [Put(g, i, i.a, a - 1) EXCEPT !.f = [SubResult(a, 1, 0, size) EXCEPT !.cf = g.f.cf]]
    [] i.op = "neg" -> [Put(g, i, i.a, -a) EXCEPT !.f = SubResult(0, a, 0, size)]
    [] i.op = "not" -> Put(g, i, i.a, Not64(a))
    [] i.op = "imul" /\ i.b = None ->
         IF size = 8 THEN Pair(g, 8, Product(a, g.r["rax"]).lo, SignedHigh(a, g.r["rax"]))
         ELSE LET p == Word(Signed(a, 4) * Signed(g.r["rax"], 4))
              IN  Pair(g, 4, p, p \div 2^Bits(4))
    [] i.op = "mul" ->
         IF size = 8 THEN Pair(g, 8, Product(a, g.r["rax"]).lo, Product(a, g.r["rax"]).hi)
         ELSE LET p == a * Trunc(g.r["rax"], 4) IN Pair(g, 4, p, p \div 2^Bits(4))
    [] i.op = "imul" ->
         LET g1 == Touch(g0, i, i.b, "r")
             y == IF i.c = None THEN a ELSE Trunc(i.c.v, size)
         IN  Put(g1, i, i.a, Product(b, y).lo)
    [] i.op \in {"div", "idiv"} -> Pair(g, size, Quotient(g, i), Remainder(g, i))
    [] i.op = "shl" -> Put(g, i, i.a, Trunc(a * 2^n, size))
    [] i.op = "shr" -> Put(g, i, i.a, a \div 2^n)
    [] i.op = "sar" -> Put(g, i, i.a, Signed(a, size) \div 2^n)
    [] i.op \in {"rol", "ror"} ->
         LET k == IF i.op = "ror" THEN n ELSE (Bits(size) - n) % Bits(size)
         IN  Put(g, i, i.a, a \div 2^k + (a % 2^k) * 2^(Bits(size) - k))
    [] i.op = "cmov" -> Put(g, i, i.a, IF XCond(i.c.cond, g.f) THEN b ELSE a)
    [] i.op = "set" -> Put(g, i, i.a, Bool(XCond(i.c.cond, g.f)))
    [] i.op = "xchg" ->
         IF IsMem(i.b) THEN PutReg(Put(Touch(g, i, i.b, "r"), i, i.b, a), i.a.r, size, b)
         ELSE PutReg(Put(g, i, i.a, b), i.b.r, i.b.size, a)
    [] i.op = "xadd" ->
         [Put(PutReg(g, i.b.r, size, a), i, i.a, a + b) EXCEPT !.f = AddResult(a, b, 0, size)]
    [] i.op = "cmpxchg" ->
         LET c == Trunc(g.r["rax"], size)
         IN  [(IF c = a THEN Put(g, i, i.a, b) ELSE PutReg(g, "rax", size, a))
                EXCEPT !.f = SubResult(c, a, 0, size)]
    [] i.op \in {"bsf", "bsr"} ->
         LET S == {k \in 0..(Bits(size) - 1) : Bit(b, k) = 1}
         IN  Put(Touch(g0, i, i.b, "r"), i, i.a, IF i.op = "bsf" THEN Min(S) ELSE Max(S))
    [] i.op = "bswap" -> Put(g, i, i.a, Rev(a, size))
    [] i.op = "cdq" -> PutReg(g, "rdx", 4, Sext(g.r["rax"], 4) \div 2^Bits(4))
    [] i.op = "cqo" -> PutReg(g, "rdx", 8, IF Signed(g.r["rax"], 8) < 0 THEN -1 ELSE 0)
    [] i.op = "leave" ->
         [g EXCEPT !.r["rsp"] = Word(g.r["rbp"] + 8),
                   !.r["rbp"] = LoadVal(g, g.r["rbp"], 8),
                   !.acc = Append(@, <<"r", g.r["rbp"], 8>>)]
    [] i.op = "push" ->
         [g EXCEPT !.r["rsp"] = Word(src - 8), !.mem = StoreVal(@, Word(src - 8), 8, Value(g, i, i.a, 8)),
                   !.acc = Append(@, <<"w", Word(src - 8), 8>>)]
    [] i.op = "pop" ->
         PutReg([g EXCEPT !.r["rsp"] = Word(src + 8), !.acc = Append(@, <<"r", src, 8>>)],
                i.a.r, 8, LoadVal(g, src, 8))
    [] i.op \in {"movs", "stos"} ->
         IF i.b = Imm(1)
         THEN FoldFunction(LAMBDA k, s : RepStep(s, i), g0, [k \in 1..g0.r["rcx"] |-> k])
         ELSE StringStep(g0, i)
    [] OTHER -> g0

After(g0, i) ==
  LET size == IF "size" \in DOMAIN i.a THEN i.a.size ELSE 8
      g == IF i.op \in {"mov", "movzx", "movsx", "movsxd", "lea", "set", "pop"}
           THEN g0 ELSE Touch(g0, i, i.a, "r")
  IN  Effect(g0, g, i, size, Value(g, i, i.a, size), Value(g, i, i.b, size))
=============================================================================
