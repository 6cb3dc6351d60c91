------------------------------- MODULE HostCpu -------------------------------
(***************************************************************************)
(* The AArch64 instructions the lifter emits, as quantum-jit/src/lifter.rs *)
(* uses them.  A byte has ByteBits bits instead of eight, so a register    *)
(* has 8 * ByteBits and every width keeps its ratio to the others.  The    *)
(* state of the machine is a record: registers x (31 is XZR), flags f,     *)
(* the bytes written so far (mem, over a background that is a function of  *)
(* the address), the loads and stores made (acc), the words pushed on the  *)
(* host stack (sp) and the last call made through BLR (call).              *)
(***************************************************************************)
EXTENDS Integers, Sequences, FiniteSetsExt, TLC, Bitwise

CONSTANT ByteBits

ASSUME ByteBitsAssumption == ByteBits \in Nat \ {0}

Bits(size) == size * ByteBits
W == Bits(8)
Sizes == {1, 2, 4, 8}
XZR == 31
Regs == 0..31

Trunc(v, size) == v % 2^Bits(size)
Word(v) == v % 2^W
Signed(v, size) ==
  LET t == Trunc(v, size)
  IN  IF t >= 2^(Bits(size) - 1) THEN t - 2^Bits(size) ELSE t
Sext(v, size) == Word(Signed(v, size))
Not64(v) == 2^W - 1 - v
Bit(v, k) == (v \div 2^k) % 2

(* The two words of an unsigned product, computed from half words so that *)
(* no intermediate value exceeds TLC's integers.                          *)
Product(a, b) ==
  LET H  == 2^Bits(4)
      p  == (a % H) * b
      q  == (a \div H) * b
      t  == p + (q % H) * H
  IN  [lo |-> Word(t), hi |-> q \div H + t \div 2^W]

SignedHigh(a, b) ==
  Word(Product(a, b).hi - (IF Signed(a, 8) < 0 THEN b ELSE 0)
                        - (IF Signed(b, 8) < 0 THEN a ELSE 0))

(* Division truncated toward zero, 0 for a zero divisor. *)
Quot(a, b) ==
  LET q == (IF a < 0 THEN -a ELSE a) \div (IF b < 0 THEN -b ELSE b)
  IN  IF b = 0 THEN 0 ELSE IF (a < 0) = (b < 0) THEN q ELSE -q

Clz(v) == IF v = 0 THEN W ELSE W - 1 - Max({k \in 0..(W - 1) : Bit(v, k) = 1})
Rbit(v) == MapThenSumSet(LAMBDA k : Bit(v, k) * 2^(W - 1 - k), 0..(W - 1))
Rev(v, size) ==
  MapThenSumSet(LAMBDA i : ((v \div 2^Bits(i)) % 2^ByteBits) * 2^Bits(size - 1 - i),
                0..(size - 1))
Asr(v, k) == Word(Signed(v, 8) \div 2^k)
Ror(v, k) == v \div 2^k + (v % 2^k) * 2^(W - k)

(* NZCV after a + b + c. *)
AddFlags(a, b, c) ==
  [n |-> Bit(Word(a + b + c), W - 1), z |-> IF Word(a + b + c) = 0 THEN 1 ELSE 0,
   c |-> IF a + b + c >= 2^W THEN 1 ELSE 0,
   v |-> IF Signed(a, 8) + Signed(b, 8) + c \in -(2^(W - 1))..(2^(W - 1) - 1)
         THEN 0 ELSE 1]
LogicFlags(r) == [n |-> Bit(r, W - 1), z |-> IF r = 0 THEN 1 ELSE 0, c |-> 0, v |-> 0]

(* The conditions of B.cond, CSEL and CSET. *)
CondHolds(cond, f) ==
  CASE cond = "eq" -> f.z = 1
    [] cond = "ne" -> f.z = 0
    [] cond = "cs" -> f.c = 1
    [] cond = "cc" -> f.c = 0
    [] cond = "mi" -> f.n = 1
    [] cond = "pl" -> f.n = 0
    [] cond = "vs" -> f.v = 1
    [] cond = "vc" -> f.v = 0
    [] cond = "hi" -> f.c = 1 /\ f.z = 0
    [] cond = "ls" -> ~(f.c = 1 /\ f.z = 0)
    [] cond = "ge" -> f.n = f.v
    [] cond = "lt" -> f.n # f.v
    [] cond = "gt" -> f.z = 0 /\ f.n = f.v
    [] cond = "le" -> ~(f.z = 0 /\ f.n = f.v)

(* The value a register-register (or register-immediate) operation makes. *)
Alu(op, a, b, f) ==
  CASE op \in {"add", "adds"} -> Word(a + b)
    [] op \in {"sub", "subs"} -> Word(a - b)
    [] op = "adcs" -> Word(a + b + f.c)
    [] op = "sbcs" -> Word(a - b - 1 + f.c)
    [] op \in {"and", "ands"} -> a & b
    [] op = "orr" -> a | b
    [] op = "eor" -> a ^^ b
    [] op = "orn" -> a | Not64(b)
    [] op = "mul" -> Product(a, b).lo
    [] op = "umulh" -> Product(a, b).hi
    [] op = "smulh" -> SignedHigh(a, b)
    [] op = "udiv" -> Quot(a, b)
    [] op = "sdiv" -> Word(Quot(Signed(a, 8), Signed(b, 8)))
    [] op = "lsl" -> Word(a * 2^(b % W))
    [] op = "lsr" -> a \div 2^(b % W)
    [] op = "asr" -> Asr(a, b % W)
    [] op = "ror" -> Ror(a, b % W)

AluFlags(op, a, b, f) ==
  CASE op = "adds" -> AddFlags(a, b, 0)
    [] op = "subs" -> AddFlags(a, Not64(b), 1)
    [] op = "adcs" -> AddFlags(a, b, f.c)
    [] op = "sbcs" -> AddFlags(a, Not64(b), f.c)
    [] op = "ands" -> LogicFlags(a & b)
    [] OTHER -> f
------------------------------------------------------------------------------
(* Instructions.  m is a register, i an immediate. *)
RRR(op, d, n, m) == [k |-> "rrr", op |-> op, d |-> d, n |-> n, m |-> m]
RRI(op, d, n, i) == [k |-> "rri", op |-> op, d |-> d, n |-> n, i |-> i]
MovR(d, n)       == RRR("orr", d, XZR, n)
Const(d, i)      == [k |-> "const", d |-> d, i |-> Word(i)]
MovK(d, i)       == [k |-> "movk", d |-> d, i |-> Trunc(i, 2)]
Lsl3(op, d, n, m, i) == [k |-> "lsl3", op |-> op, d |-> d, n |-> n, m |-> m, i |-> i]
Un(op, d, n, size)   == [k |-> "un", op |-> op, d |-> d, n |-> n, size |-> size]
MSub(d, n, m, a) == [k |-> "msub", d |-> d, n |-> n, m |-> m, a |-> a]
CSel(d, n, m, c) == [k |-> "csel", d |-> d, n |-> n, m |-> m, cond |-> c]
CSet(d, c)       == [k |-> "cset", d |-> d, cond |-> c]
Ld(size, t, n, off) == [k |-> "ld", size |-> size, t |-> t, n |-> n, off |-> off]
St(size, t, n, off) == [k |-> "st", size |-> size, t |-> t, n |-> n, off |-> off]
Stp(t, u)        == [k |-> "stp", t |-> t, u |-> u]
Ldp(t, u)        == [k |-> "ldp", t |-> t, u |-> u]
Jump(skip)       == [k |-> "b", skip |-> skip]
JumpIf(c, skip)  == [k |-> "bc", cond |-> c, skip |-> skip]
Cbz(n, skip)     == [k |-> "cbz", n |-> n, skip |-> skip]
Blr(n)           == [k |-> "blr", n |-> n]
Mrs(d)           == [k |-> "mrs", d |-> d]
Brk              == [k |-> "brk"]
------------------------------------------------------------------------------
(* Memory: little-endian bytes, the address space wraps. *)
Fill(a) == (a + a \div 4 + 1) % 2^ByteBits
ByteAt(s, a) == IF a \in DOMAIN s.mem THEN s.mem[a] ELSE Fill(a)
LoadVal(s, a, size) ==
  MapThenSumSet(LAMBDA i : ByteAt(s, Word(a + i)) * 2^Bits(i), 0..(size - 1))
StoreVal(mem, a, size, v) ==
  [b \in {Word(a + i) : i \in 0..(size - 1)} |->
     (v \div 2^Bits(Word(b - a))) % 2^ByteBits] @@ mem

Reg(s, r) == IF r = XZR THEN 0 ELSE s.x[r]
SetReg(s, r, v) == IF r = XZR THEN s ELSE [s EXCEPT !.x[r] = v]

(* What a callee may destroy under the host's calling convention. *)
CallerSaved == 0..17
Junk(r) == Word(2^(W - 1) + 3 * r + 1)

(* One instruction; the program counter is the caller's. *)
Exec(i, s) ==
  CASE i.k = "rrr" ->
         [SetReg(s, i.d, Alu(i.op, Reg(s, i.n), Reg(s, i.m), s.f))
            EXCEPT !.f = AluFlags(i.op, Reg(s, i.n), Reg(s, i.m), s.f)]
    [] i.k = "rri" ->
         [SetReg(s, i.d, Alu(i.op, Reg(s, i.n), i.i, s.f))
            EXCEPT !.f = AluFlags(i.op, Reg(s, i.n), i.i, s.f)]
    [] i.k = "const" -> SetReg(s, i.d, i.i)
    [] i.k = "movk" -> SetReg(s, i.d, Reg(s, i.d) - Trunc(Reg(s, i.d), 2) + i.i)
    [] i.k = "lsl3" ->
         SetReg(s, i.d, Alu(i.op, Reg(s, i.n), Word(Reg(s, i.m) * 2^i.i), s.f))
    [] i.k = "un" ->
         SetReg(s, i.d, CASE i.op = "uxt" -> Trunc(Reg(s, i.n), i.size)
                          [] i.op = "sxt" -> Sext(Reg(s, i.n), i.size)
                          [] i.op = "clz" -> Clz(Reg(s, i.n))
                          [] i.op = "rbit" -> Rbit(Reg(s, i.n))
                          [] i.op = "rev" -> Rev(Reg(s, i.n), i.size))
    [] i.k = "msub" ->
         SetReg(s, i.d, Word(Reg(s, i.a) - Product(Reg(s, i.n), Reg(s, i.m)).lo))
    [] i.k = "csel" ->
         SetReg(s, i.d, Reg(s, IF CondHolds(i.cond, s.f) THEN i.n ELSE i.m))
    [] i.k = "cset" -> SetReg(s, i.d, IF CondHolds(i.cond, s.f) THEN 1 ELSE 0)
    [] i.k = "ld" ->
         LET a == Word(Reg(s, i.n) + i.off)
         IN  [SetReg(s, i.t, LoadVal(s, a, i.size))
                EXCEPT !.acc = Append(@, <<"r", a, i.size>>)]
    [] i.k = "st" ->
         LET a == Word(Reg(s, i.n) + i.off)
         IN  [s EXCEPT !.mem = StoreVal(@, a, i.size, Reg(s, i.t)),
                       !.acc = Append(@, <<"w", a, i.size>>)]
    [] i.k = "stp" -> [s EXCEPT !.sp = <<Reg(s, i.t), Reg(s, i.u)>> \o @]
    [] i.k = "ldp" ->
         [SetReg(SetReg(s, i.t, s.sp[1]), i.u, s.sp[2])
            EXCEPT !.sp = SubSeq(@, 3, Len(@))]
    [] i.k = "blr" ->
         [s EXCEPT !.call = <<Reg(s, i.n)>> \o [k \in 1..8 |-> Reg(s, k - 1)],
                   !.x = [r \in Regs |->
                            IF r \in CallerSaved \cup {30} THEN Junk(r) ELSE s.x[r]]]
    [] i.k = "mrs" -> SetReg(s, i.d, Junk(i.d))
    [] i.k = "brk" -> [s EXCEPT !.trap = TRUE]
    [] OTHER -> s

(* How far the program counter moves. *)
Advance(i, s) ==
  CASE i.k = "b" -> i.skip
    [] i.k = "bc" -> IF CondHolds(i.cond, s.f) THEN i.skip ELSE 1
    [] i.k = "cbz" -> IF Reg(s, i.n) = 0 THEN i.skip ELSE 1
    [] OTHER -> 1
=============================================================================
