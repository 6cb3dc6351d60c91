------------------------------- MODULE Emitter -------------------------------
(***************************************************************************)
(* quantum-jit/src/emitter.rs: the instruction encoders, and the labels    *)
(* and fixups that turn a branch to a label into a branch by an offset.    *)
(* A word is the set of its bits that are 1, so OR is union and a field    *)
(* that overflows runs into its neighbour as it does in the code.          *)
(***************************************************************************)
EXTENDS A64, SequencesExt

CONSTANTS Requests,    \* encoder calls made on their own
          Pads,        \* lengths of straight-line code between branches
          BranchForms, \* branches, without their label
          MaxLabels,   \* bound on labels made
          MaxCalls     \* bound on emitter calls

(* v << at, as a 32-bit word (v < 2^31); the word with halves hi and lo. *)
Shl(v, at) == {b \in at..31 : b - at < 31 /\ (v \div 2^(b - at)) % 2 = 1}
Word32(hi, lo) == Shl(hi, 16) \cup Shl(lo, 0)
------------------------------------------------------------------------------
(* Encoders.  A request is <<operation, arrangement, operands...>>, one    *)
(* for each public method (add_v2d is <<"add", "2d", vd, vn, vm>>).        *)

X64 == 1
movw(sf, opc, hw, imm16, rd) ==
  Shl(sf, 31) \cup Shl(opc, 29) \cup Shl(37, 23) \cup Shl(hw, 21) \cup Shl(imm16, 5) \cup Shl(rd, 0)
SfBit(t) == IF t = "x" THEN 1 ELSE 0
MovOpc == [movz |-> 2, movn |-> 0, movk |-> 3]
MoveWords(q) == movw(SfBit(q[2]), MovOpc[q[1]], q[5] \div 16, q[4], q[3])

(* The MOVZ and MOVKs that make the constant with 16-bit lanes v[1..4]. *)
load_const64(rd, v) ==
  LET nonzero == {k \in 1..4 : v[k] # 0}
      first == IF nonzero = {} THEN 1 ELSE Min(nonzero)
      lanes == SetToSortSeq(nonzero \cup {first}, LAMBDA j, k : j < k)
  IN  [n \in DOMAIN lanes |->
         <<IF lanes[n] = first THEN "movz" ELSE "movk", "x", rd, v[lanes[n]], 16 * (lanes[n] - 1)>>]

AddSubBits == [add |-> <<0, 0>>, adds |-> <<0, 1>>, sub |-> <<1, 0>>, subs |-> <<1, 1>>]
encode_addsub_imm(v) ==
  IF v < 2^12 THEN <<0, v>>
  ELSE IF v % 2^12 = 0 /\ v \div 2^12 < 2^12 THEN <<1, v \div 2^12>> ELSE << >>
addsub_imm(q) ==
  LET e == encode_addsub_imm(q[6])
      o == AddSubBits[q[1]]
  IN  Shl(X64, 31) \cup Shl(o[1], 30) \cup Shl(o[2], 29) \cup Shl(34, 23) \cup Shl(e[1], 22)
        \cup Shl(e[2], 10) \cup Shl(q[4], 5) \cup Shl(q[3], 0)

Kind == [lsl |-> 0, lsr |-> 1, asr |-> 2, ror |-> 3]
addsub_shifted(q) ==
  LET o == AddSubBits[q[1]]
  IN  Shl(X64, 31) \cup Shl(o[1], 30) \cup Shl(o[2], 29) \cup Shl(11, 24) \cup Shl(Kind[q[5]], 22)
        \cup Shl(q[6], 16) \cup Shl(q[7], 10) \cup Shl(q[4], 5) \cup Shl(q[3], 0)
LogicOpc == [and |-> 0, orr |-> 1, eor |-> 2, ands |-> 3]
logical_shifted(q) ==
  Shl(X64, 31) \cup Shl(LogicOpc[q[1]], 29) \cup Shl(10, 24) \cup Shl(Kind[q[5]], 22)
    \cup Shl(q[6], 16) \cup Shl(q[7], 10) \cup Shl(q[4], 5) \cup Shl(q[3], 0)

Dp2Opcode == [udiv |-> 2, sdiv |-> 3, lslv |-> 8, lsrv |-> 9, asrv |-> 10, rorv |-> 11]
dp_2src(q) ==
  Shl(X64, 31) \cup Shl(214, 21) \cup Shl(q[5], 16) \cup Shl(Dp2Opcode[q[1]], 10)
    \cup Shl(q[4], 5) \cup Shl(q[3], 0)
madd64(q) ==
  Shl(X64, 31) \cup Shl(27, 24) \cup Shl(q[5], 16) \cup Shl(IF q[1] = "msub" THEN 1 ELSE 0, 15)
    \cup Shl(q[6], 10) \cup Shl(q[4], 5) \cup Shl(q[3], 0)
mulh64(q) ==
  (IF q[1] = "umulh" THEN Word32(\h9BC0, \h7C00) ELSE Word32(\h9B40, \h7C00))
    \cup Shl(q[5], 16) \cup Shl(q[4], 5) \cup Shl(q[3], 0)

CondCode(c) == CHOOSE n \in 0..15 : CondNames[n + 1] = c
invert(c) == LET n == CondCode(c) IN CondNames[IF n % 2 = 0 THEN n + 2 ELSE n]
CselBits == [csel |-> <<0, 0>>, csinc |-> <<0, 1>>, csinv |-> <<1, 0>>, csneg |-> <<1, 1>>]
csel_form(q) ==
  LET o == CselBits[q[1]]
  IN  Shl(X64, 31) \cup Shl(o[1], 30) \cup Shl(212, 21) \cup Shl(q[5], 16) \cup Shl(CondCode(q[6]), 12)
        \cup Shl(o[2], 10) \cup Shl(q[4], 5) \cup Shl(q[3], 0)

(* Loads and stores: size field, and opc; the offset is divided by the     *)
(* access size, debug_assert refuses what does not fit.                    *)
SizeField == [n \in {1, 2, 4, 8, 16} |-> CASE n = 1 -> 0 [] n = 2 -> 1 [] n = 4 -> 2
                                           [] n = 8 -> 3 [] n = 16 -> 0]
ldst_uoff(q) ==
  Shl(SizeField[q[3]], 30) \cup Shl(7, 27) \cup Shl(IF q[2] = "v" THEN 1 ELSE 0, 26) \cup Shl(1, 24)
    \cup Shl((IF q[1] = "ldr" THEN 1 ELSE 0) + (IF q[3] = 16 THEN 2 ELSE 0), 22)
    \cup Shl(q[6] \div q[3], 10) \cup Shl(q[5], 5) \cup Shl(q[4], 0)
PairMode == [post |-> 1, offset |-> 2, pre |-> 3]
ldstp(q) ==
  Shl(2, 30) \cup Shl(5, 27) \cup Shl(PairMode[q[2]], 23) \cup Shl(IF q[1] = "ldp" THEN 1 ELSE 0, 22)
    \cup Shl((q[6] \div 8) % 2^7, 15) \cup Shl(q[4], 10) \cup Shl(q[5], 5) \cup Shl(q[3], 0)
------------------------------------------------------------------------------
(* Encoders written as a base word: <<operation, arrangement, hi, lo>>.    *)
VectorLogic == {<<"eor", "16b", \h6E20, \h1C00>>, <<"and", "16b", \h4E20, \h1C00>>,
                <<"orr", "16b", \h4EA0, \h1C00>>}
VectorArith ==
  {<<"add", "2d", \h4EE0, \h8400>>, <<"sub", "2d", \h6EE0, \h8400>>, <<"add", "4s", \h4EA0, \h8400>>,
   <<"sub", "4s", \h6EA0, \h8400>>, <<"add", "16b", \h4E20, \h8400>>, <<"sub", "16b", \h6E20, \h8400>>,
   <<"add", "8h", \h4E60, \h8400>>, <<"sub", "8h", \h6E60, \h8400>>}
VectorFp ==
  {<<"fadd", "4s", \h4E20, \hD400>>, <<"fadd", "2d", \h4E60, \hD400>>, <<"fsub", "4s", \h4EA0, \hD400>>,
   <<"fsub", "2d", \h4EE0, \hD400>>, <<"fmul", "4s", \h6E20, \hDC00>>, <<"fmul", "2d", \h6E60, \hDC00>>,
   <<"fdiv", "4s", \h6E20, \hFC00>>, <<"fdiv", "2d", \h6E60, \hFC00>>}
VectorCompare ==
  {<<"cmeq", "16b", \h6E20, \h8C00>>, <<"cmeq", "8h", \h6E60, \h8C00>>, <<"cmeq", "4s", \h6EA0, \h8C00>>,
   <<"cmeq", "2d", \h6EE0, \h8C00>>}
mul_v8h == {<<"mul", "8h", \h4E60, \h9C00>>}
zip_form ==
  {<<"zip1", "16b", \h4E00, \h3800>>, <<"zip1", "8h", \h4E40, \h3800>>, <<"zip1", "4s", \h4E80, \h3800>>,
   <<"zip1", "2d", \h4EC0, \h3800>>, <<"zip2", "16b", \h4E00, \h7800>>, <<"zip2", "8h", \h4E40, \h7800>>,
   <<"zip2", "4s", \h4E80, \h7800>>, <<"zip2", "2d", \h4EC0, \h7800>>}
fp2src ==
  {<<"fadd", "d", \h1E60, \h2800>>, <<"fsub", "d", \h1E60, \h3800>>, <<"fmul", "d", \h1E60, \h0800>>,
   <<"fdiv", "d", \h1E60, \h1800>>, <<"fadd", "s", \h1E20, \h2800>>, <<"fsub", "s", \h1E20, \h3800>>,
   <<"fmul", "s", \h1E20, \h0800>>, <<"fdiv", "s", \h1E20, \h1800>>}
FpMinMax ==
  {<<"fmin", "s", \h1E20, \h5800>>, <<"fmin", "d", \h1E60, \h5800>>, <<"fmax", "s", \h1E20, \h4800>>,
   <<"fmax", "d", \h1E60, \h4800>>}
(* base | rm << 16 | rn << 5 | rd *)
ThreeRegisters == VectorLogic \cup VectorArith \cup VectorFp \cup VectorCompare \cup mul_v8h
                  \cup zip_form \cup fp2src \cup FpMinMax

fp_cvt ==
  {<<"scvtf", "sw", \h1E22, 0>>, <<"scvtf", "sx", \h9E22, 0>>, <<"scvtf", "dw", \h1E62, 0>>,
   <<"scvtf", "dx", \h9E62, 0>>, <<"fcvtzs", "ws", \h1E38, 0>>, <<"fcvtzs", "xs", \h9E38, 0>>,
   <<"fcvtzs", "wd", \h1E78, 0>>, <<"fcvtzs", "xd", \h9E78, 0>>, <<"fcvtns", "ws", \h1E20, 0>>,
   <<"fcvtns", "xs", \h9E20, 0>>, <<"fcvtns", "wd", \h1E60, 0>>, <<"fcvtns", "xd", \h9E60, 0>>,
   <<"fcvt", "ds", \h1E22, \hC000>>, <<"fcvt", "sd", \h1E62, \h4000>>}
fsqrt == {<<"fsqrt", "s", \h1E21, \hC000>>, <<"fsqrt", "d", \h1E61, \hC000>>}
dp1src == {<<"rev", "x", \hDAC0, \h0C00>>, <<"rev", "w", \h5AC0, \h0800>>}
addv_b_v8b == {<<"addv", "8b", \h0E31, \hB800>>}
(* base | rn << 5 | rd *)
TwoRegisters == fp_cvt \cup fsqrt \cup dp1src \cup addv_b_v8b

BaseWord(T, q) ==
  LET e == CHOOSE e \in T : e[1] = q[1] /\ e[2] = q[2] IN Word32(e[3], e[4])
Named(T, q) == \E e \in T : e[1] = q[1] /\ e[2] = q[2]

fcmp(q) == Word32(IF q[2] = "s" THEN \h1E20 ELSE \h1E60, \h2000) \cup Shl(q[4], 16) \cup Shl(q[3], 5)

LaneBits == [t \in {"16b", "8h", "4s", "2d"} |->
               CASE t = "16b" -> 8 [] t = "8h" -> 16 [] t = "4s" -> 32 [] t = "2d" -> 64]
shl_v(q) ==
  Word32(\h4F00, \h5400) \cup Shl(LaneBits[q[2]] + q[5], 16) \cup Shl(q[4], 5) \cup Shl(q[3], 0)
ushr_v(q) ==
  Word32(\h6F00, \h0400) \cup Shl(2 * LaneBits[q[2]] - q[5], 16) \cup Shl(q[4], 5) \cup Shl(q[3], 0)
sshr_v(q) ==
  Word32(\h4F00, \h0400) \cup Shl(2 * LaneBits[q[2]] - q[5], 16) \cup Shl(q[4], 5) \cup Shl(q[3], 0)
ins_v_s(q) ==
  Word32(\h6E00, \h0400) \cup Shl(8 * q[4] + 4, 16) \cup Shl(4 * q[6], 11)
    \cup Shl(q[5], 5) \cup Shl(q[3], 0)
ext_v16b(q) ==
  Word32(\h6E00, 0) \cup Shl(q[5], 16) \cup Shl(q[6], 11) \cup Shl(q[4], 5) \cup Shl(q[3], 0)
umov_w_b(q) == Word32(\h0E00, \h3C00) \cup Shl(2 * q[5] + 1, 16) \cup Shl(q[4], 5) \cup Shl(q[3], 0)
ins_v_d_gpr(q) ==
  Word32(\h4E00, \h1C00) \cup Shl(16 * q[4] + 8, 16) \cup Shl(q[5], 5) \cup Shl(q[3], 0)
bfi_w(q) ==
  Word32(\h3300, 0) \cup Shl((32 - q[5]) % 32, 16) \cup Shl(q[6] - 1, 10) \cup Shl(q[4], 5) \cup Shl(q[3], 0)

BranchReg(q) ==
  Word32(CASE q[1] = "br" -> \hD61F [] q[1] = "blr" -> \hD63F [] q[1] = "ret" -> \hD65F, 0) \cup Shl(q[3], 5)
SystemWord(q) ==
  CASE q[1] = "nop" -> Word32(\hD503, \h201F)
    [] q[1] = "brk" -> Word32(\hD420, 0) \cup Shl(q[3], 5)
    [] q[1] = "isb" -> Word32(\hD503, \h30DF)
    [] q[1] = "dmb" -> Word32(\hD503, \h3BBF)
    [] q[1] = "mrs" /\ q[2] = "nzcv" -> Word32(\hD53B, \h4200) \cup Shl(q[3], 0)
    [] q[1] = "msr" /\ q[2] = "nzcv" -> Word32(\hD51B, \h4200) \cup Shl(q[3], 0)
    [] q[1] = "mrs" /\ q[2] = "tpidr_el0" -> Word32(\hD53B, \hD040) \cup Shl(q[3], 0)

(* Methods that call another with XZR or an inverted condition. *)
Expand(q) ==
  CASE q[1] = "cmp" -> <<"subs", "x", 31>> \o SubSeq(q, 3, Len(q))
    [] q[1] = "mov" -> <<"orr", "x", q[3], 31, "lsl", q[4], 0>>
    [] q[1] = "mul" /\ q[2] = "x" -> <<"madd", "x", q[3], q[4], q[5], 31>>
    [] q[1] = "cset" -> <<"csinc", "x", q[3], 31, 31, invert(q[4])>>
    [] OTHER -> q

Encode(r) ==
  LET q == Expand(r)
      op == q[1]
  IN
  CASE Named(ThreeRegisters, q) ->
         BaseWord(ThreeRegisters, q) \cup Shl(q[5], 16) \cup Shl(q[4], 5) \cup Shl(q[3], 0)
    [] Named(TwoRegisters, q) -> BaseWord(TwoRegisters, q) \cup Shl(q[4], 5) \cup Shl(q[3], 0)
    [] op \in DOMAIN MovOpc -> MoveWords(q)
    [] op \in DOMAIN AddSubBits /\ q[2] = "x" -> IF q[5] = "imm" THEN addsub_imm(q) ELSE addsub_shifted(q)
    [] op \in DOMAIN LogicOpc /\ q[2] = "x" -> logical_shifted(q)
    [] op \in DOMAIN Dp2Opcode -> dp_2src(q)
    [] op \in {"madd", "msub"} -> madd64(q)
    [] op \in {"umulh", "smulh"} -> mulh64(q)
    [] op \in DOMAIN CselBits -> csel_form(q)
    [] op \in {"ldr", "str"} -> ldst_uoff(q)
    [] op \in {"ldp", "stp"} -> ldstp(q)
    [] op = "fcmp" -> fcmp(q)
    [] op = "shl" -> shl_v(q)
    [] op = "ushr" -> ushr_v(q)
    [] op = "sshr" -> sshr_v(q)
    [] op = "ins" -> ins_v_s(q)
    [] op = "insx" -> ins_v_d_gpr(q)
    [] op = "ext" -> ext_v16b(q)
    [] op = "umov" -> umov_w_b(q)
    [] op = "bfi" -> bfi_w(q)
    [] op \in {"br", "blr", "ret"} -> BranchReg(q)
    [] OTHER -> SystemWord(q)

(* What the arguments may be: the debug_asserts, and `expect` for an ADD   *)
(* or SUB immediate.                                                       *)
Accepts(r) ==
  LET q == Expand(r)
      op == q[1]
  IN
  CASE op \in DOMAIN MovOpc -> q[5] \div 16 < (IF q[2] = "x" THEN 4 ELSE 2)
    [] op \in DOMAIN AddSubBits /\ q[2] = "x" ->
         IF q[5] = "imm" THEN encode_addsub_imm(q[6]) # << >> ELSE q[7] < 64
    [] op \in {"ldr", "str"} -> q[6] % q[3] = 0 /\ q[6] \div q[3] < 2^12
    [] op \in {"ldp", "stp"} -> q[6] % 8 = 0 /\ q[6] \div 8 \in -64..63
    [] op = "shl" -> q[5] < LaneBits[q[2]]
    [] op \in {"ushr", "sshr"} -> q[5] \in 1..LaneBits[q[2]]
    [] op = "ext" -> q[6] < 16
    [] op = "bfi" -> q[6] > 0 /\ q[5] + q[6] <= 32
    [] OTHER -> TRUE
------------------------------------------------------------------------------
(* Branches: the word before its offset is known, and the kind of fixup.   *)
(* Forms are <<operation, ...>>: b, bl, b.cond cond, cbz rt, tbz rt bit.   *)
BaseOf(f) ==
  CASE f[1] = "b" -> Shl(5, 26)
    [] f[1] = "bl" -> Shl(37, 26)
    [] f[1] = "b.cond" -> Shl(84, 24) \cup Shl(CondCode(f[2]), 0)
    [] f[1] = "cbz" -> Shl(1, 31) \cup Shl(26, 25) \cup Shl(f[3], 0)
    [] f[1] = "cbnz" -> Shl(1, 31) \cup Shl(26, 25) \cup Shl(1, 24) \cup Shl(f[3], 0)
    [] f[1] = "tbz" -> Shl((f[4] \div 32) % 2, 31) \cup Shl(27, 25) \cup Shl(f[4] % 32, 19) \cup Shl(f[3], 0)
    [] f[1] = "tbnz" -> Shl((f[4] \div 32) % 2, 31) \cup Shl(27, 25) \cup Shl(1, 24)
                          \cup Shl(f[4] % 32, 19) \cup Shl(f[3], 0)
KindOf(f) == CASE f[1] \in {"b", "bl"} -> 26 [] f[1] \in {"b.cond", "cbz", "cbnz"} -> 19
               [] f[1] \in {"tbz", "tbnz"} -> 14

OutOfRange == {-1}
patch_branch_OneTooFar(base, kind, delta) ==
  IF delta \notin -(2^(kind - 1))..(2^(kind - 1)) THEN OutOfRange
  ELSE IF kind = 26 THEN (base \cap (26..31)) \cup Shl(delta % 2^26, 0)
  ELSE (base \ (5..(4 + kind))) \cup Shl(delta % 2^kind, 5)
patch_branch(base, kind, delta) ==
  IF delta \notin -(2^(kind - 1))..(2^(kind - 1) - 1) THEN OutOfRange
  ELSE IF kind = 26 THEN (base \cap (26..31)) \cup Shl(delta % 2^26, 0)
  ELSE (base \ (5..(4 + kind))) \cup Shl(delta % 2^kind, 5)
------------------------------------------------------------------------------
VARIABLES code,      \* position -> word, of the words that are branches
          len,       \* words emitted
          labels,    \* label -> position where bound, or -1
          fixups,    \* branches to labels not yet bound
          wants,     \* position -> the branch asked for and its label
          single,    \* the call made on its own, and the words it emitted
          calls, stage

vars == <<code, len, labels, fixups, wants, single, calls, stage>>

NoSingle == [q |-> << >>, words |-> << >>]

Init ==
  /\ code = << >> /\ len = 0 /\ labels = << >> /\ fixups = << >> /\ wants = << >>
  /\ single = NoSingle /\ calls = 0 /\ stage = "open"

Call == stage = "open" /\ calls < MaxCalls /\ calls' = calls + 1

(* One encoder called on its own, with arguments it accepts. *)
push(q) ==
  /\ stage = "open" /\ calls = 0 /\ Accepts(q)
  /\ \E qs \in {IF q[1] # "const" THEN <<q>> ELSE load_const64(q[3], q[4])} :
       single' = [q |-> q, words |-> [k \in DOMAIN qs |-> Encode(qs[k])]]
  /\ len' = Len(single'.words) /\ stage' = "finished"
  /\ UNCHANGED <<code, labels, fixups, wants, calls>>

(* n pushes in a row: the code between branches. *)
Straight(n) ==
  /\ Call /\ len' = len + n
  /\ UNCHANGED <<code, labels, fixups, wants, single, stage>>

make_label ==
  /\ Call /\ Len(labels) < MaxLabels
  /\ labels' = Append(labels, -1)
  /\ UNCHANGED <<code, len, fixups, wants, single, stage>>

bind(l) ==
  /\ Call /\ l \in DOMAIN labels
  /\ IF labels[l] = -1 THEN labels' = [labels EXCEPT ![l] = len] /\ stage' = stage
     ELSE labels' = labels /\ stage' = "panicked"
  /\ UNCHANGED <<code, len, fixups, wants, single>>

Put(f, at, v) == [k \in DOMAIN f \cup {at} |-> IF k = at THEN v ELSE f[k]]

emit_branch(f, l) ==
  LET base == BaseOf(f)
      kind == KindOf(f)
      word == patch_branch(base, kind, labels[l] - len)
  IN
  /\ l \in DOMAIN labels /\ Call
  /\ len' = len + 1
  /\ wants' = Put(wants, len, <<f, l>>)
  /\ \/ /\ labels[l] = -1
        /\ code' = Put(code, len, base)
        /\ fixups' = Append(fixups, [at |-> len, kind |-> kind, label |-> l])
        /\ stage' = stage
     \/ /\ labels[l] # -1 /\ word # OutOfRange
        /\ code' = Put(code, len, word)
        /\ UNCHANGED <<fixups, stage>>
     \/ /\ labels[l] # -1 /\ word = OutOfRange
        /\ code' = Put(code, len, base) /\ stage' = "panicked"
        /\ UNCHANGED fixups
  /\ UNCHANGED <<labels, single>>

(* Resolve the fixups in order; the first that cannot be ends it.  The     *)
(* callers (block.rs) drop the emitter then.                               *)
Target(f) == patch_branch(code[f.at], f.kind, labels[f.label] - f.at)
finish ==
  LET bad == {k \in DOMAIN fixups : labels[fixups[k].label] = -1 \/ Target(fixups[k]) = OutOfRange}
      done == {fixups[k] : k \in {j \in DOMAIN fixups : \A b \in bad : j < b}}
  IN
  /\ stage = "open"
  /\ fixups' = << >>
  /\ code' = [p \in DOMAIN code |->
                IF \E f \in done : f.at = p THEN Target(CHOOSE f \in done : f.at = p) ELSE code[p]]
  /\ stage' = IF bad = {} THEN "finished" ELSE "failed"
  /\ UNCHANGED <<len, labels, wants, single, calls>>

Next ==
  \/ stage = "open" /\ calls = 0 /\ \E q \in Requests : push(q)
  \/ \E n \in Pads : Straight(n)
  \/ make_label
  \/ \E l \in 1..MaxLabels : bind(l)
  \/ \E f \in BranchForms, l \in 1..MaxLabels : emit_branch(f, l)
  \/ finish

Spec == Init /\ [][Next]_vars
------------------------------------------------------------------------------
Opposite(c) ==
  LET pairs == {<<"eq", "ne">>, <<"cs", "cc">>, <<"mi", "pl">>, <<"vs", "vc">>, <<"hi", "ls">>,
                <<"ge", "lt">>, <<"gt", "le">>}
  IN  CHOOSE d \in {"eq", "ne", "cs", "cc", "mi", "pl", "vs", "vc", "hi", "ls", "ge", "lt", "gt", "le"} :
        <<c, d>> \in pairs \/ <<d, c>> \in pairs

(* What a request asks for, in the terms of A64. *)
Meaning(q) ==
  CASE q[1] = "cset" -> <<"csinc", "x", q[3], 31, 31, Opposite(q[4])>>
    [] q[1] = "bfi" -> <<"bfm", "w", q[3], q[4], (32 - q[5]) % 32, q[6] - 1>>
    [] OTHER -> Expand(q)

(* The register that MOVZ and MOVK leave, lane by lane. *)
Moved(moves) ==
  FoldLeft(LAMBDA v, d : [k \in 1..4 |-> IF k = d[5] \div 16 + 1 THEN d[4]
                                          ELSE IF d[1] = "movz" THEN 0 ELSE v[k]],
           <<-1, -1, -1, -1>>, moves)

(* Every encoder, for every operand it accepts, produces the word that an  *)
(* A64 processor decodes as the instruction its name and arguments say;    *)
(* load_const64 makes its constant, with as few instructions as MOVZ and   *)
(* MOVK allow.                                                             *)
WordsMeanWhatIsAsked ==
  \A ds \in {[k \in DOMAIN single.words |-> Decode(single.words[k])]} :
    LET q == single.q IN
    /\ q # << >> /\ q[1] # "const" => ds = <<Meaning(q)>>
    /\ q # << >> /\ q[1] = "const" =>
         /\ Moved(ds) = q[4] /\ \A k \in DOMAIN ds : ds[k][3] = q[3]
         /\ Len(ds) = Max({1, Cardinality({k \in 1..4 : q[4][k] # 0})})

(* When finish() returns Ok, every branch of the code, forward or back,    *)
(* bound before it or after, is the branch that was asked for (same        *)
(* condition, register and bit) and goes to where its label was bound.     *)
BranchesLand ==
  stage = "finished" =>
    \A p \in DOMAIN wants :
      LET f == wants[p][1]
          d == labels[wants[p][2]] - p
      IN  Decode(code[p]) = (IF f[1] \in {"b", "bl"} THEN <<f[1], "", d>> ELSE Append(f, d))
==============================================================================
