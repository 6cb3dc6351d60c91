------------------------------ MODULE MCEmitter ------------------------------
(***************************************************************************)
(* TLC instance of Emitter: each encoder on registers 0, 17 and 31 and     *)
(* immediates at both ends of their fields; branches of every kind at      *)
(* distances on both sides of every range.                                 *)
(***************************************************************************)
EXTENDS Emitter

Rs == {0, 17, 31}
RRR3 == {<<a, b, c>> : a \in Rs, b \in Rs, c \in Rs}
Ops3(ops, S) == {<<o[1], o[2]>> \o s : o \in ops, s \in S}
X3(names) == {<<n, "x">> : n \in names}
Codes == {"eq", "cc", "vs", "hi", "le"}

MCRequests ==
  Ops3(ThreeRegisters, RRR3) \cup Ops3(TwoRegisters, {<<a, b>> : a \in Rs, b \in Rs})
  \cup {<<n, "x", r, v, 16 * h>> : n \in {"movz", "movn", "movk"}, r \in Rs, v \in {0, 1, 65535}, h \in 0..3}
  \cup {<<"const", "", r, v>> : r \in Rs, v \in [1..4 -> {0, 1, 65535}]}
  \cup {<<n, "w", r, v, 16 * h>> : n \in {"movz", "movk"}, r \in Rs, v \in {0, 65535}, h \in 0..2}
  \cup {<<n, "x", a, b, "imm", v>> : n \in DOMAIN AddSubBits, a \in Rs, b \in Rs,
          v \in {0, 1, 4095, 4096, 4097, 4095 * 4096, 4096 * 4096}}
  \cup {<<"cmp", "x", a, "imm", v>> : a \in Rs, v \in {0, 4095, 8192}}
  \cup {<<"cmp", "x", a, "lsl", b, 0>> : a \in Rs, b \in Rs}
  \cup {<<n, "x", a, b, "lsl", c, 0>> : n \in DOMAIN AddSubBits \cup DOMAIN LogicOpc, a \in Rs, b \in Rs, c \in Rs}
  \cup {<<"mov", "x", a, b>> : a \in Rs, b \in Rs}
  \cup Ops3(X3(DOMAIN Dp2Opcode \cup {"umulh", "smulh", "mul"}), RRR3)
  \cup {<<n, "x">> \o s \o <<d>> : n \in {"madd", "msub"}, s \in RRR3, d \in Rs}
  \cup {<<n, "x">> \o s \o <<c>> : n \in DOMAIN CselBits, s \in RRR3, c \in Codes}
  \cup {<<"cset", "x", a, c>> : a \in Rs, c \in Codes}
  \cup {<<n, "g", z, a, b, z * k>> : n \in {"ldr", "str"}, z \in {1, 2, 4, 8}, a \in Rs, b \in Rs, k \in {0, 1, 4095, 4096}}
  \cup {<<n, "v", z, a, b, z * k>> : n \in {"ldr", "str"}, z \in {4, 8, 16}, a \in Rs, b \in Rs, k \in {0, 1, 4095, 4096}}
  \cup {<<m[1], m[2], a, b, c, 8 * k>> : m \in {<<"stp", "pre">>, <<"ldp", "post">>, <<"stp", "offset">>, <<"ldp", "offset">>},
          a \in Rs, b \in Rs, c \in Rs, k \in {-65, -64, -1, 0, 63, 64}}
  \cup {<<"fcmp", t, a, b>> : t \in {"s", "d"}, a \in Rs, b \in Rs}
  \cup {<<n, t, a, b, k>> : n \in {"shl", "ushr"}, t \in {"8h", "4s", "2d"}, a \in Rs, b \in Rs, k \in {0, 1, 15, 16, 31, 32, 63, 64}}
  \cup {<<"sshr", t, a, b, k>> : t \in {"16b", "8h", "4s"}, a \in Rs, b \in Rs, k \in {0, 1, 7, 8, 16, 31, 32}}
  \cup {<<"ins", "s", a, j, b, k>> : a \in Rs, b \in Rs, j \in 0..3, k \in 0..3}
  \cup {<<"insx", "d", a, j, b>> : a \in Rs, b \in Rs, j \in 0..1}
  \cup {<<"ext", "16b">> \o s \o <<k>> : s \in RRR3, k \in {0, 1, 8, 15}}
  \cup {<<"umov", "b", a, b, k>> : a \in Rs, b \in Rs, k \in {0, 7, 15}}
  \cup {<<"bfi", "w", a, b, j, k>> : a \in Rs, b \in Rs, j \in {0, 8, 31}, k \in {1, 8, 32}}
  \cup {<<n, "", a>> : n \in {"br", "blr", "ret"}, a \in Rs}
  \cup {<<"nop", "">>, <<"isb", "">>, <<"dmb", "ish">>} \cup {<<"brk", "", v>> : v \in {0, 1, 65535}}
  \cup {<<n, "nzcv", a>> : n \in {"mrs", "msr"}, a \in Rs} \cup {<<"mrs", "tpidr_el0", a>> : a \in Rs}

MCPads == {1, 2^13 - 2, 2^18 - 2, 2^25 - 2}
MCBranchForms ==
  {<<"b">>, <<"bl">>, <<"b.cond", "ls">>, <<"cbz", "x", 17>>, <<"cbnz", "x", 3>>,
   <<"tbz", "", 5, 63>>, <<"tbnz", "", 30, 31>>}
==============================================================================
