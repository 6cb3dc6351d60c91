----------------------------- MODULE MCDecoder -----------------------------
(***************************************************************************)
(* Programs for Decoder.  A probe program is a short instruction, the form     *)
(* under test with each of a few operands, and RET; the cut programs are   *)
(* read through every window size.                                         *)
(***************************************************************************)
EXTENDS X86Manual

NoRm == InReg(0)
Choice(o, reg, rm, z, imm, seg) == [o |-> o, reg |-> reg, rm |-> rm, z |-> z, imm |-> imm, seg |-> seg]
Fixed(o) == Choice(o, 0, NoRm, 0, 0, "none")
Of(row, c) == [row |-> row, c |-> c]

D4 == <<4, 3, 2, 241>>
MCPlaces ==
  { InReg(3), InReg(6), InReg(12),
    At(1, NoReg, 1, <<>>), At(4, NoReg, 1, <<>>), At(5, NoReg, 1, <<144>>), At(12, NoReg, 1, <<7>>),
    At(13, NoReg, 1, <<0>>), At(3, 12, 4, D4), At(5, 1, 8, <<16>>), At(13, 9, 2, D4), At(NoReg, 6, 2, D4),
    At(NoReg, NoReg, 1, D4), AtRip(D4) }

Overridden ==
  {<<m, "none">> : m \in MCPlaces} \cup {<<AtRip(D4), "gs">>, <<At(3, 12, 4, D4), "gs">>}
    \cup {<<At(1, NoReg, 1, <<>>), g>> : g \in {"fs", "cs", "lock"}}
ChoicesOf(row, long) ==
  LET regs == IF Has(row, {"G", "V"}) THEN {2, 5, 13} ELSE {0}
      places == IF UsesModRM(row) THEN Overridden ELSE {<<NoRm, "none">>}
      zs == IF Has(row, {"O"}) THEN {1, 6, 8, 11} ELSE {0}
      imms == IF Has(row, {"I", "U"}) THEN {5, 200} ELSE {0}
  IN  { c \in {Choice(o, r, m[1], z, i, m[2]) : o \in SizesIn(row, long), r \in regs, m \in places, z \in zs, i \in imms} :
          /\ c.imm # 5 \/ c.rm.k # "mem"
          /\ c.reg = 13 => c.rm \in {InReg(3), At(3, 12, 4, D4)}
          /\ Encodable(long, row, c) }

Push == Plain("push", 80, <<O(StackSlot)>>)
Ret == Plain("ret", 195, <<>>)
PushIt(long) == Of(Push, [Fixed(IF long THEN 8 ELSE 4) EXCEPT !.z = 5])
ProbesFrom(rows) ==
  { [long |-> l, code |-> <<PushIt(l), Of(row, c), Of(Ret, Fixed(4))>>] :
      <<l, row, c>> \in UNION {{<<lr[1], lr[2], x>> : x \in ChoicesOf(lr[2], lr[1])} : lr \in BOOLEAN \X rows} }
CutBodies ==
  { <<Of(Plain("mov", 184, <<O(V), I(V, V)>>), [Fixed(8) EXCEPT !.imm = 7]),
      Of(Plain("mov", 137, <<E(V), G(V)>>), Choice(2, 13, At(13, 9, 2, D4), 0, 0, "gs")),
      Of(Plain("jmp", 233, <<I(4, 4)>>), [Fixed(4) EXCEPT !.imm = 0]), Of(Ret, Fixed(4))>>,
    <<Of(Push, [Fixed(8) EXCEPT !.z = 9]),
      Of(Plain("imul", 105, <<G(V), E(V), I(Z, V)>>), Choice(4, 2, AtRip(D4), 0, 9, "none")),
      Of(Sse(<<"movdq_xmm">>, PF3, 127, <<WX(8), VX(8)>>), Choice(4, 9, At(NoReg, 6, 2, D4), 0, 0, "none")),
      Of(Two(<<"jcc", "NE">>, 133, <<I(4, 4)>>), [Fixed(4) EXCEPT !.imm = 255])>>,
    <<Of(Row(<<"movs">>, PF3, <<164>>, NoDigit, <<Lit(1), Lit(1)>>), Fixed(4)),
      Of(Group("test", 247, 0, <<E(V), I(Z, Z)>>), Choice(2, 0, At(4, NoReg, 1, <<144>>), 0, 3, "none")),
      Of(Two(<<"ud2">>, 11, <<>>), Fixed(4)), Of(Ret, Fixed(4))>>,
    <<Of(Row(<<"bts">>, <<>>, <<15, 186>>, 5, <<E(V), I(1, 1)>>), Choice(8, 0, At(12, NoReg, 1, <<7>>), 0, 3, "lock")),
      Of(Plain("call", 232, <<I(4, 4)>>), [Fixed(4) EXCEPT !.imm = 1])>> }
Cuts == {[long |-> TRUE, code |-> b] : b \in CutBodies}
MCPrograms == ProbesFrom(Rows) \cup Cuts
MCWindows(q) == IF q \in Cuts THEN 1..40 ELSE {64}
=============================================================================
