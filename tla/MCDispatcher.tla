---------------------------- MODULE MCDispatcher ----------------------------
(***************************************************************************)
(* TLC instances of Dispatcher: small guest programs.  In `Spin` block 1   *)
(* tests and branches to itself or on to 2, 2 jumps to 3, which returns to *)
(* a caller inside the image (1, or 4, which cannot be translated), to the *)
(* sentinel (0), or to an address outside the image (9).                   *)
(***************************************************************************)
EXTENDS Dispatcher

SpinRips == 1..4
SpinTerm == <<"jcc", "jmp", "dyn", "bad">>
SpinDyn == <<{}, {}, {0, 1, 4, 9}, {}>>
SpinFlags == {1, 3}
SpinTaken == <<1, 3, 3, 4>>
SpinFall == <<2, 2, 3, 4>>
UnitSize == [r \in 1..4 |-> 4]

(* Block 1 compares, 2 branches on the comparison block 1 made. *)
SplitTerm == <<"jmp", "jcc", "jmp", "stop">>
SplitTaken == <<2, 3, 1, 4>>
SplitFall == <<2, 4, 3, 4>>
SplitDyn == <<{}, {}, {}, {}>>
SplitFlags == {1}
=============================================================================
