---------------------------- MODULE MCTranslator ----------------------------
(***************************************************************************)
(* The three stages of the translator in one model: a behaviour reads a    *)
(* basic block (Decoder), lowers and runs one instruction (Lifter,         *)
(* LifterSse), or makes the calls that emit one block's words (Emitter).   *)
(* The stages share no state, only types; the stage at work is chosen      *)
(* first and the others stay as they start.                                *)
(***************************************************************************)
EXTENDS MCLifter

CONSTANTS Programs, Windows(_),                             \* of Decoder
          Requests, Pads, BranchForms, MaxLabels, MaxCalls  \* of Emitter

VARIABLES prog, bytes, pos, insts, exits, outcome,
          ecode, len, labels, fixups, wants, single, calls, estage,
          at_work

D == INSTANCE Decoder
E == INSTANCE Emitter WITH code <- ecode, stage <- estage

(* The inputs; those of the emitter are built from its tables alone. *)
DI == INSTANCE MCDecoder
EI == INSTANCE MCEmitter WITH code <- ecode, stage <- estage,
        Requests <- {}, Pads <- {}, BranchForms <- {}, MaxLabels <- 0, MaxCalls <- 0

DecoderPrograms == DI!MCPrograms
DecoderWindows(q) == DI!MCWindows(q)
EmitterRequests == EI!MCRequests
EmitterPads == EI!MCPads
EmitterBranchForms == EI!MCBranchForms

evars == <<ecode, len, labels, fixups, wants, single, calls, estage>>
dvars == <<prog, bytes, pos, insts, exits, outcome>>
all == <<vars, svars, dvars, evars, at_work>>

NoBlock ==
  /\ prog = [long |-> TRUE, code |-> << >>] /\ bytes = << >> /\ pos = 0 /\ insts = << >>
  /\ exits = D!Leave({}, {}, 0, 0) /\ outcome = "decoding"

TInit ==
  /\ AllInit /\ E!Init
  /\ \/ at_work = "decoder" /\ D!Init
     \/ at_work \in {"lifter", "emitter"} /\ NoBlock

TNext ==
  /\ UNCHANGED at_work
  /\ \/ at_work = "decoder" /\ D!Next /\ UNCHANGED <<vars, svars, evars>>
     \/ at_work = "lifter" /\ AllNext /\ UNCHANGED <<dvars, evars>>
     \/ at_work = "emitter" /\ E!Next /\ UNCHANGED <<vars, svars, dvars>>

TSpec == TInit /\ [][TNext]_all
-----------------------------------------------------------------------------
(* Decoder: the instructions read are the program's, operand by operand.   *)
DecodesProgram == D!TypeOK /\ D!DecodesProgram

(* Decoder: a translated block performs the program up to its first        *)
(* control transfer and leaves for the addresses that names; it is short   *)
(* of that, truncated or a panic only in the cases named there.            *)
BlockEndsWithProgram == D!BlockEndsWithProgram

(* Emitter: every encoder's word is the instruction it is named for, and   *)
(* every branch goes to where its label was bound.                         *)
CodeMeansWhatIsAsked == E!WordsMeanWhatIsAsked /\ E!BranchesLand
=============================================================================
