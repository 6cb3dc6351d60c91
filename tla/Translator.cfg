\* The decoder on assembled programs, the lowering of each instruction on a
\* machine of 2-bit bytes, the encoders on register and immediate boundaries.
SPECIFICATION TSpec
CONSTANTS
  ByteBits = 2
  ImmBits = 4
  Insts <- MCInsts
  Starts <- MCStarts
  SInsts <- MCSInsts
  Orders = {"eq", "lt", "gt", "unordered"}
  Programs <- DecoderPrograms
  Windows <- DecoderWindows
  Requests <- EmitterRequests
  Pads <- EmitterPads
  BranchForms <- EmitterBranchForms
  MaxLabels = 2
  MaxCalls = 5
INVARIANTS
  DecodesProgram
  BlockEndsWithProgram
  LoweringIsExact
  BranchesGoTheX86Way
  CallCrossesConventions
  SseIsExact
  CodeMeansWhatIsAsked
CHECK_DEADLOCK FALSE
