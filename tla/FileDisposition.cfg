\* One file that is there or not, opened once with each disposition.
SPECIFICATION FilesSpec
CONSTANTS
  Paths = {n1}
  StartContents <- MCContents
  Byte = {2}
  WordMod = 4
  MaxLen = 9
  MaxOpen = 1
  MaxCalls = 1
INVARIANT DispositionsAreWhatTheySay
CHECK_DEADLOCK FALSE
