\* The main thread alone, and with one worker beside it.
SPECIFICATION LSpec
CONSTANTS
  Main = main
  Workers = {w1}
  Codes = {7, 254}
  DllCalls = 1
  TlsCalls = 1
  MaxAttempts = 2
  Handlers = {h1}
  MaxNest = 4
INVARIANTS
  LongjmpLandsLive
  ExitCodeIsMains
  SehSeesItsFault
  GuestReturnsToSentinel
PROPERTY WorkersAreReported
CHECK_DEADLOCK FALSE
