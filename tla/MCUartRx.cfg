\* The real clocks.
CONSTANTS
  TickLen = 14
  BitLens <- MCBitLens
SPECIFICATION RxSpec
INVARIANTS
  EachBitInItsCell
  ReceivedOnce
