\* The host stops and starts the sampling; undriven pins read low or float.
CONSTANTS
  Header = Header
  Z = Z
  Lengths <- MCLengths
  MaxLen = 3
  DelayLen = 2
  Periods <- MCPeriods
  Polls = 3
  MaxResets <- MCMaxResets
SPECIFICATION FairSpec
INVARIANTS
  TypeOK
  FrameWhole
  FrameLength
  HeaderInterrupts
  InStep
  BufferBound
PROPERTIES
  CaptureSent
  ReceiveEnds
\* Out of step after a stop with floating pins, both ends may wait for the other
\* for good.
CHECK_DEADLOCK FALSE
