\* One core, a ring of four slots, memory for signals may run out.
CONSTANTS
  fA = fA
  fB = fB
  none = none
  pA = pA
  pB = pB
  pid0 = pid0
  StreamLen = 4
  Frames <- MCFrames
  Pids <- MCPids
  NoFrame <- none
  NoPid <- pid0
  SMP = FALSE
  AllocMayFail = TRUE
SPECIFICATION FairSpec
INVARIANTS
  TypeOK
  RingConsistent
  OneWakeToken
  SignalsInWindow
  SlotExclusion
  WaiterWillBeSignalled
  ParkedIsSeen
  FullIsAnswered
  IInv
PROPERTIES
  FrameStreamSpec
  StreamFlows
