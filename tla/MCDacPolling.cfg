\* The real constants.
CONSTANTS
  SPI_LEN = 16
  Half = 7
  Pause = 40
SPECIFICATION FairSpec
INVARIANTS
  OwnWordOnly
PROPERTIES
  ConnectedLong
  RoundsGoOn
