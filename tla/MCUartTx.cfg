\* The real eight bytes.
CONSTANTS
  Last = 7
SPECIFICATION FairSpec
PROPERTIES
  BytesInOrder
  DumpsRecur
