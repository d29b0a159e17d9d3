\* Bytes are lost and made up at any time.
CONSTANTS
  Frames <- MCFrames
  Noise <- MCNoise
  MaxFaults = 2
SPECIFICATION RegsSpec
PROPERTIES
  WholeFrameWritten
