\* The host changes the frequency at any time; `clear' lasts two periods of all but
\* the slowest adc_clk.
CONSTANTS
  Len0 = 5
  Depth = 9
  Lag = 1
  RdSync = 2
  DelayLen = 8
  Freqs <- MCFreqs
  LaterFreqs <- MCLaterFreqs
  SlowWaits = FALSE
  IgnoreDelay = 1
SPECIFICATION FairSpec
INVARIANTS
  FreshWords
  NoPileUp
  HeldStill

  
