\* A gate of 4 periods of main_clk, counters that reach 8.
CONSTANTS
  TB = 3
  N = 4
  Limit = 8
  Periods <- MCPeriods
SPECIFICATION FreqSpec
PROPERTIES
  EqualPrecision
