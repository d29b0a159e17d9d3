------------------------- MODULE MCFrequencyCounter -------------------------
(* Instances of FrequencyCounter for TLC. *)
EXTENDS FrequencyCounter

\* Faster than main_clk, near it, slower, slower than half the gate.
MCPeriods == {2, 4, 5, 8}
=============================================================================
