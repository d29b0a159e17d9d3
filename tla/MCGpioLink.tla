---------------------------- MODULE MCGpioLink -----------------------------
(* Instances of GpioLink for TLC. *)
EXTENDS GpioLink

\* Frames of odd and even length, and of a single byte.
MCLengths == {1, 2}

\* Two edges of adc_clk in the pause, and a clock that may miss it.
MCPeriods == {1, 3}

\* Pins float until the first frame even if nobody stops the sampling, and keep
\* the CPU reading by themselves.
MCMaxResets ==
  [f \in BOOLEAN, p \in MCPeriods |-> IF f THEN 0 ELSE IF p = 1 THEN 2 ELSE 1]
=============================================================================
