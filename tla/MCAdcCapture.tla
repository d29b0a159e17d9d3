---------------------------- MODULE MCAdcCapture ----------------------------
(* Instances of AdcCapture for TLC. *)
EXTENDS AdcCapture

\* adc_clk at a half, a quarter and a sixth of the fast clock: two periods of the last
\* are longer than `clear'.
MCFreqs == {0, 1, 2}

\* A clock that was too slow stays or goes back to the fastest.
MCLaterFreqs == {0}
=============================================================================
