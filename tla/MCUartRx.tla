------------------------------ MODULE MCUartRx ------------------------------
(* Instances of UartRx for TLC. *)
EXTENDS UartRx

\* 115200 baud in clocks of 25 MHz, and the shortest and longest bits that work.
MCBitLens == {215, 217, 238}
=============================================================================
