----------------------------- MODULE MCUartRegs -----------------------------
(* Instances of UartRegs for TLC. *)
EXTENDS UartRegs

\* Every kind of register, indices and data over their width, odd and even
\* bytes, and an address nobody has.
MCFrames == { <<255, 9, 4660>>, <<255, 2, 4095>>, <<254, 3, 499>>, <<0, 0, 1>>,
              <<0, 0, 2>>, <<1, 0, 65280>> }

\* A data byte and a flag.
MCNoise == {254, 175}
=============================================================================
