------------------------------- MODULE UartRx -------------------------------
(***************************************************************************)
(* UART_RXD and its sample clock (UART_BAUD_GEN).  The transmitter at the  *)
(* other end has a clock of its own; the receiver samples the line every   *)
(* TickLen of its clocks, a little more than a sixteenth of a bit, so that *)
(* it falls behind during a byte, and again with every byte that follows   *)
(* without a pause.                                                        *)
(*                                                                         *)
(* A Tick is one clock with clk_en.  Of a bit received, `scratch' keeps    *)
(* not the value but the cell of the line it was sampled in.               *)
(***************************************************************************)
EXTENDS Integers

CONSTANTS TickLen,     \* RX_ACC_MAX + 1 clocks: 14
          BitLens      \* lengths of a bit on the line, in clocks: about 217

ASSUME TickLenAssumption == TickLen \in Nat \ {0}
\* The other clock is as close to nominal as sampling needs, from a ninth of 138
\* ticks to 17 ticks a bit.  (With ticks of 14 clocks, bits of 215 to 238.)
ASSUME BitLensAssumption ==
  BitLens \subseteq {b \in Nat : 138 * TickLen <= 9 * b /\ b <= 17 * TickLen}

VARIABLES
  bit,       \* how long the transmitter's bits are
  t,         \* clocks since its last byte began, up to that byte's end
  odd,       \* is that byte the first, third, ...
  owed,      \* history: bytes begun and not received
  state, sample, bitpos, scratch, rdy, data

line == <<bit, t, odd>>
rxVars == <<line, owed, state, sample, bitpos, scratch, rdy, data>>

\* The line's cells: 0 is the start bit, 1 to 8 the byte, 9 the stop bit and
\* whatever rest follows.
Cell == IF t >= 9 * bit THEN 9 ELSE t \div bit

\* What the line may read: data bits are anything.
rxd == CASE Cell = 0 -> {0} [] Cell = 9 -> {1} [] OTHER -> {0, 1}

Nothing == [i \in 0 .. 7 |-> <<FALSE, 9>>]

\* Configured with the line at rest.
RxInit ==
  /\ bit \in BitLens /\ t = 10 * bit /\ odd = FALSE /\ owed = 0
  /\ state = "START" /\ sample = 0 /\ bitpos = 0 /\ scratch = Nothing
  /\ rdy = 0 /\ data = Nothing

-----------------------------------------------------------------------------
(* The transmitter: after a whole stop bit the next byte may begin at any  *)
(* clock between two ticks, or not yet.                                    *)

Begins ==
  /\ \E ago \in 0 .. TickLen - 1 :
       t + TickLen - ago >= 10 * bit /\ t' = ago
  /\ odd' = ~odd
  /\ UNCHANGED bit

GoesOn ==
  /\ t' = IF t + TickLen > 10 * bit THEN 10 * bit ELSE t + TickLen
  /\ UNCHANGED <<odd, bit>>

-----------------------------------------------------------------------------
(* The receiver. *)

Start(r) ==
  /\ state = "START"
  /\ rdy' = 0                                             \* rdy_clr is 1
  /\ sample' = IF r = 1 /\ sample = 0 THEN 0 ELSE (sample + 1) % 16
  /\ IF sample = 15
       THEN state' = "DATA" /\ bitpos' = 0 /\ scratch' = Nothing
       ELSE UNCHANGED <<state, bitpos, scratch>>
  /\ UNCHANGED data

\* Mutant: a bit is sampled at its end.
Mut_SampleAtEnd ==
  /\ state = "DATA"
  /\ sample' = (sample + 1) % 16
  /\ IF sample = 15
       THEN /\ scratch' = [scratch EXCEPT ![bitpos % 8] = <<odd, Cell>>]
            /\ bitpos' = (bitpos + 1) % 16
       ELSE UNCHANGED <<scratch, bitpos>>
  /\ state' = IF bitpos = 7 /\ sample = 15 THEN "STOP" ELSE "DATA"
  /\ UNCHANGED <<rdy, data>>

Data ==
  /\ state = "DATA"
  /\ sample' = (sample + 1) % 16
  /\ IF sample = 8
       THEN /\ scratch' = [scratch EXCEPT ![bitpos % 8] = <<odd, Cell>>]
            /\ bitpos' = (bitpos + 1) % 16
       ELSE UNCHANGED <<scratch, bitpos>>
  /\ state' = IF bitpos = 8 /\ sample = 15 THEN "STOP" ELSE "DATA"
  /\ UNCHANGED <<rdy, data>>

\* Mutant: the stop bit is always waited for to its end.
Mut_WholeStopBit(r) ==
  /\ state = "STOP"
  /\ IF sample = 15
       THEN state' = "START" /\ data' = scratch /\ rdy' = 1 /\ sample' = 0
       ELSE sample' = sample + 1 /\ UNCHANGED <<state, data, rdy>>
  /\ UNCHANGED <<bitpos, scratch>>

\* From the middle of the stop bit on, a low line is the next start bit.
Stop(r) ==
  /\ state = "STOP"
  /\ IF sample = 15 \/ (sample >= 8 /\ r = 0)
       THEN state' = "START" /\ data' = scratch /\ rdy' = 1 /\ sample' = 0
       ELSE sample' = sample + 1 /\ UNCHANGED <<state, data, rdy>>
  /\ UNCHANGED <<bitpos, scratch>>

Receive == \E r \in rxd : Start(r) \/ Data \/ Stop(r)

-----------------------------------------------------------------------------
Tick ==
  /\ Receive
  /\ Begins \/ GoesOn
  /\ owed' = owed + (IF odd' # odd THEN 1 ELSE 0)
                  - (IF state = "STOP" /\ state' = "START" THEN 1 ELSE 0)

RxNext == Tick

RxSpec == RxInit /\ [][RxNext]_rxVars

-----------------------------------------------------------------------------
(* Properties *)

\* The eight bits of a byte handed on were sampled in the eight cells of one
\* byte on the line, each in its own.
EachBitInItsCell ==
  rdy = 1 => \E o \in BOOLEAN : \A i \in 0 .. 7 : data[i] = <<o, i + 1>>

\* Every byte is received, once: it is handed on in its stop bit or while the
\* start bit of the next one is on the line.
ReceivedOnce ==
  CASE Cell = 0 -> owed \in {1, 2}
    [] Cell = 9 -> owed \in {0, 1}
    [] OTHER    -> owed = 1
=============================================================================
