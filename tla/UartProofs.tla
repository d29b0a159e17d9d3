----------------------------- MODULE UartProofs -----------------------------
(***************************************************************************)
(* Proofs about the three parts of UART.sv: the receiver UART_RXD, the     *)
(* transmitter under REG2UART, and UART2REG with the registers of main.sv. *)
(* They share no state; each has a specification of its own.               *)
(***************************************************************************)
EXTENDS UartRx, UartTx, UartRegs, SequenceTheorems, TLAPS

-----------------------------------------------------------------------------
(* The receiver.  Its invariant: in which phase it is, and how far the line  *)
(* has got by then.                                                         *)

Resting   == state = "START" /\ sample = 0
Closing   == state = "STOP" /\ sample >= 8
Receiving == ~Resting /\ ~Closing

\* Ticks since the receiver saw the start bit.
Ticks ==
  CASE state = "START" -> sample
    [] state = "DATA"  -> 16 * (IF sample <= 8 THEN bitpos + 1 ELSE bitpos) + sample
    [] OTHER           -> 144 + sample

\* The phases, and the registers within them.
Types ==
  /\ bit \in BitLens /\ t \in Nat /\ owed \in 0 .. 2
  /\ state \in {"START", "DATA", "STOP"} /\ sample \in 0 .. 15 /\ bitpos \in 0 .. 8
  /\ state = "DATA" => IF sample <= 8 THEN bitpos <= 7 ELSE bitpos >= 1

\* Where the line is when the receiver is where it is: `owed' is 1 from the start
\* bit on, and by the middle of the stop bit a new byte may have begun.
InTime ==
  /\ Resting => \/ owed = 0 /\ t \in 9 * bit .. 10 * bit
                \/ owed = 1 /\ t < 2 * TickLen
  /\ Receiving => /\ owed = 1
                  /\ Ticks * TickLen <= t /\ t < (Ticks + 2) * TickLen
  /\ Closing => \/ /\ owed = 1 /\ t <= 10 * bit
                   /\ t >= IF sample = 8 THEN 152 * TickLen ELSE 9 * bit
                \/ owed = 2 /\ t < TickLen

\* Of which byte on the line the one being received is.
Current == IF owed = 2 THEN ~odd ELSE odd

Sampled(o, n, bits) == \A i \in 0 .. 7 : i < n => bits[i] = <<o, i + 1>>

\* The bits kept so far are of one byte on the line, and so are those handed on.
BitsInv ==
  /\ odd \in BOOLEAN /\ scratch = [i \in 0 .. 7 |-> scratch[i]]
  /\ state = "DATA" => Sampled(odd, bitpos, scratch)
  /\ state = "STOP" => Sampled(Current, 8, scratch)
  /\ rdy = 1 => \E o \in BOOLEAN : Sampled(o, 8, data)

RxInv == Types /\ InTime /\ BitsInv

-----------------------------------------------------------------------------
(* Arithmetic *)

\* What is known of the two clocks.
LEMMA Clocks ==
  ASSUME bit \in BitLens
  PROVE  /\ TickLen \in Nat /\ TickLen > 0 /\ bit \in Nat
         /\ 138 * TickLen <= 9 * bit /\ bit <= 17 * TickLen
  BY TickLenAssumption, BitLensAssumption

\* A quotient is the number of the interval.
LEMMA Quotient ==
  ASSUME NEW a \in Nat, NEW b \in Nat, NEW k \in 0 .. 8,
         k * b <= a, a < (k + 1) * b
  PROVE  a \div b = k
  OBVIOUS

LEMMA NextTick ==
  ASSUME NEW n \in Nat, NEW p \in Nat
  PROVE  /\ (n + 1) * p = n * p + p
         /\ (n + 2) * p = n * p + 2 * p
         /\ (n + 1 + 2) * p = n * p + 3 * p
  OBVIOUS

LEMMA InByte ==
  ASSUME NEW n \in 1 .. 150, NEW p \in Nat, NEW x \in Nat, x < (n + 2) * p
  PROVE  x < 152 * p
  <1>1. (n + 2) * p <= 152 * p
    <2> DEFINE m == n + 2
    <2>1. m \in Nat /\ m <= 152
      OBVIOUS
    <2> HIDE DEF m
    <2>2. m * p <= 152 * p
      BY <2>1
    <2> QED BY <2>2 DEF m
  <1> QED BY <1>1

-----------------------------------------------------------------------------
(* Where the line is *)

LEMMA StartCell ==
  ASSUME Types, t < bit
  PROVE  Cell = 0 /\ rxd = {0}
  <1>1. bit \in Nat /\ ~ (t >= 9 * bit)
    BY Clocks DEF Types
  <1>2. t \div bit = 0
    <2>1. 0 * bit <= t /\ t < (0 + 1) * bit
      BY <1>1 DEF Types
    <2> QED BY <1>1, <2>1, Quotient DEF Types
  <1> QED BY <1>1, <1>2 DEF Cell, rxd

LEMMA StopCell ==
  ASSUME t >= 9 * bit
  PROVE  Cell = 9 /\ rxd = {1}
  BY DEF Cell, rxd

\* The bit is sampled in its cell, wherever in its tolerance the other clock is.
LEMMA DataCell ==
  ASSUME Types, InTime, state = "DATA", sample = 8
  PROVE  Cell = bitpos + 1
  <1>1. bitpos \in 0 .. 7 /\ t \in Nat
    BY DEF Types
  <1>2. Ticks = 16 * (bitpos + 1) + 8
    BY DEF Ticks
  <1>3. Ticks * TickLen <= t /\ t < (Ticks + 2) * TickLen
    BY DEF InTime, Receiving, Resting, Closing
  <1>4. /\ TickLen \in Nat /\ TickLen > 0 /\ bit \in Nat
        /\ 138 * TickLen <= 9 * bit /\ bit <= 17 * TickLen
    BY Clocks DEF Types
  <1>5. /\ (bitpos + 1) * bit <= t /\ t < (bitpos + 2) * bit
        /\ (bitpos + 2) * bit <= 9 * bit
    <2> HIDE DEF Ticks
    <2>1. CASE bitpos = 0
      BY <1>1, <1>2, <1>3, <1>4, <2>1
    <2>2. CASE bitpos = 1
      BY <1>1, <1>2, <1>3, <1>4, <2>2
    <2>3. CASE bitpos = 2
      BY <1>1, <1>2, <1>3, <1>4, <2>3
    <2>4. CASE bitpos = 3
      BY <1>1, <1>2, <1>3, <1>4, <2>4
    <2>5. CASE bitpos = 4
      BY <1>1, <1>2, <1>3, <1>4, <2>5
    <2>6. CASE bitpos = 5
      BY <1>1, <1>2, <1>3, <1>4, <2>6
    <2>7. CASE bitpos = 6
      BY <1>1, <1>2, <1>3, <1>4, <2>7
    <2>8. CASE bitpos = 7
      BY <1>1, <1>2, <1>3, <1>4, <2>8
    <2> QED BY <1>1, <2>1, <2>2, <2>3, <2>4, <2>5, <2>6, <2>7, <2>8
  <1>6. ~ (t >= 9 * bit)
    BY <1>1, <1>4, <1>5
  <1>7. t \div bit = bitpos + 1
    <2>1. bitpos + 1 \in 0 .. 8 /\ (bitpos + 1) * bit <= t
          /\ t < (bitpos + 1 + 1) * bit
      BY <1>1, <1>5
    <2> QED BY <1>1, <1>4, <2>1, Quotient
  <1> QED BY <1>6, <1>7 DEF Cell

-----------------------------------------------------------------------------
(* The receiver stays in time *)

\* The transmitter's side of a tick: the clocks are those of the byte on the line,
\* or of one that begins.
LEMMA LineStep ==
  ASSUME Types, odd \in BOOLEAN, Tick
  PROVE  /\ bit' = bit /\ t' \in Nat /\ odd' \in BOOLEAN
         /\ \/ GoesOn /\ odd' = odd
            \/ Begins /\ odd' = ~odd /\ t' < TickLen /\ t + TickLen >= 10 * bit
  <1>1. TickLen \in Nat /\ bit \in Nat /\ t \in Nat
    BY Clocks DEF Types
  <1>2. CASE GoesOn
    BY <1>1, <1>2 DEF GoesOn
  <1>3. CASE Begins
    <2>1. PICK ago \in 0 .. TickLen - 1 :
            t + TickLen - ago >= 10 * bit /\ t' = ago
      BY <1>3 DEF Begins
    <2> QED BY <1>1, <1>3, <2>1 DEF Begins
  <1> QED BY <1>2, <1>3 DEF Tick

\* Nothing begins in the middle of a byte.
LEMMA NoneBegins ==
  ASSUME Types, odd \in BOOLEAN, Tick, t < 152 * TickLen
  PROVE  t' = t + TickLen /\ odd' = odd /\ GoesOn
  <1>1. /\ TickLen \in Nat /\ TickLen > 0 /\ bit \in Nat
        /\ 138 * TickLen <= 9 * bit /\ bit <= 17 * TickLen /\ t \in Nat
    BY Clocks DEF Types
  <1>2. t + TickLen < 10 * bit
    BY <1>1
  <1> QED BY <1>1, <1>2, LineStep DEF GoesOn

\* The receiver's side of a tick.
LEMMA TypesStep ==
  ASSUME Types, odd \in BOOLEAN, Tick
  PROVE  /\ state' \in {"START", "DATA", "STOP"} /\ sample' \in 0 .. 15
         /\ bitpos' \in 0 .. 8
         /\ state' = "DATA" => IF sample' <= 8 THEN bitpos' <= 7 ELSE bitpos' >= 1
  <1> USE DEF Types
  <1>1. PICK r \in rxd : Start(r) \/ Data \/ Stop(r)
    BY DEF Tick, Receive
  <1>2. CASE Start(r)
    BY <1>2 DEF Start
  <1>3. CASE Data
    BY <1>3 DEF Data
  <1>4. CASE Stop(r)
    BY <1>4 DEF Stop
  <1> QED BY <1>1, <1>2, <1>3, <1>4

\* At rest the receiver follows the line, which is high, or takes its start bit.
LEMMA RestStep ==
  ASSUME Types, odd \in BOOLEAN, InTime, Resting, Tick
  PROVE  InTime' /\ owed' \in 0 .. 2
  <1>1. /\ TickLen \in Nat /\ TickLen > 0 /\ bit \in Nat
        /\ 138 * TickLen <= 9 * bit /\ bit <= 17 * TickLen /\ t \in Nat
    BY Clocks DEF Types
  <1>2. PICK r \in rxd : Start(r)
    BY DEF Tick, Receive, Resting, Data, Stop
  <1>3. owed' = owed + (IF odd' # odd THEN 1 ELSE 0)
    BY DEF Tick, Resting
  <1>4. CASE owed = 0 /\ t \in 9 * bit .. 10 * bit
    <2>1. r = 1
      BY <1>1, <1>2, <1>4, StopCell
    <2>2. Resting'
      BY <1>2, <2>1 DEF Resting, Start
    <2>3. CASE GoesOn /\ odd' = odd
      <3>1. t' \in 9 * bit .. 10 * bit /\ bit' = bit
        BY <1>1, <1>4, <2>3 DEF GoesOn
      <3> QED BY <1>3, <1>4, <2>2, <2>3, <3>1 DEF InTime, Resting, Receiving,
                                                  Closing
    <2>4. CASE odd' = ~odd /\ t' < TickLen
      <3>1. t' < 2 * TickLen
        BY <1>1, <2>4, LineStep
      <3> QED BY <1>3, <1>4, <2>2, <2>4, <3>1 DEF InTime, Resting, Receiving,
                                                  Closing
    <2> QED BY <2>3, <2>4, LineStep
  <1>5. CASE owed = 1 /\ t < 2 * TickLen
    <2>1. r = 0
      BY <1>1, <1>2, <1>5, StartCell
    <2>2. state' = "START" /\ sample' = 1
      BY <1>2, <2>1 DEF Resting, Start
    <2>3. t' = t + TickLen /\ odd' = odd
      BY <1>1, <1>5, NoneBegins
    <2>4. Ticks' = 1
      BY <2>2 DEF Ticks
    <2>5. Ticks' * TickLen <= t' /\ t' < (Ticks' + 2) * TickLen
      BY <1>1, <1>5, <2>3, <2>4
    <2> HIDE DEF Ticks
    <2> QED BY <1>3, <1>5, <2>2, <2>3, <2>5 DEF InTime, Resting, Receiving, Closing
  <1> QED BY <1>4, <1>5 DEF InTime

\* In a byte, every tick of the receiver is one of the line.
LEMMA TicksStep ==
  ASSUME Types, odd \in BOOLEAN, Receiving, Tick
  PROVE  /\ Ticks \in 1 .. 151 /\ Ticks' = Ticks + 1
         /\ Ticks # 151 => Receiving'
         /\ Ticks = 151 => state' = "STOP" /\ sample' = 8
         /\ ~Resting' /\ ~ (state = "STOP" /\ state' = "START")
  <1> USE DEF Types, Resting, Receiving, Closing
  <1>1. PICK r \in rxd : Start(r) \/ Data \/ Stop(r)
    BY DEF Tick, Receive
  <1>2. CASE Start(r)
    <2>1. state = "START" /\ sample \in 1 .. 15 /\ Ticks = sample
      BY <1>2 DEF Start, Ticks
    <2>2. CASE sample = 15
      <3>1. state' = "DATA" /\ sample' = 0 /\ bitpos' = 0
        BY <1>2, <2>1, <2>2 DEF Start
      <3>2. Ticks' = 16
        BY <3>1 DEF Ticks
      <3> QED BY <2>1, <2>2, <3>1, <3>2
    <2>3. CASE sample # 15
      <3>1. state' = "START" /\ sample' = sample + 1
        BY <1>2, <2>1, <2>3 DEF Start
      <3>2. Ticks' = sample'
        BY <3>1 DEF Ticks
      <3> QED BY <2>1, <2>3, <3>1, <3>2
    <2> QED BY <2>2, <2>3
  <1>3. CASE Data
    <2>1. state = "DATA"
      BY <1>3 DEF Data
    <2>2. CASE sample < 8
      <3>1. state' = "DATA" /\ sample' = sample + 1 /\ bitpos' = bitpos
        BY <1>3, <2>2 DEF Data
      <3>2. /\ Ticks = 16 * (bitpos + 1) + sample
            /\ Ticks' = 16 * (bitpos + 1) + sample + 1
        BY <2>1, <2>2, <3>1 DEF Ticks
      <3> QED BY <2>1, <2>2, <3>1, <3>2
    <2>3. CASE sample = 8
      <3>1. state' = "DATA" /\ sample' = 9 /\ bitpos' = bitpos + 1
        BY <1>3, <2>1, <2>3 DEF Data
      <3>2. Ticks = 16 * (bitpos + 1) + 8 /\ Ticks' = 16 * (bitpos + 1) + 9
        BY <2>1, <2>3, <3>1 DEF Ticks
      <3> QED BY <2>1, <2>3, <3>1, <3>2
    <2>4. CASE sample > 8 /\ sample < 15
      <3>1. state' = "DATA" /\ sample' = sample + 1 /\ bitpos' = bitpos
        BY <1>3, <2>4 DEF Data
      <3>2. Ticks = 16 * bitpos + sample /\ Ticks' = 16 * bitpos + sample + 1
        BY <2>1, <2>4, <3>1 DEF Ticks
      <3> QED BY <2>1, <2>4, <3>1, <3>2
    <2>5. CASE sample = 15 /\ bitpos = 8
      <3>1. state' = "STOP" /\ sample' = 0
        BY <1>3, <2>5 DEF Data
      <3>2. Ticks = 143 /\ Ticks' = 144
        BY <2>1, <2>5, <3>1 DEF Ticks
      <3> QED BY <2>1, <3>1, <3>2
    <2>6. CASE sample = 15 /\ bitpos # 8
      <3>1. state' = "DATA" /\ sample' = 0 /\ bitpos' = bitpos
        BY <1>3, <2>6 DEF Data
      <3>2. Ticks = 16 * bitpos + 15 /\ Ticks' = 16 * (bitpos + 1)
        BY <2>1, <2>6, <3>1 DEF Ticks
      <3> QED BY <2>1, <2>6, <3>1, <3>2
    <2> QED BY <2>2, <2>3, <2>4, <2>5, <2>6
  <1>4. CASE Stop(r)
    <2>1. state = "STOP" /\ sample \in 0 .. 7 /\ Ticks = 144 + sample
      BY <1>4 DEF Stop, Ticks
    <2>2. state' = "STOP" /\ sample' = sample + 1
      BY <1>4, <2>1 DEF Stop
    <2>3. Ticks' = 144 + sample'
      BY <2>2 DEF Ticks
    <2> QED BY <2>1, <2>2, <2>3
  <1> QED BY <1>1, <1>2, <1>3, <1>4

\* The line has then gone as many ticks as the receiver, until the stop bit.
LEMMA ReceivingStep ==
  ASSUME Types, odd \in BOOLEAN, InTime, Receiving, Tick
  PROVE  InTime' /\ owed' \in 0 .. 2
  <1>1. /\ TickLen \in Nat /\ TickLen > 0 /\ bit \in Nat
        /\ 138 * TickLen <= 9 * bit /\ bit <= 17 * TickLen /\ t \in Nat
    BY Clocks DEF Types
  <1>2. owed = 1 /\ Ticks * TickLen <= t /\ t < (Ticks + 2) * TickLen
    BY DEF InTime
  <1>3. /\ Ticks \in 1 .. 151 /\ Ticks' = Ticks + 1
        /\ Ticks # 151 => Receiving'
        /\ Ticks = 151 => state' = "STOP" /\ sample' = 8
        /\ ~Resting' /\ ~ (state = "STOP" /\ state' = "START")
    BY TicksStep
  <1>4. owed' = 1 + (IF odd' # odd THEN 1 ELSE 0)
    BY <1>2, <1>3 DEF Tick
  <1>5. CASE Ticks <= 150
    <2>1. t < 152 * TickLen
      BY <1>1, <1>2, <1>3, <1>5, InByte
    <2>2. t' = t + TickLen /\ odd' = odd
      BY <2>1, NoneBegins
    <2>3. Ticks' * TickLen <= t' /\ t' < (Ticks' + 2) * TickLen
      <3>1. /\ (Ticks + 1) * TickLen = Ticks * TickLen + TickLen
            /\ (Ticks + 2) * TickLen = Ticks * TickLen + 2 * TickLen
            /\ (Ticks + 1 + 2) * TickLen = Ticks * TickLen + 3 * TickLen
        BY <1>1, <1>3, NextTick
      <3> QED BY <1>1, <1>2, <1>3, <2>2, <3>1
    <2>4. Receiving'
      BY <1>3, <1>5
    <2> QED BY <1>3, <1>4, <2>2, <2>3, <2>4 DEF InTime, Receiving
  <1>6. CASE Ticks = 151
    <2>1. 151 * TickLen <= t
      BY <1>2, <1>6
    <2>2. Closing' /\ sample' = 8 /\ ~Receiving'
      BY <1>3, <1>6 DEF Closing, Receiving
    <2>3. CASE GoesOn /\ odd' = odd
      <3>1. t' <= 10 * bit /\ bit' = bit /\ t' >= 152 * TickLen
        BY <1>1, <2>1, <2>3 DEF GoesOn
      <3> QED BY <1>3, <1>4, <2>2, <2>3, <3>1 DEF InTime
    <2>4. CASE odd' = ~odd /\ t' < TickLen
      BY <1>3, <1>4, <2>2, <2>4 DEF InTime
    <2> QED BY <2>3, <2>4, LineStep
  <1> QED BY <1>3, <1>5, <1>6

\* In the stop bit, the receiver is ready for the next byte by when it has begun.
LEMMA ClosingStep ==
  ASSUME Types, odd \in BOOLEAN, InTime, Closing, Tick
  PROVE  InTime' /\ owed' \in 0 .. 2
  <1>1. /\ TickLen \in Nat /\ TickLen > 0 /\ bit \in Nat
        /\ 138 * TickLen <= 9 * bit /\ bit <= 17 * TickLen /\ t \in Nat
    BY Clocks DEF Types
  <1>2. PICK r \in rxd : Stop(r)
    BY DEF Tick, Receive, Closing, Start, Data
  <1>3. state' = "STOP" \/ (state' = "START" /\ sample' = 0)
    BY <1>2 DEF Stop
  <1>4. owed' = owed + (IF odd' # odd THEN 1 ELSE 0)
                     - (IF state' = "START" THEN 1 ELSE 0)
    BY DEF Tick, Closing
  <1>5. state' = "STOP" => sample' = sample + 1 /\ sample' \in 9 .. 15
    BY <1>2 DEF Stop, Closing, Types
  <1>6. CASE owed = 1 /\ t <= 10 * bit
               /\ t >= IF sample = 8 THEN 152 * TickLen ELSE 9 * bit
    <2>1. t + TickLen >= 9 * bit
      BY <1>1, <1>6
    <2>2. CASE GoesOn /\ odd' = odd
      <3>1. t' \in 9 * bit .. 10 * bit /\ bit' = bit
        BY <1>1, <1>6, <2>1, <2>2 DEF GoesOn
      <3>2. CASE state' = "STOP"
        BY <1>4, <1>5, <1>6, <2>2, <3>1, <3>2
           DEF InTime, Resting, Receiving, Closing
      <3>3. CASE state' = "START" /\ sample' = 0
        BY <1>4, <1>6, <2>2, <3>1, <3>3 DEF InTime, Resting, Receiving, Closing
      <3> QED BY <1>3, <3>2, <3>3
    <2>3. CASE odd' = ~odd /\ t' < TickLen
      <3>1. t' < 2 * TickLen
        BY <1>1, <2>3, LineStep
      <3>2. CASE state' = "STOP"
        BY <1>4, <1>5, <1>6, <2>3, <3>2 DEF InTime, Resting, Receiving, Closing
      <3>3. CASE state' = "START" /\ sample' = 0
        BY <1>4, <1>6, <2>3, <3>1, <3>3 DEF InTime, Resting, Receiving, Closing
      <3> QED BY <1>3, <3>2, <3>3
    <2> QED BY <2>2, <2>3, LineStep
  <1>7. CASE owed = 2 /\ t < TickLen
    <2>1. r = 0
      BY <1>1, <1>2, <1>7, StartCell
    <2>2. state' = "START" /\ sample' = 0
      BY <1>2, <2>1 DEF Stop, Closing
    <2>3. t' = t + TickLen /\ odd' = odd
      BY <1>1, <1>7, NoneBegins
    <2>4. t' < 2 * TickLen
      BY <1>1, <1>7, <2>3
    <2> QED BY <1>4, <1>7, <2>2, <2>3, <2>4 DEF InTime, Resting, Receiving, Closing
  <1> QED BY <1>6, <1>7 DEF InTime

-----------------------------------------------------------------------------
(* The bits *)

LEMMA OtherByte ==
  ASSUME NEW o \in BOOLEAN
  PROVE  (~o) # o
  OBVIOUS

\* A bit is kept with its cell, and a byte handed on as it was sampled.
LEMMA BitsStep ==
  ASSUME Types, InTime, BitsInv, Tick
  PROVE  BitsInv'
  <1> USE DEF Types, BitsInv
  <1>1. odd' \in BOOLEAN
    BY LineStep
  <1>2. PICK r \in rxd : Start(r) \/ Data \/ Stop(r)
    BY DEF Tick, Receive
  <1>3. CASE Start(r)
    <2>1. state' \in {"START", "DATA"} /\ rdy' = 0
      BY <1>3 DEF Start
    <2>2. scratch' = scratch \/ scratch' = Nothing
      BY <1>3 DEF Start
    <2>3. scratch' = [i \in 0 .. 7 |-> scratch'[i]]
      <3>1. Nothing = [i \in 0 .. 7 |-> Nothing[i]]
        BY DEF Nothing
      <3> QED BY <2>2, <3>1
    <2>4. state' = "DATA" => bitpos' = 0
      BY <1>3 DEF Start
    <2> QED BY <1>1, <2>1, <2>3, <2>4 DEF Sampled
  <1>4. CASE Data
    <2>1. /\ state = "DATA" /\ state' \in {"DATA", "STOP"}
          /\ rdy' = rdy /\ data' = data
      BY <1>4 DEF Data
    <2>2. odd' = odd /\ owed' = 1
      <3>1. Receiving /\ owed = 1 /\ t < (Ticks + 2) * TickLen
        BY <2>1 DEF Receiving, Resting, Closing, InTime
      <3>2. Ticks \in 1 .. 150
        BY <2>1, <3>1, TicksStep DEF Ticks
      <3>3. t < 152 * TickLen
        BY <3>1, <3>2, Clocks, InByte
      <3>4. odd' = odd
        BY <3>3, NoneBegins
      <3> QED BY <2>1, <3>1, <3>4 DEF Tick
    <2>3. CASE sample = 8
      <3>1. /\ scratch' = [scratch EXCEPT ![bitpos % 8] = <<odd, Cell>>]
            /\ bitpos' = (bitpos + 1) % 16
        BY <1>4, <2>3 DEF Data
      <3>2. bitpos \in 0 .. 7 /\ bitpos % 8 = bitpos /\ bitpos' = bitpos + 1
        BY <2>1, <2>3, <3>1
      <3>3. scratch' = [scratch EXCEPT ![bitpos] = <<odd, bitpos + 1>>]
        BY <2>1, <2>3, <3>1, <3>2, DataCell
      <3>4. Sampled(odd, bitpos + 1, scratch')
        BY <2>1, <3>2, <3>3 DEF Sampled
      <3>5. scratch' = [i \in 0 .. 7 |-> scratch'[i]]
        BY <3>2, <3>3
      <3>6. state' = "DATA"
        BY <1>4, <2>3 DEF Data
      <3> QED BY <1>1, <2>1, <2>2, <3>2, <3>4, <3>5, <3>6
    <2>4. CASE sample # 8
      <3>1. scratch' = scratch /\ bitpos' = bitpos
        BY <1>4, <2>4 DEF Data
      <3>2. state' = "STOP" => bitpos = 8
        BY <1>4 DEF Data
      <3> QED BY <1>1, <2>1, <2>2, <3>1, <3>2 DEF Current
    <2> QED BY <2>3, <2>4
  <1>5. CASE Stop(r)
    <2>1. /\ state = "STOP" /\ scratch' = scratch /\ state' \in {"STOP", "START"}
          /\ state' = "STOP" => rdy' = rdy /\ data' = data
          /\ state' = "START" => data' = scratch
      BY <1>5 DEF Stop
    <2>2. Sampled(Current, 8, scratch) /\ Current \in BOOLEAN
      BY <2>1 DEF Current
    <2>3. state' = "STOP" => Current' = Current
      <3>1. owed \in {1, 2}
        BY <2>1 DEF InTime, Receiving, Resting, Closing
      <3>2. CASE owed = 1
        <4>1. state' = "STOP" => owed' = IF odd' # odd THEN 2 ELSE 1
          BY <3>2 DEF Tick
        <4>2. odd' = odd \/ odd' = ~odd
          BY LineStep
        <4>3. CASE odd' = odd
          BY <3>2, <4>1, <4>3 DEF Current
        <4>4. CASE odd' = ~odd
          <5>1. odd' # odd
            <6>1. odd \in BOOLEAN
              OBVIOUS
            <6> HIDE DEF Types, BitsInv
            <6>2. (~odd) # odd
              BY <6>1, OtherByte
            <6> QED BY <4>4, <6>2, Zenon
          <5>2. ASSUME state' = "STOP" PROVE owed' = 2
            BY <4>1, <5>1, <5>2
          <5>3. (~odd') = odd
            <6>1. (~~odd) = odd
              <7>1. odd \in BOOLEAN
                OBVIOUS
              <7> HIDE DEF Types, BitsInv
              <7> QED BY <7>1
            <6> QED BY <4>4, <6>1, Zenon
          <5> QED BY <3>2, <5>2, <5>3 DEF Current
        <4> QED BY <4>2, <4>3, <4>4
      <3>3. CASE owed = 2
        <4>1. t < TickLen
          BY <2>1, <3>3 DEF InTime, Receiving, Resting, Closing
        <4>2. odd' = odd
          BY <4>1, NoneBegins, Clocks
        <4>3. state' = "STOP" => owed' = 2
          BY <3>3, <4>2 DEF Tick
        <4> QED BY <3>3, <4>2, <4>3 DEF Current
      <3> QED BY <3>1, <3>2, <3>3
    <2> QED BY <1>1, <2>1, <2>2, <2>3
  <1> QED BY <1>2, <1>3, <1>4, <1>5

-----------------------------------------------------------------------------
(* What the receiver guarantees *)

\* At rest, with the line high.
LEMMA RxStarts == RxInit => RxInv
  <1> SUFFICES ASSUME RxInit PROVE RxInv
    OBVIOUS
  <1>1. bit \in BitLens /\ bit \in Nat
    BY Clocks DEF RxInit
  <1>2. Types
    BY <1>1 DEF RxInit, Types
  <1>3. InTime
    BY <1>1 DEF RxInit, InTime, Resting, Receiving, Closing
  <1>4. Nothing = [i \in 0 .. 7 |-> Nothing[i]]
    BY DEF Nothing
  <1>5. BitsInv
    <2>1. scratch = [i \in 0 .. 7 |-> scratch[i]]
      BY <1>4 DEF RxInit
    <2>2. odd \in BOOLEAN /\ state = "START" /\ rdy = 0
      BY DEF RxInit
    <2> QED BY <2>1, <2>2 DEF BitsInv
  <1> QED BY <1>2, <1>3, <1>5 DEF RxInv

\* Each tick keeps the invariant.
LEMMA RxStep == RxInv /\ [RxNext]_rxVars => RxInv'
  <1> SUFFICES ASSUME RxInv, [RxNext]_rxVars PROVE RxInv'
    OBVIOUS
  <1> USE DEF RxInv
  <1>1. CASE Tick
    <2>1. Types /\ InTime /\ BitsInv /\ odd \in BOOLEAN
      BY DEF BitsInv
    <2>2. InTime' /\ owed' \in 0 .. 2
      BY <1>1, <2>1, RestStep, ReceivingStep, ClosingStep DEF Receiving
    <2>3. Types'
      BY <1>1, <2>1, <2>2, TypesStep, LineStep DEF Types
    <2> QED BY <1>1, <2>1, <2>2, <2>3, BitsStep
  <1>2. CASE UNCHANGED rxVars
    BY <1>2 DEF rxVars, line, Types, InTime, Resting, Receiving, Closing, Ticks,
                BitsInv,
                Sampled, Current
  <1> QED BY <1>1, <1>2 DEF RxNext

\* The receiver is in time, always.
THEOREM RxInvariance == RxSpec => []RxInv
  BY RxStarts, RxStep, PTL DEF RxSpec

\* Whatever the length of a bit within the tolerance, and wherever between two
\* ticks a byte begins, the eight bits of one handed on are those of one byte on
\* the line, each sampled in its own cell.
THEOREM AlwaysInItsCell == RxSpec => []EachBitInItsCell
  <1>1. RxInv => EachBitInItsCell
    BY DEF RxInv, BitsInv, Sampled, EachBitInItsCell
  <1> QED BY <1>1, RxInvariance, PTL

\* No byte is lost and none is received twice, with no rest between them: the
\* receiver is back for the start bit however far it has fallen behind.
THEOREM AlwaysReceivedOnce == RxSpec => []ReceivedOnce
  <1>1. ASSUME RxInv PROVE ReceivedOnce
    <2> USE <1>1 DEF RxInv
    <2>1. Types /\ InTime
      OBVIOUS
    <2>2. TickLen > 0 /\ 2 * TickLen <= bit /\ TickLen \in Nat /\ bit \in Nat
      BY <2>1, Clocks DEF Types
    <2>3. owed = 1 \/ (owed = 0 /\ t >= 9 * bit) \/ (owed = 2 /\ t < bit)
      BY <2>1, <2>2 DEF Types, InTime, Receiving
    <2>4. CASE owed = 1
      BY <2>4 DEF ReceivedOnce
    <2>5. CASE owed = 0 /\ t >= 9 * bit
      BY <2>5, StopCell DEF ReceivedOnce
    <2>6. CASE owed = 2 /\ t < bit
      BY <2>1, <2>6, StartCell DEF ReceivedOnce
    <2> QED BY <2>3, <2>4, <2>5, <2>6
  <1> QED BY <1>1, RxInvariance, PTL

-----------------------------------------------------------------------------
(* The transmitter: a dump of any length the counter can count. *)

TxType ==
  /\ current_state \in {"IDLE", "SAVEING_DATA", "SENDING_START", "SENDING_ADD",
                        "SENDING_END"}
  /\ tx_state \in {"IDLE", "START", "DATA", "STOP"}
  /\ counter \in 0 .. 15 /\ tx_bitpos \in 0 .. 7
  /\ o_en \in {0, 1} /\ saved \in {0, 1}

\* The byte taken before the one numbered c of dump s.
Before(s, c) == IF c = 0 THEN <<1 - s, Last>> ELSE <<s, c - 1>>

\* Where REG2UART stands, and what it then knows of the transmitter.
DumpInv ==
  /\ current_state \in {"IDLE", "SAVEING_DATA"} =>
       o_en = 0 /\ tx_state = "IDLE" /\ tx_data = <<saved, Last>>
  /\ current_state = "SENDING_START" /\ tx_state = "IDLE" =>
       /\ counter <= Last /\ tx_data = Before(saved, counter)
       /\ o_en = 1 => dout = <<saved, counter>>
  /\ current_state = "SENDING_START" /\ tx_state # "IDLE" =>
       /\ counter <= Last /\ tx_data = <<saved, counter>>
       /\ o_en = 1 /\ tx_state = "START"
  /\ current_state = "SENDING_ADD" =>
       /\ counter <= Last /\ tx_data = <<saved, counter>>
       /\ o_en = 1 /\ tx_state \in {"START", "DATA"}
  /\ current_state = "SENDING_END" =>
       /\ counter \in 1 .. Last + 1 /\ tx_data = <<saved, counter - 1>>
       /\ o_en = 0

\* What UART_TXD has put on the line.
LineInv ==
  /\ tx_state \in {"IDLE", "START"} => txd = High
  /\ tx_state = "START" => tx_bitpos = 0
  /\ tx_state = "DATA" => txd = IF tx_bitpos = 0 THEN StartBit ELSE tx_bitpos - 1
  /\ tx_state = "STOP" => txd = 7

TxInv == TxType /\ DumpInv /\ LineInv

\* At rest, as after a dump.
LEMMA TxStarts == TxInit => TxInv
  BY LastAssumption DEF TxInit, TxInv, TxType, DumpInv, LineInv

\* The transmitter's step, as REG2UART sees it.
LEMMA ServeStep ==
  ASSUME TxInv, UartTxd
  PROVE  /\ LineInv'
         /\ tx_state' \in {"IDLE", "START", "DATA", "STOP"} /\ tx_bitpos' \in 0 .. 7
         /\ tx_state = "IDLE" /\ o_en = 0 =>
              tx_state' = "IDLE" /\ tx_data' = tx_data
         /\ tx_state = "IDLE" /\ o_en = 1 => tx_state' = "START" /\ tx_data' = dout
         /\ tx_state # "IDLE" => tx_data' = tx_data
         /\ tx_state = "START" => tx_state' \in {"START", "DATA"}
         /\ tx_state = "DATA" => tx_state' # "IDLE"
  <1> USE DEF TxInv, TxType, LineInv, uart_txd
  <1>1. CASE Take
    BY <1>1 DEF Take
  <1>2. CASE Wait
    BY <1>2 DEF Wait
  <1>3. CASE SendStart
    BY <1>3 DEF SendStart
  <1>4. CASE Bit
    <2>1. tx_state = "DATA" /\ txd' = tx_bitpos /\ tx_data' = tx_data
      BY <1>4 DEF Bit
    <2>2. CASE tx_bitpos = 7
      BY <1>4, <2>1, <2>2 DEF Bit
    <2>3. CASE tx_bitpos # 7
      <3>1. tx_state' = "DATA" /\ tx_bitpos' = tx_bitpos + 1 /\ tx_bitpos \in 0 .. 6
        BY <1>4, <2>3 DEF Bit
      <3>2. tx_bitpos' # 0 /\ tx_bitpos' - 1 = tx_bitpos /\ tx_bitpos' \in 0 .. 7
        BY <3>1
      <3>3. LineInv'
        BY <2>1, <3>1, <3>2
      <3> QED BY <2>1, <3>1, <3>2, <3>3
    <2> QED BY <2>2, <2>3
  <1>5. CASE SendStop
    BY <1>5 DEF SendStop
  <1>6. CASE NoTick
    BY <1>6 DEF NoTick
  <1> QED BY <1>1, <1>2, <1>3, <1>4, <1>5, <1>6 DEF UartTxd

\* Each clock keeps the invariant.
LEMMA TxStep == TxInv /\ [TxNext]_txVars => TxInv'
  <1> SUFFICES ASSUME TxInv, [TxNext]_txVars PROVE TxInv'
    OBVIOUS
  <1>1. CASE UNCHANGED txVars
    BY <1>1 DEF txVars, reg2uart, uart_txd, TxInv, TxType, DumpInv, Before,
                LineInv
  <1>2. CASE TxNext
    <2> USE DEF Reg2Uart, next_state, busy, TxInv, TxType, DumpInv, Before
    <2>1. Reg2Uart /\ UartTxd /\ Last \in 1 .. 14
      BY <1>2, LastAssumption DEF TxNext
    <2>2. CASE current_state = "IDLE"
      BY <2>1, <2>2, ServeStep
    <2>3. CASE current_state = "SAVEING_DATA"
      BY <2>1, <2>3, ServeStep
    <2>4. CASE current_state = "SENDING_START"
      <3>1. counter' = counter /\ saved' = saved /\ o_en' = 1
            /\ dout' = <<saved, counter>>
        BY <2>1, <2>4
      <3>2. CASE tx_state = "IDLE"
        <4>1. current_state' = "SENDING_START"
          BY <2>1, <2>4, <3>2
        <4>2. CASE o_en = 0
          BY <2>1, <2>4, <3>1, <3>2, <4>1, <4>2, ServeStep
        <4>3. CASE o_en = 1
          BY <2>1, <2>4, <3>1, <3>2, <4>1, <4>3, ServeStep
        <4> QED BY <4>2, <4>3
      <3>3. CASE tx_state # "IDLE"
        <4>1. current_state' = "SENDING_ADD"
          BY <2>1, <2>4, <3>3
        <4> QED BY <2>1, <2>4, <3>1, <3>3, <4>1, ServeStep
      <3> QED BY <3>2, <3>3
    <2>5. CASE current_state = "SENDING_ADD"
      BY <2>1, <2>5, ServeStep
    <2>6. CASE current_state = "SENDING_END"
      <3>1. counter' = counter /\ saved' = saved /\ o_en' = 0 /\ dout' = dout
        BY <2>1, <2>6
      <3>2. /\ o_en = 0 /\ counter \in 1 .. Last + 1
            /\ tx_data = <<saved, counter - 1>>
        BY <2>6
      <3>3. tx_data' = tx_data
        BY <2>1, <3>2, ServeStep
      <3>4. CASE tx_state # "IDLE"
        <4>1. current_state' = "SENDING_END"
          BY <2>1, <2>6, <3>4
        <4> QED BY <2>1, <3>1, <3>2, <3>3, <4>1, ServeStep
      <3>5. CASE tx_state = "IDLE" /\ counter > Last
        <4>1. current_state' = "IDLE" /\ tx_state' = "IDLE" /\ counter - 1 = Last
          BY <2>1, <2>6, <3>2, <3>5, ServeStep
        <4> QED BY <2>1, <3>1, <3>2, <3>3, <4>1, ServeStep
      <3>6. CASE tx_state = "IDLE" /\ counter <= Last
        <4>1. current_state' = "SENDING_START" /\ tx_state' = "IDLE"
          BY <2>1, <2>6, <3>2, <3>6, ServeStep
        <4> QED BY <2>1, <3>1, <3>2, <3>3, <3>6, <4>1, ServeStep
      <3> HIDE DEF TxInv
      <3>7. counter <= Last \/ counter > Last
        BY <2>1, <3>2
      <3> QED BY <3>4, <3>5, <3>6, <3>7
    <2> QED BY <2>2, <2>3, <2>4, <2>5, <2>6
  <1> QED BY <1>1, <1>2

\* The step that BytesInOrder asks for.
SendsInOrder ==
  /\ tx_state = "IDLE" /\ tx_state' = "START"
       => tx_data' = After(tx_data) /\ txd = High
  /\ txd' # txd => txd' = CASE txd = High     -> StartBit
                            [] txd = StartBit -> 0
                            [] txd = 7           -> High
                            [] OTHER             -> txd + 1
  /\ txd # High => tx_data' = tx_data

\* Each clock sends in order, given the invariant.
LEMMA OrderStep == TxInv /\ [TxNext]_txVars => SendsInOrder
  <1> SUFFICES ASSUME TxInv, [TxNext]_txVars PROVE SendsInOrder
    OBVIOUS
  <1>1. CASE UNCHANGED txVars
    BY <1>1 DEF txVars, uart_txd, SendsInOrder
  <1>2. CASE TxNext
    <2> USE DEF TxInv, TxType, LineInv
    <2>1. UartTxd /\ Last \in 1 .. 14
      BY <1>2, LastAssumption DEF TxNext
    <2>2. ASSUME tx_state = "IDLE", tx_state' = "START"
          PROVE  tx_data' = After(tx_data) /\ txd = High
      <3>1. o_en = 1 /\ tx_data' = dout
        BY <2>1, <2>2, ServeStep
      <3>2. current_state = "SENDING_START"
        BY <2>2, <3>1 DEF DumpInv
      <3>3. counter <= Last /\ tx_data = Before(saved, counter)
            /\ dout = <<saved, counter>>
        BY <2>2, <3>1, <3>2 DEF DumpInv
      <3>4. CASE counter = 0
        BY <2>1, <2>2, <3>1, <3>3, <3>4 DEF After, Before
      <3>5. CASE counter # 0
        BY <2>1, <2>2, <3>1, <3>3, <3>5 DEF After, Before
      <3> QED BY <3>4, <3>5
    <2>3. ASSUME txd' # txd
          PROVE  txd' = CASE txd = High     -> StartBit
                          [] txd = StartBit -> 0
                          [] txd = 7        -> High
                          [] OTHER          -> txd + 1
      <3>1. CASE SendStart
        BY <3>1 DEF SendStart, High, StartBit
      <3>2. CASE Bit
        <4>1. /\ txd' = tx_bitpos
              /\ txd = IF tx_bitpos = 0 THEN StartBit ELSE tx_bitpos - 1
          BY <3>2 DEF Bit
        <4>2. CASE tx_bitpos = 0
          BY <4>1, <4>2 DEF High, StartBit
        <4>3. CASE tx_bitpos # 0
          <5>1. txd \in 0 .. 6 /\ txd' = txd + 1
            BY <4>1, <4>3
          <5> QED BY <5>1 DEF High, StartBit
        <4> QED BY <4>2, <4>3
      <3>3. CASE SendStop
        BY <3>3 DEF SendStop, High, StartBit
      <3> QED BY <2>1, <2>3, <3>1, <3>2, <3>3
              DEF UartTxd, Take, Wait, NoTick, uart_txd
    <2>4. ASSUME txd # High PROVE tx_data' = tx_data
      <3>1. tx_state # "IDLE"
        BY <2>4
      <3> QED BY <2>1, <3>1, ServeStep
    <2> QED BY <2>2, <2>3, <2>4 DEF SendsInOrder
  <1> QED BY <1>1, <1>2

-----------------------------------------------------------------------------
\* Where REG2UART and UART_TXD stand with respect to each other, always.
THEOREM TxInvariance == TxSpec => []TxInv
  BY TxStarts, TxStep, PTL DEF TxSpec

\* The bytes of a dump are taken one after the other, all from one saving of the
\* registers, and each goes out whole, however many there are: REG2UART's `counter'
\* and UART_TXD's `busy' keep the two in step.
THEOREM BytesAlwaysInOrder == TxSpec => BytesInOrder
  <1>1. TxInv /\ [TxNext]_txVars => [SendsInOrder]_txVars
    BY OrderStep
  <1> QED BY <1>1, TxInvariance, PTL DEF TxSpec, BytesInOrder, SendsInOrder

-----------------------------------------------------------------------------
(* The register frames. *)

Sets ==
  /\ frame \in Frames /\ sent \in 0 .. 5
  /\ reg_save \in Seq(Nat) /\ Len(reg_save) = 4

\* What of a frame that nothing has disturbed is heard is what UART2REG holds last.
Held ==
  whole /\ sent \in 1 .. 4 =>
    /\ ready = 0
    /\ \A i \in 1 .. sent : reg_save[4 - sent + i] = Bytes(frame)[i]

RegsInv == Sets /\ Held

-----------------------------------------------------------------------------
(* The format *)

Binary == 0 .. 1

LEMMA Triple ==
  ASSUME NEW A, NEW B, NEW C, NEW f \in A \X B \X C
  PROVE  f[1] \in A /\ f[2] \in B /\ f[3] \in C /\ f = <<f[1], f[2], f[3]>>
  OBVIOUS

\* A byte without its lowest bit, and with it.
LEMMA EvenByte ==
  ASSUME NEW b \in Octet
  PROVE  /\ Even(b) \in Octet /\ Even(b) % 16 # 15
         /\ Even(Even(b)) + (b % 2) = b /\ b % 2 \in Binary
  BY SMT DEF Even, Octet, Binary

LEMMA TwoBytes ==
  ASSUME NEW d \in Word
  PROVE  /\ d \div 256 \in Octet /\ d % 256 \in Octet
         /\ 256 * (d \div 256) + (d % 256) = d
  BY SMT DEF Octet, Word

\* The flag holds the four bits where UART2REG looks for them.
LEMMA Flag ==
  ASSUME NEW w \in Binary, NEW x \in Binary, NEW y \in Binary, NEW z \in Binary,
         NEW flag, flag = 128 * w + 64 * x + 32 * y + 16 * z + 15
  PROVE  /\ flag \in Octet /\ flag % 16 = 15
         /\ BitOf(flag, 128) = w /\ BitOf(flag, 64) = x
         /\ BitOf(flag, 32) = y /\ BitOf(flag, 16) = z
  <1>1. flag \in Octet /\ flag % 16 = 15
    BY SMT DEF Octet, Binary
  <1>2. BitOf(flag, 128) = w /\ BitOf(flag, 64) = x
    BY SMT DEF BitOf, Binary
  <1>3. BitOf(flag, 32) = y /\ BitOf(flag, 16) = z
    BY SMT DEF BitOf, Binary
  <1> QED BY <1>1, <1>2, <1>3

\* Data bytes are even, and only the flag ends in f, which gives every byte its
\* lowest bit back.
LEMMA Format ==
  ASSUME NEW f \in Octet \X Octet \X Word
  PROVE  /\ \A i \in 1 .. 5 : Bytes(f)[i] \in Octet
         /\ \A i \in 1 .. 4 : Bytes(f)[i] % 16 # 15
         /\ Bytes(f)[5] % 16 = 15
         /\ (\A i \in 1 .. 4 : reg_save[i] = Bytes(f)[i])
              => Decoded(Bytes(f)[5]) = f
  <1> DEFINE hi == f[3] \div 256  lo == f[3] % 256
             flag == 128 * (f[1] % 2) + 64 * (f[2] % 2) + 32 * (hi % 2)
                       + 16 * (lo % 2) + 15
  <1>1. /\ f[1] \in Octet /\ f[2] \in Octet /\ f[3] \in Word
        /\ f = <<f[1], f[2], f[3]>>
    BY Triple
  <1>2. hi \in Octet /\ lo \in Octet /\ 256 * hi + lo = f[3]
    BY <1>1, TwoBytes
  <1>3. /\ Bytes(f)[1] = Even(f[1]) /\ Bytes(f)[2] = Even(f[2])
        /\ Bytes(f)[3] = Even(hi) /\ Bytes(f)[4] = Even(lo)
        /\ Bytes(f)[5] = flag
    BY SMT DEF Bytes
  <1>4. flag = 128 * (f[1] % 2) + 64 * (f[2] % 2) + 32 * (hi % 2)
                 + 16 * (lo % 2) + 15
    OBVIOUS
  <1> HIDE DEF flag, hi, lo
  <1>5. /\ f[1] % 2 \in Binary /\ f[2] % 2 \in Binary
        /\ hi % 2 \in Binary /\ lo % 2 \in Binary
    BY <1>1, <1>2, EvenByte
  <1>6. /\ flag \in Octet /\ flag % 16 = 15
        /\ BitOf(flag, 128) = f[1] % 2 /\ BitOf(flag, 64) = f[2] % 2
        /\ BitOf(flag, 32) = hi % 2 /\ BitOf(flag, 16) = lo % 2
    BY <1>4, <1>5, Flag
  <1>7. \A i \in 1 .. 4 : /\ Bytes(f)[i] \in Octet
                           /\ Bytes(f)[i] % 16 # 15
    <2>1. /\ Bytes(f)[1] \in Octet /\ Bytes(f)[1] % 16 # 15
          /\ Bytes(f)[2] \in Octet /\ Bytes(f)[2] % 16 # 15
          /\ Bytes(f)[3] \in Octet /\ Bytes(f)[3] % 16 # 15
          /\ Bytes(f)[4] \in Octet /\ Bytes(f)[4] % 16 # 15
      BY <1>1, <1>2, <1>3, EvenByte
    <2> QED BY SMT, <2>1
  <1>8. ASSUME \A i \in 1 .. 4 : reg_save[i] = Bytes(f)[i]
        PROVE  Decoded(flag) = f
    <2>1. /\ reg_save[1] = Even(f[1]) /\ reg_save[2] = Even(f[2])
          /\ reg_save[3] = Even(hi) /\ reg_save[4] = Even(lo)
      BY SMT, <1>3, <1>8
    <2>2. /\ Even(reg_save[1]) + BitOf(flag, 128) = f[1]
          /\ Even(reg_save[2]) + BitOf(flag, 64) = f[2]
          /\ Even(reg_save[3]) + BitOf(flag, 32) = hi
          /\ Even(reg_save[4]) + BitOf(flag, 16) = lo
      BY <1>1, <1>2, <1>6, <2>1, EvenByte
    <2>3. Decoded(flag) = <<f[1], f[2], 256 * hi + lo>>
      BY SMT, <2>2 DEF Decoded
    <2> QED BY <1>1, <1>2, <2>3
  <1>9. Bytes(f)[5] \in Octet /\ Bytes(f)[5] % 16 = 15
    BY <1>3, <1>6
  <1>10. \A i \in 1 .. 5 : Bytes(f)[i] \in Octet
    BY SMT, <1>7, <1>9
  <1> QED BY <1>3, <1>7, <1>8, <1>9, <1>10

\* UART2REG's four bytes move up by one.
LEMMA Shift ==
  ASSUME NEW s \in Seq(Nat), Len(s) = 4, NEW d \in Nat
  PROVE  /\ Append(Tail(s), d) \in Seq(Nat) /\ Len(Append(Tail(s), d)) = 4
         /\ \A i \in 1 .. 3 : Append(Tail(s), d)[i] = s[i + 1]
         /\ Append(Tail(s), d)[4] = d
  <1> DEFINE u == Tail(s)  v == Append(u, d)
  <1>1. s # << >>
    OBVIOUS
  <1>2. /\ u \in Seq(Nat) /\ Len(u) = Len(s) - 1
        /\ \A i \in 1 .. Len(u) : u[i] = s[i + 1]
    BY <1>1, HeadTailProperties
  <1> HIDE DEF u
  <1>3. /\ v \in Seq(Nat) /\ Len(v) = Len(u) + 1
        /\ \A i \in 1 .. Len(u) : v[i] = u[i]
        /\ v[Len(u) + 1] = d
    <2>1. u \in Seq(Nat)
      BY <1>2
    <2> QED BY <2>1, AppendProperties
  <1> HIDE DEF v
  <1>4. /\ v \in Seq(Nat) /\ Len(v) = 4
        /\ \A i \in 1 .. 3 : v[i] = s[i + 1]
        /\ v[4] = d
    BY <1>2, <1>3
  <1> QED BY <1>4 DEF u, v

-----------------------------------------------------------------------------
(* The invariant *)

\* UART2REG keeps four bytes.
LEMMA ByteKeeps ==
  ASSUME Sets, NEW d \in Nat, Byte(d)
  PROVE  reg_save' \in Seq(Nat) /\ Len(reg_save') = 4
  <1>1. CASE d % 16 = 15
    BY <1>1 DEF Byte, Sets
  <1>2. CASE d % 16 # 15
    <2>1. reg_save' = Append(Tail(reg_save), d)
      BY <1>2 DEF Byte
    <2> QED BY <2>1, Shift DEF Sets
  <1> QED BY <1>1, <1>2

\* A byte of the frame is heard.
LEMMA HeardStep ==
  ASSUME RegsInv, Heard
  PROVE  /\ RegsInv'
         /\ whole' => regs' = IF sent = 4 THEN Apply(regs, frame) ELSE regs
  <1> USE DEF RegsInv
  <1> DEFINE din == Bytes(frame)[sent + 1]
  <1>1. /\ sent \in 0 .. 4 /\ sent' = sent + 1 /\ frame' = frame /\ whole' = whole
        /\ Byte(din)
    BY DEF Heard, Sets
  <1>2. /\ \A i \in 1 .. 5 : Bytes(frame)[i] \in Octet
        /\ \A i \in 1 .. 4 : Bytes(frame)[i] % 16 # 15
        /\ Bytes(frame)[5] % 16 = 15
        /\ (\A i \in 1 .. 4 : reg_save[i] = Bytes(frame)[i])
             => Decoded(Bytes(frame)[5]) = frame
    <2>1. frame \in Octet \X Octet \X Word
      BY FramesAssumption DEF Sets
    <2> QED BY <2>1, Format
  <1>3. din \in Nat
    <2>1. sent + 1 \in 1 .. 5
      BY <1>1
    <2>2. din \in Octet
      BY <1>2, <2>1
    <2> HIDE DEF din
    <2> QED BY SMT, <2>2 DEF Octet
  <1>4. Sets'
    BY <1>1, <1>3, ByteKeeps DEF Sets
  <1>5. CASE sent < 4
    <2>1. din % 16 # 15
      BY <1>1, <1>2, <1>5
    <2>2. ready' = 0 /\ regs' = regs /\ reg_save' = Append(Tail(reg_save), din)
      BY <1>1, <2>1 DEF Byte
    <2>3. ASSUME whole PROVE \A i \in 1 .. sent + 1 :
                               reg_save'[4 - (sent + 1) + i] = Bytes(frame)[i]
      <3> TAKE i \in 1 .. sent + 1
      <3> HIDE DEF din
      <3>1. /\ \A k \in 1 .. 3 : reg_save'[k] = reg_save[k + 1]
            /\ reg_save'[4] = din
        BY <1>3, <2>2, Shift DEF Sets
      <3>2. CASE i = sent + 1
        <4>1. 4 - (sent + 1) + i = 4
          BY <1>1, <3>2
        <4> QED BY <3>1, <3>2, <4>1 DEF din
      <3>3. CASE i <= sent
        <4>1. sent \in 1 .. 3 /\ i \in 1 .. sent
          BY <1>1, <1>5, <3>3
        <4>2. reg_save[4 - sent + i] = Bytes(frame)[i]
          BY <2>3, <4>1 DEF Held
        <4>3. 4 - (sent + 1) + i \in 1 .. 3 /\ 4 - (sent + 1) + i + 1 = 4 - sent + i
          BY <4>1
        <4> QED BY <3>1, <4>2, <4>3
      <3> QED BY <1>1, <3>2, <3>3
    <2>4. Held'
      <3>1. Bytes(frame)' = Bytes(frame)
        BY <1>1 DEF Bytes, Even
      <3> QED BY <1>1, <2>2, <2>3, <3>1 DEF Held
    <2> QED BY <1>4, <1>5, <2>2, <2>4
  <1>6. CASE sent = 4
    <2>1. Held'
      BY <1>1, <1>6 DEF Held
    <2>2. ASSUME whole' PROVE regs' = Apply(regs, frame)
      <3>1. ready = 0 /\ \A i \in 1 .. 4 : reg_save[i] = Bytes(frame)[i]
        BY <1>1, <1>6, <2>2 DEF Held
      <3>2. Decoded(Bytes(frame)[5]) = frame
        BY <1>2, <3>1
      <3>3. /\ regs' = Apply(regs, Decoded(din))
            /\ din = Bytes(frame)[5]
        BY <1>1, <1>2, <1>6, <3>1 DEF Byte
      <3> QED BY <3>2, <3>3
    <2> QED BY <1>4, <1>6, <2>1, <2>2
  <1> QED BY <1>1, <1>5, <1>6

\* Each byte, lost, heard or made up, keeps the invariant.
LEMMA RegsStep == RegsInv /\ [RegsNext]_regsVars => RegsInv'
  <1> SUFFICES ASSUME RegsInv, [RegsNext]_regsVars PROVE RegsInv'
    OBVIOUS
  <1> USE DEF RegsInv
  <1>1. CASE Heard
    BY <1>1, HeardStep
  <1>2. CASE Lost
    BY <1>2 DEF Lost, Sets, Held
  <1>3. CASE Garbage
    <2>1. PICK b \in Noise : Byte(b)
      BY <1>3 DEF Garbage
    <2>2. b \in Nat
      BY NoiseAssumption DEF Octet
    <2>3. reg_save' \in Seq(Nat) /\ Len(reg_save') = 4
      BY <2>1, <2>2, ByteKeeps
    <2>4. Sets'
      BY <1>3, <2>3 DEF Garbage, Sets
    <2>5. whole' => sent' = 0
      BY <1>3 DEF Garbage
    <2> QED BY <2>4, <2>5 DEF Held
  <1>4. CASE NextFrame
    BY <1>4 DEF NextFrame, Sets, Held
  <1>5. CASE UNCHANGED regsVars
    <2>1. UNCHANGED <<reg_save, ready, frame, sent, whole>>
      BY <1>5 DEF regsVars, host
    <2>2. Bytes(frame)' = Bytes(frame)
      BY <2>1 DEF Bytes, Even
    <2> QED BY <2>1, <2>2 DEF Sets, Held
  <1> QED BY <1>1, <1>2, <1>3, <1>4, <1>5 DEF RegsNext

\* UART2REG holds what of an undisturbed frame it has heard, always.
THEOREM RegsInvariance == RegsSpec => []RegsInv
  <1>1. RegsInit => RegsInv
    BY DEF RegsInit, RegsInv, Sets, Held
  <1> QED BY <1>1, RegsStep, PTL DEF RegsSpec

\* However many bytes were lost or made up before, and whatever the register and
\* the data: a frame that gets across whole writes its register with its last byte.
THEOREM WholeFrameAlwaysWritten == RegsSpec => WholeFrameWritten
  <1>1. RegsInv /\ [RegsNext]_regsVars =>
          [sent' = sent + 1 /\ whole'
             => regs' = IF sent = 4 THEN Apply(regs, frame)
                                    ELSE regs]_regsVars
    <2> SUFFICES ASSUME RegsInv, RegsNext, sent' = sent + 1, whole'
                 PROVE  regs' = IF sent = 4 THEN Apply(regs, frame) ELSE regs
      BY DEF regsVars
    <2>1. sent \in 0 .. 5
      BY DEF RegsInv, Sets
    <2>2. ASSUME Lost PROVE FALSE
      BY <2>2 DEF Lost
    <2>3. ASSUME Garbage PROVE FALSE
      <3>1. sent' = sent
        BY <2>3 DEF Garbage
      <3> QED BY <2>1, <3>1
    <2>4. ASSUME NextFrame PROVE FALSE
      <3>1. sent = 5 /\ sent' = 0
        BY <2>4 DEF NextFrame
      <3> QED BY <3>1
    <2>5. Heard
      BY <2>2, <2>3, <2>4 DEF RegsNext
    <2> QED BY <2>5, HeardStep
  <1> QED BY <1>1, RegsInvariance, PTL DEF RegsSpec, WholeFrameWritten
=============================================================================
