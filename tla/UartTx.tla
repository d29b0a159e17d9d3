------------------------------- MODULE UartTx -------------------------------
(***************************************************************************)
(* REG2UART, which sends the frequency counter's result over and over, and *)
(* UART_TXD, which sends a byte when asked to: o_en asks, busy answers.    *)
(* One action is one edge of clk, on which both move at once; the baud     *)
(* tick `clken' may come with any of them.                                 *)
(*                                                                         *)
(* A byte is named by the dump it belongs to, even or odd, and its place   *)
(* there; what is on the line by the number of the bit.                    *)
(***************************************************************************)
EXTENDS Integers

CONSTANT Last   \* place of a dump's last byte: 7

ASSUME LastAssumption == Last \in 1 .. 14

VARIABLES
  current_state, counter, o_en, dout, saved,  \* REG2UART; the dump in data[]
  tx_state, tx_bitpos, tx_data, txd                    \* UART_TXD

reg2uart == <<current_state, counter, o_en, dout, saved>>
uart_txd == <<tx_state, tx_bitpos, tx_data, txd>>
txVars   == <<reg2uart, uart_txd>>

StartBit == 8
High     == 9      \* a stop bit, or rest

TxInit ==
  /\ current_state = "IDLE" /\ counter = 7 /\ o_en = 0 /\ dout = <<1, Last>>
  /\ saved = 1
  /\ tx_state = "IDLE" /\ tx_bitpos = 0 /\ tx_data = <<1, Last>> /\ txd = High

busy == tx_state # "IDLE"

-----------------------------------------------------------------------------
(* REG2UART; en is 1. *)

\* Mutant: the byte's end is not waited for.
Mut_EndAtOnce ==
  CASE current_state = "IDLE"          -> "SAVEING_DATA"
    [] current_state = "SAVEING_DATA"  -> "SENDING_START"
    [] current_state = "SENDING_START" -> IF busy THEN "SENDING_ADD" ELSE "SENDING_START"
    [] current_state = "SENDING_ADD"   -> "SENDING_END"
    [] current_state = "SENDING_END"   -> IF counter > Last THEN "IDLE" ELSE "SENDING_START"

next_state ==
  CASE current_state = "IDLE"          -> "SAVEING_DATA"
    [] current_state = "SAVEING_DATA"  -> "SENDING_START"
    [] current_state = "SENDING_START" -> IF busy THEN "SENDING_ADD" ELSE "SENDING_START"
    [] current_state = "SENDING_ADD"   -> "SENDING_END"
    [] current_state = "SENDING_END"   ->
         IF busy THEN "SENDING_END"
         ELSE IF counter > Last THEN "IDLE" ELSE "SENDING_START"

\* Mutant: counter has three bits.
Mut_Counter3 ==
  /\ current_state' = next_state
  /\ o_en' = CASE current_state \in {"IDLE", "SENDING_ADD"} -> 0
               [] current_state = "SENDING_START" -> 1
               [] OTHER -> o_en
  /\ counter' = CASE current_state \in {"IDLE", "SAVEING_DATA"} -> 0
                  [] current_state = "SENDING_ADD" -> (counter + 1) % 8
                  [] OTHER -> counter
  /\ saved' = IF current_state = "SAVEING_DATA" THEN 1 - saved ELSE saved
  /\ dout' = IF current_state = "SENDING_START" THEN <<saved, counter>> ELSE dout

Reg2Uart ==
  /\ current_state' = next_state
  /\ o_en' = CASE current_state \in {"IDLE", "SENDING_ADD"} -> 0
               [] current_state = "SENDING_START" -> 1
               [] OTHER -> o_en
  /\ counter' = CASE current_state \in {"IDLE", "SAVEING_DATA"} -> 0
                  [] current_state = "SENDING_ADD" -> (counter + 1) % 16
                  [] OTHER -> counter
  /\ saved' = IF current_state = "SAVEING_DATA" THEN 1 - saved ELSE saved
  /\ dout' = IF current_state = "SENDING_START" THEN <<saved, counter>> ELSE dout

-----------------------------------------------------------------------------
(* UART_TXD *)

Take ==
  /\ tx_state = "IDLE" /\ o_en = 1
  /\ tx_state' = "START" /\ tx_data' = dout /\ tx_bitpos' = 0
  /\ UNCHANGED txd

Wait == tx_state = "IDLE" /\ o_en = 0 /\ UNCHANGED uart_txd

SendStart ==
  /\ tx_state = "START"
  /\ txd' = StartBit /\ tx_state' = "DATA"
  /\ UNCHANGED <<tx_bitpos, tx_data>>

Bit ==
  /\ tx_state = "DATA"
  /\ txd' = tx_bitpos
  /\ IF tx_bitpos = 7 THEN tx_state' = "STOP" /\ UNCHANGED tx_bitpos
                   ELSE tx_bitpos' = tx_bitpos + 1 /\ UNCHANGED tx_state
  /\ UNCHANGED tx_data

SendStop ==
  /\ tx_state = "STOP"
  /\ txd' = High /\ tx_state' = "IDLE"
  /\ UNCHANGED <<tx_bitpos, tx_data>>

NoTick == tx_state # "IDLE" /\ UNCHANGED uart_txd

UartTxd == Take \/ Wait \/ SendStart \/ Bit \/ SendStop \/ NoTick

-----------------------------------------------------------------------------
TxNext == Reg2Uart /\ UartTxd

TxSpec == TxInit /\ [][TxNext]_txVars

\* The clock runs, and so does the baud generator.
Fairness == WF_txVars(Reg2Uart /\ (Take \/ Wait \/ SendStart \/ Bit \/ SendStop))

FairSpec == TxSpec /\ Fairness

-----------------------------------------------------------------------------
(* Properties *)

After(b) == IF b[2] < Last THEN <<b[1], b[2] + 1>> ELSE <<1 - b[1], 0>>

\* The transmitter takes the bytes of a dump one after the other, none twice and
\* none left out, all from one saving of the registers, and then those of the
\* next one; and what it takes goes out whole: start bit, eight bits of one byte,
\* stop bit.
BytesInOrder ==
  [][/\ tx_state = "IDLE" /\ tx_state' = "START" =>
          tx_data' = After(tx_data) /\ txd = High
     /\ txd' # txd => txd' = CASE txd = High     -> StartBit
                               [] txd = StartBit -> 0
                               [] txd = 7        -> High
                               [] OTHER          -> txd + 1
     /\ txd # High => tx_data' = tx_data]_txVars

\* One dump after the other is sent to its end.
DumpsRecur == []<>(tx_data = <<0, Last>>) /\ []<>(tx_data = <<1, Last>>)
=============================================================================
