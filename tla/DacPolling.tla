----------------------------- MODULE DacPolling -----------------------------
(***************************************************************************)
(* DAC_POLLING and its SPI_OUT: one DAC serves eight channels in turn.     *)
(* The word of a channel is shifted into the DAC, then the multiplexer     *)
(* connects the channel for a while, then it is parked on channel 7.       *)
(*                                                                         *)
(* Tick is an edge of clk_core; when clk_spi rises with it the SPI         *)
(* machine moves, and sees what the polling machine changes on that very   *)
(* edge before or after the change.  A word is named by its channel.       *)
(***************************************************************************)
EXTENDS Integers

CONSTANTS SPI_LEN,     \* bits of a word: 16
          Half,        \* core clocks to half a clock of the SPI: 7
          Pause        \* 40, of which the SPI's counter has 5 bits

ASSUME SpiLenAssumption == SPI_LEN \in 1 .. 31
ASSUME HalfAssumption == Half \in Nat \ {0}
ASSUME PauseAssumption == Pause \in Nat

VARIABLES
  cnt, clk_spi,                                          \* Div
  polling, counter, dac_data, spi_en, pos,               \* DAC_POLLING
  spi, left, data_in_save, sclk, dout, sync_n,           \* SPI_OUT
  falls, shown,     \* the DAC: falling edges seen, the word it shows
  connected         \* history: core clocks for which pos has not changed,
                    \* counted up to LongEnough

divider == <<cnt, clk_spi>>
poller  == <<polling, counter, dac_data, spi_en, pos>>
sender  == <<spi, left, data_in_save, sclk, dout, sync_n>>
dac     == <<falls, shown>>
vars    == <<divider, poller, sender, dac, connected>>

Channels == 0 .. 7
Parked == 7

\* Eight clocks of the SPI.
LongEnough == 8 * 2 * Half

\* Mutant: the literal is not cut to its five bits.
Mut_NotCut == Pause

\* 5'd40
PauseEnd == Pause % 32

\* Registers start at zero, which is also what channel 0 is to show.
Init ==
  /\ cnt = 0 /\ clk_spi = 0
  /\ polling = "IDLE" /\ counter = 0 /\ dac_data = 0 /\ spi_en = 0 /\ pos = 0
  /\ spi = "IDLE" /\ left = SPI_LEN /\ data_in_save = 0
  /\ sclk = 0 /\ dout = <<0, 0>> /\ sync_n = 0
  /\ falls = 0 /\ shown = 0 /\ connected = LongEnough

-----------------------------------------------------------------------------
(* SPI_OUT *)

\* Mutant: the pause after a word is left out.
Mut_NoPause(en) ==
  CASE spi = "IDLE"   -> IF en = 1 THEN "SEND_n" ELSE "IDLE"
    [] spi = "SEND"   -> IF left = 0 THEN "DELAY"
                         ELSE IF sclk = 0 THEN "SEND_n" ELSE "SEND"
    [] spi = "SEND_n" -> IF sclk = 1 THEN "SEND" ELSE "SEND_n"
    [] spi = "DELAY"  -> "DELAY_RELOAD"
    [] spi = "DELAY_RELOAD" -> "END"
    [] spi = "END"    -> "IDLE"

\* The state SPI_OUT goes to, if en is what it sees.
NextSpi(en) ==
  CASE spi = "IDLE"   -> IF en = 1 THEN "SEND_n" ELSE "IDLE"
    [] spi = "SEND"   -> IF left = 0 THEN "DELAY"
                         ELSE IF sclk = 0 THEN "SEND_n" ELSE "SEND"
    [] spi = "SEND_n" -> IF sclk = 1 THEN "SEND" ELSE "SEND_n"
    [] spi = "DELAY"  -> IF left > PauseEnd THEN "IDLE" ELSE "DELAY_RELOAD"
    [] spi = "DELAY_RELOAD" -> "END"
    [] spi = "END"    -> IF left > PauseEnd THEN "IDLE" ELSE "END"

isIDLE == NextSpi(spi_en) = "IDLE"
isEND  == NextSpi(spi_en) = "END"

SpiEdge(en, data_in) ==
  LET to == NextSpi(en) IN
  /\ spi' = to
  /\ data_in_save' = IF to = "IDLE" THEN data_in ELSE data_in_save
  /\ left' = CASE to = "IDLE" -> SPI_LEN
               [] to = "SEND" -> (left + 31) % 32
               [] to \in {"DELAY", "END"} -> (left + 1) % 32
               [] to = "DELAY_RELOAD" -> 0
               [] OTHER -> left
  /\ sclk' = IF to = "SEND" THEN 0 ELSE 1
  /\ sync_n' = CASE to = "SEND_n" -> 0 [] to = "SEND" -> sync_n [] OTHER -> 1
  /\ dout' = IF to = "SEND_n" THEN <<data_in_save, left - 1>> ELSE dout

\* The DAC takes a bit on each falling edge of sclk, the highest first, and
\* shows the word with the last one; sync_n going up drops an unfinished word.
Dac ==
  IF sync_n' = 1 THEN falls' = 0 /\ UNCHANGED shown
  ELSE IF sclk = 1 /\ sclk' = 0
    THEN /\ falls' = falls + 1
         /\ shown' = CASE dout[2] # SPI_LEN - 1 - falls -> -1
                       [] dout[2] = 0 -> dout[1]
                       [] OTHER -> shown
    ELSE UNCHANGED dac

-----------------------------------------------------------------------------
(* DAC_POLLING; en and rst_n are 1. *)

Idle ==
  /\ polling = "IDLE"
  /\ polling' = "SEND" /\ pos' = Parked /\ spi_en' = 0
  /\ UNCHANGED <<counter, dac_data>>

Send ==
  /\ polling = "SEND"
  /\ polling' = IF isEND THEN "COUNT" ELSE "SEND"
  /\ spi_en' = 1
  /\ UNCHANGED <<counter, dac_data, pos>>

\* Mutant: blocking assignments in the wrong order.
Mut_CountsFirst ==
  /\ polling = "COUNT"
  /\ polling' = "END"
  /\ spi_en' = 0 /\ counter' = (counter + 1) % 8 /\ pos' = counter'
  /\ UNCHANGED dac_data

Count ==
  /\ polling = "COUNT"
  /\ polling' = "END"
  /\ spi_en' = 0 /\ pos' = counter /\ counter' = (counter + 1) % 8
  /\ UNCHANGED dac_data

End ==
  /\ polling = "END"
  /\ polling' = IF isIDLE THEN "IDLE" ELSE "END"
  /\ dac_data' = counter
  /\ UNCHANGED <<counter, spi_en, pos>>

Poll == Idle \/ Send \/ Count \/ End

-----------------------------------------------------------------------------
Divide ==
  IF cnt = Half - 1 THEN cnt' = 0 /\ clk_spi' = 1 - clk_spi
                    ELSE cnt' = cnt + 1 /\ UNCHANGED clk_spi

Rises == cnt = Half - 1 /\ clk_spi = 0

Tick ==
  /\ Divide
  /\ Poll
  /\ IF Rises
       THEN /\ \E en \in {spi_en, spi_en'}, d \in {dac_data, dac_data'} : SpiEdge(en, d)
            /\ Dac
       ELSE UNCHANGED <<sender, dac>>
  /\ connected' = IF pos' # pos THEN 0
                  ELSE IF connected = LongEnough THEN connected ELSE connected + 1

Next == Tick

Spec == Init /\ [][Next]_vars

FairSpec == Spec /\ WF_vars(Tick)

-----------------------------------------------------------------------------
(* Properties *)

\* While a channel is connected the DAC shows that channel's word, all of it:
\* no channel but the one the multiplexer is parked on is ever given another's.
OwnWordOnly == pos # Parked => shown = pos

\* A channel is not let go before the SPI has paused for eight of its clocks.
ConnectedLong ==
  [][pos' # pos /\ pos # Parked => connected = LongEnough]_vars

\* Every channel is served again and again.
RoundsGoOn == \A c \in Channels : []<>(pos = c /\ shown = c)
=============================================================================
