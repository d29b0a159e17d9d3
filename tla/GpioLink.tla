------------------------------ MODULE GpioLink ------------------------------
(***************************************************************************)
(* One frame over the GPIO pins: the state machine FPGA2AR9331 on the FPGA *)
(* and receive_data on the CPU, which share two wires.  The FPGA drives    *)
(* `clk_out' (the CPU's GPIO_CLK, also its interrupt) with the data, the   *)
(* CPU answers every change by flipping `ack'.  The frame has no length on *)
(* the wire: its end is a clock that stays still for Polls polls.          *)
(*                                                                         *)
(* An action of the FPGA is one edge of its clock: the next state from the *)
(* combinational process, the outputs from the registered one.  An action  *)
(* of the CPU touches the pins at most once.                               *)
(***************************************************************************)
EXTENDS Integers, Sequences

CONSTANTS Lengths,      \* lengths of frame the ADC can hand over (len_in)
          MaxLen,       \* GPIO_DATA_LEN_MAX: 4000 bytes of a frame are kept
          DelayLen,     \* DELAY_LEN, edges of the pause after a frame: 2000
          Periods,      \* periods of adc_clk in edges of the FPGA's clock:
                        \* 2 * (adc_freq + 1), any 16-bit adc_freq
          Polls,        \* polls without a change before the CPU gives up: 200
          MaxResets,    \* bound: times the host stops the sampling again, by
                        \* whether pins float and by the period
          Header,       \* the header byte, data_out <= 54
          Z             \* not driven: data_out <= 8'hzz, clk_out <= 1'bz

ASSUME LengthsAssumption == Lengths \subseteq Nat \ {0}
ASSUME PollsAssumption == Polls \in Nat \ {0, 1}
ASSUME MaxLenAssumption == MaxLen \in Nat \ {0}
\* A capture (LEN, 3000 words) is shorter than what the CPU keeps.
ASSUME FitsAssumption == \A l \in Lengths : l < MaxLen
ASSUME DelayLenAssumption == DelayLen \in Nat \ {0}
ASSUME PeriodsAssumption == Periods \subseteq Nat \ {0}
ASSUME MaxResetsAssumption == MaxResets \in [BOOLEAN \X Periods -> Nat]
ASSUME WireAssumption == Header \notin Nat /\ Z \notin Nat /\ Header # Z

VARIABLES
  \* the FPGA
  current_state, ack_save, len, delay_counter, clk_out, data_out,
  q,          \* word the ADC's FIFO shows: the number of words read from it
  saved,      \* history: the length SEND_START took for the frame
  en, len_in, \* the ADC: a capture is complete (isFull), and its length
  clearing,   \* it has seen `clear', and drops isFull on its next edge
  period,     \* of the slowest clock the host gives it
  since,      \* delay_counter at its last edge
  rst_n,      \* adc_en_u, written over the UART
  clean,      \* history: the host last started it with the CPU waiting
  resets,     \* times it was taken back, up to MaxResets
  floats,     \* whether this board reads an undriven clk_out as any level
  \* the CPU
  cpc,        \* where the interrupt, the tasklet and receive_data stand
  ack,        \* GPIO_ACK
  data_temp, clk_bit, timer, frame_type, data

wire    == <<clk_out, data_out>>
fsm     == <<current_state, ack_save, len, delay_counter>>
fifo    == <<q, saved>>
adc     == <<en, len_in, clearing, period, since>>
cpu     == <<cpc, ack, data_temp, clk_bit, timer, frame_type, data>>
host    == <<rst_n, resets, floats, clean>>
vars    == <<fsm, wire, fifo, adc, host, cpu>>

\* What a read of the pin GPIO_CLK may return.
Pin == IF clk_out # Z THEN {clk_out} ELSE IF floats THEN {0, 1} ELSE {0}

States == {"IDLE", "SEND_START_SAVE", "SEND_START", "SEND_START_2",
           "SEND_START_3", "SEND_ING_0", "SEND_ING_1", "SEND_ING_2",
           "SEND_ING_3", "SEND_ING_4", "SEND_END", "DELAY_1", "DELAY_2",
           "DELAY_3"}

Flip(b) == 1 - b

Init ==
  /\ current_state = "IDLE" /\ ack_save = 0 /\ len = 0
  /\ delay_counter = 0
  /\ clk_out = Z /\ data_out = Z /\ q = 0 /\ saved = 0
  /\ en = FALSE /\ len_in = 0 /\ clearing = FALSE
  /\ period \in Periods /\ since = 0
  /\ rst_n = FALSE /\ resets = 0 /\ clean = FALSE
  /\ floats \in BOOLEAN
  /\ cpc = "wait" /\ ack = 0 /\ data_temp = Z /\ clk_bit = 0 /\ timer = 0
  /\ frame_type = Z /\ data = << >>

-----------------------------------------------------------------------------
(* The ADC, as the link sees it: three of the edges of adc_clk, each at any *)
(* time, except that in the pause an edge comes every `period' edges of the *)
(* FPGA's clock at the latest (Timed) and that a capture takes longer than  *)
(* the pause.                                                               *)

\* ADC_FIFO_CONTROL is in SENDING: isFull, and the length it saved.
AdcFull ==
  /\ ~en /\ (current_state = "DELAY_3" => since = 0)
  /\ en' = TRUE
  /\ len_in' \in Lengths
  /\ since' = delay_counter
  /\ UNCHANGED <<fsm, wire, fifo, clearing, period, host, cpu>>

\* isWAIT is the ADC's `clear': it leaves SENDING...
AdcSeesClear ==
  /\ current_state = "DELAY_3" /\ en /\ ~clearing
  /\ clearing' = TRUE
  /\ since' = delay_counter
  /\ UNCHANGED <<fsm, wire, fifo, en, len_in, period, host, cpu>>

\* ...and drops isFull an edge later, wherever the link is by then.
AdcDrops ==
  /\ clearing /\ (current_state = "DELAY_3" => delay_counter > since)
  /\ en' = FALSE /\ clearing' = FALSE /\ q' = 0
  /\ since' = delay_counter
  /\ UNCHANGED <<fsm, wire, saved, len_in, period, host, cpu>>

AdcClear == AdcSeesClear \/ AdcDrops

-----------------------------------------------------------------------------
(* FPGA2AR9331: one action per state. *)

Edge(s) == rst_n /\ current_state = s

\* A state that only passes on.
Pass(s, t) ==
  /\ Edge(s)
  /\ current_state' = t
  /\ UNCHANGED <<ack_save, len, delay_counter, wire, fifo, adc, host, cpu>>

\* A rising r_clk shows the FIFO's next word, if isFull asks for it.  The FIFO
\* holds two words more than its length says; an empty one shows its last word
\* again.
NextWord == IF en /\ q < len_in + 2 THEN q + 1 ELSE q

\* The first two edges are there to synchronise the FIFO's reading side: whether
\* they show a word already depends on how far that side had got.
Synchronised == {q, NextWord}

FpgaIdle ==
  /\ Edge("IDLE") /\ (en \/ ack_save # ack \/ data_out # Z)
  /\ current_state' = IF en THEN "SEND_START_SAVE" ELSE "IDLE"
  /\ ack_save' = ack
  /\ data_out' = Z
  /\ UNCHANGED <<len, delay_counter, clk_out, fifo, adc, host, cpu>>

\* Mutant: the pause is not counted anew.
Mut_DelayNotReset ==
  /\ Edge("SEND_START_SAVE")
  /\ current_state' = "SEND_START"
  /\ ack_save' = ack
  /\ since' = delay_counter
  /\ data_out' = Header
  /\ q' \in Synchronised
  /\ UNCHANGED <<len, delay_counter, clk_out, saved, en, len_in, clearing, period,
                 host, cpu>>

FpgaStartSave ==
  /\ Edge("SEND_START_SAVE")
  /\ current_state' = "SEND_START"
  /\ ack_save' = ack
  /\ delay_counter' = 0 /\ since' = 0
  /\ data_out' = Header
  /\ q' \in Synchronised
  /\ UNCHANGED <<len, clk_out, saved, en, len_in, clearing, period, host,
                 cpu>>

\* Mutant: the length stays that of the last frame, counted down to zero.
Mut_LenNotSaved ==
  /\ Edge("SEND_START")
  /\ current_state' = "SEND_START_2"
  /\ clk_out' = 1
  /\ saved' = len_in
  /\ UNCHANGED <<len, ack_save, delay_counter, data_out, q, adc, host, cpu>>

FpgaStart ==
  /\ Edge("SEND_START")
  /\ current_state' = "SEND_START_2"
  /\ len' = len_in /\ saved' = len_in
  /\ clk_out' = 1
  /\ UNCHANGED <<ack_save, delay_counter, data_out, q, adc, host, cpu>>

FpgaStart2 ==
  /\ Edge("SEND_START_2")
  /\ current_state' = "SEND_START_3"
  /\ q' \in Synchronised
  /\ UNCHANGED <<ack_save, len, delay_counter, wire, saved, adc, host, cpu>>

FpgaStart3 == Pass("SEND_START_3", "SEND_ING_0")

FpgaIng0 ==
  /\ Edge("SEND_ING_0")
  /\ current_state' = "SEND_ING_1"
  /\ q' = NextWord
  /\ UNCHANGED <<ack_save, len, delay_counter, wire, saved, adc, host, cpu>>

FpgaIng1 == ack # ack_save /\ Pass("SEND_ING_1", "SEND_ING_2")

FpgaIng2 ==
  /\ Edge("SEND_ING_2")
  /\ current_state' = "SEND_ING_3"
  /\ ack_save' = ack
  /\ len' = len - 1
  /\ clk_out' = Flip(clk_out)
  /\ data_out' = q
  /\ UNCHANGED <<delay_counter, fifo, adc, host, cpu>>

FpgaIng3 == Pass("SEND_ING_3", "SEND_ING_4")

\* Mutant: the last byte is left in the FIFO.
Mut_StopsEarly ==
  Pass("SEND_ING_4", IF len = 1 THEN "SEND_END" ELSE "SEND_ING_0")

FpgaIng4 == Pass("SEND_ING_4", IF len = 0 THEN "SEND_END" ELSE "SEND_ING_0")

\* Mutant: the last byte's answer is not waited for.
Mut_EndAtOnce == Pass("SEND_END", "DELAY_1")

FpgaEnd == ack # ack_save /\ Pass("SEND_END", "DELAY_1")

FpgaDelay1 ==
  /\ Edge("DELAY_1")
  /\ current_state' = "DELAY_2"
  /\ data_out' = Z
  /\ ack_save' = ack
  /\ UNCHANGED <<len, delay_counter, clk_out, fifo, adc, host, cpu>>

FpgaDelay2 == ack # ack_save /\ Pass("DELAY_2", "DELAY_3")

\* No edge of the FPGA's clock comes before one of adc_clk that is due.
Timed == en => delay_counter < since + period

\* Mutant: the clock is left as the last word put it.
Mut_ClockLeft ==
  /\ Edge("DELAY_3") /\ delay_counter < DelayLen /\ Timed
  /\ delay_counter' = delay_counter + 1
  /\ UNCHANGED <<current_state, ack_save, len, wire, fifo, adc, host, cpu>>

FpgaDelay3 ==
  /\ Edge("DELAY_3") /\ delay_counter < DelayLen /\ Timed
  /\ delay_counter' = delay_counter + 1
  /\ clk_out' = 0
  /\ UNCHANGED <<current_state, ack_save, len, data_out, fifo, adc, host, cpu>>

\* Back to IDLE on the counter alone, whether the ADC has dropped isFull or not.
FpgaDelay3End ==
  /\ Edge("DELAY_3") /\ delay_counter >= DelayLen /\ Timed
  /\ current_state' = "IDLE"
  /\ clk_out' = 0
  /\ UNCHANGED <<ack_save, len, delay_counter, data_out, fifo, adc, host, cpu>>

Fpga == FpgaIdle \/ FpgaStartSave \/ FpgaStart \/ FpgaStart2 \/ FpgaStart3
          \/ FpgaIng0 \/ FpgaIng1 \/ FpgaIng2 \/ FpgaIng3 \/ FpgaIng4 \/ FpgaEnd
          \/ FpgaDelay1 \/ FpgaDelay2 \/ FpgaDelay3 \/ FpgaDelay3End

\* The host starts the sampling, at any time: adc_en_u <= 1.
Release ==
  /\ ~rst_n
  /\ rst_n' = TRUE
  /\ clean' = (cpc = "wait")
  /\ UNCHANGED <<fsm, wire, fifo, adc, resets, floats, cpu>>

\* The host stops it, at any time: the asynchronous reset.
Reset ==
  /\ rst_n /\ resets < MaxResets[floats, period]
  /\ rst_n' = FALSE /\ resets' = resets + 1
  /\ current_state' = "IDLE" /\ ack_save' = ack
  /\ clk_out' = Z /\ data_out' = Z
  /\ UNCHANGED <<len, delay_counter, fifo, adc, floats, clean, cpu>>

\* The FPGA moves no further until the CPU flips ack, the ADC is full or the
\* delay is over.
AtRest ==
  \/ ~rst_n
  \/ current_state = "IDLE" /\ ~en
  \/ current_state \in {"SEND_ING_1", "SEND_END", "DELAY_2"} /\ ack = ack_save
  \/ current_state = "DELAY_3" /\ delay_counter > 0

-----------------------------------------------------------------------------
(* The CPU: irq_handler and tasklet_handler as far as the wires go, and    *)
(* receive_data.                                                           *)

\* The level interrupt; it is masked from here to CpuDone.
CpuIrq ==
  /\ cpc = "wait" /\ 1 \in Pin
  /\ cpc' = "header"
  /\ UNCHANGED <<fsm, wire, fifo, adc, host, ack, data_temp, clk_bit, timer,
                 frame_type, data>>

CpuHeader ==
  /\ cpc = "header"
  /\ clk_bit' \in Pin
  /\ data_temp' = data_out
  /\ cpc' = "ack_header"
  /\ UNCHANGED <<fsm, wire, fifo, adc, host, ack, timer, frame_type, data>>

\* Mutant: the header is read and not answered.
Mut_HeaderNotAcked ==
  /\ cpc = "ack_header"
  /\ frame_type' = data_temp
  /\ timer' = 0
  /\ cpc' = "poll"
  /\ UNCHANGED <<fsm, wire, fifo, adc, host, ack, data_temp, clk_bit, data>>

CpuAckHeader ==
  /\ cpc = "ack_header"
  /\ ack' = Flip(ack)
  /\ frame_type' = data_temp
  /\ timer' = 0
  /\ cpc' = "poll"
  /\ UNCHANGED <<fsm, wire, fifo, adc, host, data_temp, clk_bit, data>>

\* The FPGA comes to rest some ten nanoseconds after an answer, the CPU's polls
\* are register reads: it rests well before the last but one of Polls polls.
Timely == timer + 2 < Polls \/ AtRest

\* Mutant: the turns are not counted.
Mut_PollsForever ==
  /\ cpc = "poll" /\ Timely
  /\ data_temp' = data_out
  /\ \E level \in Pin :
       /\ clk_bit' = level
       /\ cpc' = IF level # clk_bit THEN "take" ELSE "poll"
  /\ UNCHANGED <<fsm, wire, fifo, adc, host, ack, timer, frame_type, data>>

\* One turn of the inner loop.  A change seen by the very last poll still counts
\* as a timeout.
CpuPoll ==
  /\ cpc = "poll" /\ Timely
  /\ data_temp' = data_out
  /\ timer' = timer + 1
  /\ \E level \in Pin :
       \/ /\ timer + 1 = Polls
          /\ clk_bit' = level /\ cpc' = "give_up"
       \/ /\ timer + 1 < Polls /\ level # clk_bit
          /\ clk_bit' = level /\ cpc' = "take"
       \/ /\ timer + 1 < Polls /\ level = clk_bit
          /\ UNCHANGED <<clk_bit, cpc>>
  /\ UNCHANGED <<fsm, wire, fifo, adc, host, ack, frame_type, data>>

\* Mutant: nothing bounds the bytes of a frame.
Mut_NoLimit ==
  /\ cpc = "take"
  /\ ack' = Flip(ack)
  /\ data' = Append(data, data_temp)
  /\ timer' = 0
  /\ cpc' = "poll"
  /\ UNCHANGED <<fsm, wire, fifo, adc, host, data_temp, clk_bit, frame_type>>

CpuTake ==
  /\ cpc = "take"
  /\ ack' = Flip(ack)
  /\ data' = Append(data, data_temp)
  /\ timer' = 0
  /\ cpc' = IF Len(data) + 1 >= MaxLen THEN "done" ELSE "poll"
  /\ UNCHANGED <<fsm, wire, fifo, adc, host, data_temp, clk_bit, frame_type>>

CpuGiveUp ==
  /\ cpc = "give_up"
  /\ ack' = Flip(ack)
  /\ cpc' = "done"
  /\ UNCHANGED <<fsm, wire, fifo, adc, host, data_temp, clk_bit, timer,
                 frame_type, data>>

\* The frame is committed and the interrupt unmasked, by when the FPGA rests.
CpuDone ==
  /\ cpc = "done" /\ AtRest
  /\ cpc' = "wait"
  /\ data_temp' = Z /\ clk_bit' = 0 /\ timer' = 0 /\ frame_type' = Z
  /\ data' = << >>
  /\ UNCHANGED <<fsm, wire, fifo, adc, host, ack>>

Cpu == CpuIrq \/ CpuHeader \/ CpuAckHeader \/ CpuPoll \/ CpuTake \/ CpuGiveUp
         \/ CpuDone

-----------------------------------------------------------------------------
Next == AdcFull \/ AdcClear \/ Fpga \/ Release \/ Reset \/ Cpu

Spec == Init /\ [][Next]_vars

\* Both clocks run, the ADC sees its clear, the host starts the sampling.
Fairness == WF_vars(Fpga) /\ WF_vars(AdcClear) /\ WF_vars(Cpu) /\ WF_vars(Release)

FairSpec == Spec /\ Fairness

-----------------------------------------------------------------------------
(* Properties *)

Bits == {0, 1}
Words == Nat \cup {Header, Z}

TypeOK ==
  /\ current_state \in States /\ ack_save \in Bits /\ len \in Nat
  /\ clk_out \in Bits \cup {Z} /\ data_out \in Words
  /\ q \in Nat /\ saved \in Lengths \cup {0}
  /\ en \in BOOLEAN /\ len_in \in Lengths \cup {0} /\ rst_n \in BOOLEAN
  /\ clearing \in BOOLEAN /\ period \in Periods /\ clean \in BOOLEAN
  /\ delay_counter \in 0 .. DelayLen /\ since \in 0 .. DelayLen
  /\ floats \in BOOLEAN /\ resets \in 0 .. MaxResets[floats, period]
  /\ cpc \in {"wait", "header", "ack_header", "poll", "take", "give_up", "done"}
  /\ ack \in Bits /\ data_temp \in Words /\ clk_bit \in Bits
  /\ timer \in 0 .. Polls /\ frame_type \in Words
  /\ data \in Seq(Words)

\* The host has not stopped the sampling, and undriven pins read low.
Undisturbed == resets = 0 /\ ~floats

\* The FPGA runs, undriven pins read low, and the CPU had nothing of an earlier
\* frame in hand when the host last started it.
InTouch == rst_n /\ clean /\ ~floats

\* Two edges of adc_clk fit into the pause: adc_freq up to 499.
Fast == period + period <= DelayLen

\* When the CPU gives up, it is because the frame is over: the FPGA waits for
\* the closing answer, and the CPU holds the header and as many words as the ADC
\* had counted, in order and once each, from one of the FIFO's first three on.
\* With a slower adc_clk the FPGA leaves the pause with isFull still up and sends
\* the frame again from an empty FIFO, so that this is for a fast one only.
FrameWhole ==
  Undisturbed /\ Fast /\ cpc = "give_up" =>
    /\ current_state = "DELAY_2" /\ ack = ack_save
    /\ frame_type = Header
    /\ \E s \in 0 .. 2 : data = [i \in 1 .. len_in |-> i + s]

\* However often the host stopped the sampling before, and wherever that left the
\* two ends, one start that finds the CPU waiting brings them back into step: each
\* frame the CPU gives up on is over, has its header and the length SEND_START
\* took, at any adc_freq.  (Its words may be the wrong ones: the FIFO is not
\* rewound.  A start in the middle of receive_data breaks this: the header is
\* taken for a word, or both ends wait for each other.)
FrameLength ==
  InTouch /\ cpc = "give_up" =>
    /\ current_state = "DELAY_2" /\ ack = ack_save
    /\ frame_type = Header /\ Len(data) = saved

\* The CPU is interrupted by the header of a new frame and by nothing else: not
\* by the clock left high after a frame of even length.
HeaderInterrupts ==
  InTouch /\ cpc \in {"header", "ack_header"} =>
    /\ current_state \in {"SEND_START_2", "SEND_START_3", "SEND_ING_0",
                          "SEND_ING_1"}
    /\ data_out = Header /\ clk_out = 1 /\ ack = ack_save

\* While a frame is on the wires the FPGA is at most one word ahead.
InStep ==
  InTouch /\ cpc \in {"poll", "take"} /\ current_state \in
      {"SEND_ING_0", "SEND_ING_1", "SEND_ING_2", "SEND_ING_3", "SEND_ING_4"} =>
    saved - len - Len(data) \in {0, 1}

\* Whatever the host does to the FPGA in the middle of a frame, the CPU writes
\* no more than the slot holds.
BufferBound == Len(data) <= MaxLen

\* Every capture gets across and is cleared, although the host stops the sampling
\* in the middle of one: both ends are ready for the next.  A start in the middle
\* of receive_data (~clean) and a slow adc_clk may keep it from being cleared.
CaptureSent == Fast /\ ~floats /\ en ~> ~en \/ ~clean

\* receive_data, which runs in the tasklet, comes to an end whatever the host and
\* the pins do to it.
ReceiveEnds == cpc # "wait" ~> cpc = "wait"
=============================================================================
