--------------------------- MODULE GpioLinkProofs ---------------------------
(***************************************************************************)
(* Proofs about the link, for frames, delays and polls of any length.      *)
(***************************************************************************)
EXTENDS GpioLink, TLAPS

-----------------------------------------------------------------------------
(* The invariant.  Types, counting and room hold whatever the host and the  *)
(* pins do, the handshake after every start that finds the CPU waiting, and *)
(* the order of the words while nothing disturbs the link and adc_clk is    *)
(* fast: the FIFO is not rewound.                                           *)

\* TypeOK, in parts.
FpgaTypes ==
  /\ current_state \in States /\ ack_save \in Bits /\ len \in Nat
  /\ clk_out \in Bits \cup {Z} /\ data_out \in Words /\ q \in Nat
  /\ delay_counter \in 0 .. DelayLen /\ saved \in Lengths \cup {0}

HostTypes ==
  /\ en \in BOOLEAN /\ len_in \in Lengths \cup {0} /\ rst_n \in BOOLEAN
  /\ floats \in BOOLEAN /\ resets \in Nat /\ clean \in BOOLEAN
  /\ clearing \in BOOLEAN /\ period \in Periods /\ since \in 0 .. DelayLen

CpuTypes ==
  /\ cpc \in {"wait", "header", "ack_header", "poll", "take", "give_up", "done"}
  /\ ack \in Bits /\ data_temp \in Words /\ clk_bit \in Bits
  /\ timer \in 0 .. Polls /\ frame_type \in Words
  /\ data \in Seq(Words)

Types == FpgaTypes /\ HostTypes /\ CpuTypes

Bounded ==
  floats \in BOOLEAN /\ period \in Periods /\ resets \in 0 .. MaxResets[floats, period]

\* The clock is driven with a frame.
OnWire == {"SEND_START_2", "SEND_START_3", "SEND_ING_0", "SEND_ING_1",
           "SEND_ING_2", "SEND_ING_3", "SEND_ING_4", "SEND_END", "DELAY_1",
           "DELAY_2"}

\* The FPGA counts a capture's words down.
Counting ==
  /\ en \/ current_state # "IDLE" => len_in \in Lengths
  /\ current_state \in OnWire => saved \in Lengths
  /\ current_state \in {"SEND_START_2", "SEND_START_3"} => len = saved
  /\ current_state \in {"SEND_ING_0", "SEND_ING_1", "SEND_ING_2"} =>
       len \in 1 .. saved
  /\ current_state \in {"SEND_ING_3", "SEND_ING_4"} => len \in 0 .. saved - 1
  /\ current_state \in {"SEND_END", "DELAY_1", "DELAY_2"} => len = 0
  /\ current_state \in OnWire => clk_out \in Bits

\* The CPU has room for the byte it is about to take.
Room ==
  /\ cpc \in {"wait", "header", "ack_header"} => data = << >>
  /\ cpc \in {"poll", "take"} => Len(data) < MaxLen
  /\ Len(data) <= MaxLen
  /\ cpc = "poll" => timer < Polls

\* Words the FPGA has put on the wires.
Sent == saved - len

\* Between two frames the clock is low, or the CPU not yet back to listening.
\* While the FPGA is stopped the CPU may be anywhere, but has seen a still clock.
Between ==
  /\ current_state \in {"IDLE", "SEND_START_SAVE", "SEND_START", "DELAY_3"} =>
       /\ rst_n => cpc \in {"wait", "done"}
       /\ clk_out = 1 => current_state = "DELAY_3" /\ delay_counter = 0
  /\ current_state = "DELAY_3" /\ delay_counter = 0 => cpc = "done"
  /\ current_state \in OnWire \cup {"SEND_START"} => delay_counter = 0
  /\ current_state = "SEND_START" => ack = ack_save /\ data_out = Header
  /\ ~rst_n => current_state = "IDLE" /\ clk_out = Z

\* The header, or a word, is on the wires and the CPU has not looked.
Unseen ==
  /\ current_state \notin {"SEND_ING_2", "DELAY_1", "DELAY_2"}
  /\ ack = ack_save
  /\ IF Sent = 0
       THEN cpc \in {"wait", "done", "header"} /\ clk_out = 1 /\ data_out = Header
       ELSE /\ cpc = "poll" /\ clk_out # clk_bit /\ timer + 1 < Polls
            /\ Len(data) = Sent - 1 /\ frame_type = Header

\* The CPU has looked, and not yet answered.
Seen ==
  /\ current_state \notin {"SEND_ING_2", "DELAY_1", "DELAY_2"}
  /\ ack = ack_save /\ clk_out = clk_bit
  /\ IF Sent = 0
       THEN cpc = "ack_header" /\ data_temp = Header /\ clk_out = 1 /\ data_out = Header
       ELSE cpc = "take" /\ Len(data) = Sent - 1 /\ frame_type = Header

\* It has answered and polls for the next word.
Answered ==
  /\ current_state # "DELAY_2"
  /\ ack # ack_save /\ clk_out = clk_bit
  /\ cpc = "poll" /\ timer + 1 < Polls
  /\ Len(data) = Sent /\ frame_type = Header

\* There is no next word, which the CPU finds out by itself.
Over ==
  /\ current_state = "DELAY_2"
  /\ ack = ack_save /\ clk_out = clk_bit
  /\ cpc \in {"poll", "give_up"}
  /\ Len(data) = Sent /\ frame_type = Header

Closed == current_state = "DELAY_2" /\ ack # ack_save /\ cpc = "done"

Handshake ==
  current_state \in OnWire => Unseen \/ Seen \/ Answered \/ Over \/ Closed

\* The FIFO's words, of which the synchronisation has taken s.
From(s) ==
  /\ q = Sent + s + (IF current_state \in {"SEND_ING_1", "SEND_ING_2"} THEN 1 ELSE 0)
  /\ Sent > 0 /\ ack = ack_save /\ current_state # "DELAY_2" => data_out = Sent + s
  /\ cpc = "take" => data_temp = Sent + s
  /\ cpc \in {"poll", "take", "give_up"} =>
       \A i \in 1 .. Len(data) : data[i] = i + s

\* With two edges of adc_clk to a pause, isFull is down at its end, and not up
\* again before.
Paced ==
  /\ Fast
  /\ current_state \notin {"IDLE", "DELAY_3"} => en
  /\ clearing => en /\ current_state = "DELAY_3"
  /\ current_state \in OnWire => len_in = saved
  /\ current_state \in OnWire \cup {"SEND_START"} => since = 0
  /\ current_state = "DELAY_3" =>
       /\ ~en => since > 0
       /\ en => delay_counter <= since + period
       /\ en /\ ~clearing => since = 0
       /\ clearing => since <= period

InOrder ==
  /\ Paced
  /\ ~en \/ current_state \in {"IDLE", "SEND_START_SAVE"} => q = 0
  /\ current_state \in {"SEND_START", "SEND_START_2"} => q \in 0 .. 1
  /\ current_state = "SEND_START_3" => q \in 0 .. 2
  /\ current_state \in OnWire \ {"SEND_START_2", "SEND_START_3"} =>
       \E s \in 0 .. 2 : From(s)

FrameInv == Between /\ Handshake

\* Before the sampling first starts there is nothing to receive.
Waiting == IF rst_n THEN clean ELSE cpc = "wait"

\* Stopped, or last started with the CPU waiting.
Ready == rst_n => clean

LinkInv ==
  /\ Types /\ Bounded /\ Counting /\ Room
  /\ ~floats /\ Ready => FrameInv
  /\ Undisturbed => Waiting
  /\ Undisturbed /\ Fast => InOrder

-----------------------------------------------------------------------------
(* Types, counting and room *)

LEMMA ResetsFinite ==
  ASSUME NEW f \in BOOLEAN, NEW p \in Periods
  PROVE  MaxResets[f, p] \in Nat
  <1>1. <<f, p>> \in BOOLEAN \X Periods
    BY Zenon
  <1> QED BY <1>1, MaxResetsAssumption, Zenon

LEMMA StartsRight == Init => LinkInv
  <1> SUFFICES ASSUME Init PROVE LinkInv
    OBVIOUS
  <1>1. FpgaTypes
    BY DelayLenAssumption DEF Init, FpgaTypes, States, Bits, Words
  <1>2. HostTypes
    <2>1. since \in 0 .. DelayLen /\ resets \in Nat /\ len_in \in Lengths \cup {0}
      BY DelayLenAssumption DEF Init
    <2> QED BY <2>1, Zenon DEF Init, HostTypes
  <1>3. CpuTypes
    BY PollsAssumption DEF Init, CpuTypes, Bits, Words
  <1>4. Bounded
    <2>1. floats \in BOOLEAN /\ period \in Periods /\ resets = 0
      BY DEF Init
    <2>2. MaxResets[floats, period] \in Nat
      BY <2>1, ResetsFinite
    <2>3. ASSUME NEW n \in Nat PROVE 0 \in 0 .. n
      OBVIOUS
    <2> QED BY <2>1, <2>2, <2>3, Zenon DEF Bounded
  <1>5. Counting /\ Room
    BY MaxLenAssumption, PollsAssumption DEF Init, Counting, Room, OnWire
  <1>6. FrameInv
    BY WireAssumption DEF Init, FrameInv, Between, Handshake, OnWire
  <1>7. Waiting /\ (Fast => InOrder)
    BY DEF Init, InOrder, Paced, OnWire, Waiting
  <1> QED BY <1>1, <1>2, <1>3, <1>4, <1>5, <1>6, <1>7 DEF LinkInv, Types

\* Who changes what.
LEMMA FpgaFrame ==
  Fpga => UNCHANGED <<en, len_in, clearing, period, host, cpu>>
  BY DEF Fpga, FpgaIdle, FpgaStartSave, FpgaStart, FpgaStart2, FpgaStart3, FpgaIng0,
         FpgaIng1, FpgaIng2, FpgaIng3, FpgaIng4, FpgaEnd, FpgaDelay1, FpgaDelay2,
         FpgaDelay3, FpgaDelay3End, Pass, adc, host

LEMMA CpuFrame == Cpu => UNCHANGED <<fsm, wire, fifo, adc, host>>
  BY DEF Cpu, CpuIrq, CpuHeader, CpuAckHeader, CpuPoll, CpuTake, CpuGiveUp, CpuDone,
         adc, host

LEMMA HostStep ==
  ASSUME Next
  PROVE  /\ floats' = floats /\ period' = period
         /\ rst_n /\ ~Reset => rst_n' /\ clean' = clean
         /\ \/ resets' = resets
            \/ resets' = resets + 1 /\ resets < MaxResets[floats, period]
  <1>1. CASE Fpga
    BY <1>1, FpgaFrame DEF host
  <1>2. CASE Cpu
    BY <1>2, CpuFrame DEF host, adc
  <1>3. CASE AdcFull
    BY <1>3 DEF AdcFull, host
  <1>4. CASE AdcSeesClear
    BY <1>4 DEF AdcSeesClear, host
  <1>5. CASE AdcDrops
    BY <1>5, Zenon DEF AdcDrops, host
  <1>6. CASE Release
    BY <1>6 DEF Release, adc
  <1>7. CASE Reset
    BY <1>7 DEF Reset, adc
  <1> QED BY <1>1, <1>2, <1>3, <1>4, <1>5, <1>6, <1>7 DEF Next, AdcClear

LEMMA BoundedStep ==
  ASSUME Bounded, Next
  PROVE  Bounded'
  <1>1. MaxResets[floats, period] \in Nat
    BY ResetsFinite DEF Bounded
  <1>2. ASSUME NEW n \in Nat, NEW r \in 0 .. n, NEW s, s = r \/ (s = r + 1 /\ r < n)
        PROVE  s \in 0 .. n
    BY <1>2
  <1>3. resets' \in 0 .. MaxResets[floats, period]
    BY <1>1, <1>2, HostStep, Zenon DEF Bounded
  <1> QED BY <1>3, HostStep, Zenon DEF Bounded

LEMMA FpgaTypesStep ==
  ASSUME Types, Counting, Next
  PROVE  FpgaTypes'
  <1> USE DEF Types, FpgaTypes, States, Bits, Words, Flip, fsm, wire, fifo
  <1>1. CASE AdcFull \/ AdcSeesClear \/ AdcDrops \/ Release
    BY <1>1 DEF AdcFull, AdcSeesClear, AdcDrops, Release
  <1>2. CASE Reset
    BY <1>2 DEF Reset, CpuTypes
  <1>3. CASE Fpga
    <2>1. CASE FpgaIdle
      BY <2>1 DEF FpgaIdle, CpuTypes
    <2>2. CASE FpgaStartSave
      BY <2>2, DelayLenAssumption DEF FpgaStartSave, Synchronised, NextWord, CpuTypes
    <2>3. CASE FpgaStart
      BY <2>3, LengthsAssumption DEF FpgaStart, HostTypes
    <2>4. CASE FpgaStart2
      BY <2>4 DEF FpgaStart2, Synchronised, NextWord
    <2>5. CASE FpgaIng0
      BY <2>5 DEF FpgaIng0, NextWord
    <2>6. CASE FpgaIng2
      <3>1. len \in 1 .. saved /\ clk_out \in {0, 1} /\ saved \in Nat
        BY <2>6, LengthsAssumption DEF FpgaIng2, Edge, Counting, OnWire
      <3> QED BY <2>6, <3>1 DEF FpgaIng2, CpuTypes
    <2>7. CASE FpgaStart3 \/ FpgaIng1 \/ FpgaIng3 \/ FpgaIng4 \/ FpgaEnd
                 \/ FpgaDelay2 \/ FpgaDelay3End
      BY <2>7 DEF FpgaStart3, FpgaIng1, FpgaIng3, FpgaIng4, FpgaEnd, FpgaDelay2,
                  FpgaDelay3End, Pass
    <2>8. CASE FpgaDelay1
      BY <2>8 DEF FpgaDelay1, CpuTypes
    <2>9. CASE FpgaDelay3
      BY <2>9, DelayLenAssumption DEF FpgaDelay3
    <2> QED BY <1>3, <2>1, <2>2, <2>3, <2>4, <2>5, <2>6, <2>7, <2>8, <2>9 DEF Fpga
  <1>4. CASE Cpu
    BY <1>4, CpuFrame
  <1> QED BY <1>1, <1>2, <1>3, <1>4 DEF Next, AdcClear

LEMMA HostTypesStep ==
  ASSUME Types, Next
  PROVE  HostTypes'
  <1> USE DEF Types, FpgaTypes, HostTypes, adc, host, fsm
  <1>1. CASE AdcFull
    BY <1>1 DEF AdcFull
  <1>2. CASE AdcSeesClear \/ AdcDrops
    BY <1>2 DEF AdcSeesClear, AdcDrops
  <1>3. CASE Release
    BY <1>3 DEF Release
  <1>4. CASE Reset
    <2>1. rst_n' = FALSE /\ resets' = resets + 1
      BY <1>4 DEF Reset
    <2>2. UNCHANGED <<en, len_in, clearing, period, since, floats, clean>>
      BY <1>4 DEF Reset
    <2>3. resets' \in Nat
      BY <2>1
    <2>4. rst_n' \in BOOLEAN /\ en' \in BOOLEAN /\ floats' \in BOOLEAN
      BY <2>1, <2>2, Zenon
    <2>5. clearing' \in BOOLEAN /\ clean' \in BOOLEAN
      BY <2>2, Zenon
    <2> QED BY <2>2, <2>3, <2>4, <2>5
  <1>5. CASE Fpga
    <2>1. since' \in 0 .. DelayLen
      BY <1>5, DelayLenAssumption
         DEF Fpga, FpgaIdle, FpgaStartSave, FpgaStart, FpgaStart2, FpgaStart3,
             FpgaIng0, FpgaIng1, FpgaIng2, FpgaIng3, FpgaIng4, FpgaEnd, FpgaDelay1,
             FpgaDelay2, FpgaDelay3, FpgaDelay3End, Pass
    <2> QED BY <1>5, <2>1, FpgaFrame
  <1>6. CASE Cpu
    BY <1>6, CpuFrame
  <1> QED BY <1>1, <1>2, <1>3, <1>4, <1>5, <1>6 DEF Next, AdcClear

LEMMA CpuTypesStep ==
  ASSUME Types, Room, Next
  PROVE  CpuTypes'
  <1> USE PollsAssumption DEF Types, CpuTypes, Bits, Words, Flip, cpu
  <1>1. CASE AdcFull \/ AdcSeesClear \/ AdcDrops \/ Release \/ Reset
    BY <1>1 DEF AdcFull, AdcSeesClear, AdcDrops, Release, Reset
  <1>2. CASE Fpga
    BY <1>2, FpgaFrame
  <1>3. CASE Cpu
    <2>1. CASE CpuIrq
      BY <2>1 DEF CpuIrq
    <2>2. CASE CpuHeader
      BY <2>2 DEF CpuHeader, Pin, FpgaTypes
    <2>3. CASE CpuAckHeader
      BY <2>3 DEF CpuAckHeader
    <2>4. CASE CpuPoll
      BY <2>4 DEF CpuPoll, Pin, FpgaTypes, Room
    <2>5. CASE CpuTake
      BY <2>5 DEF CpuTake
    <2>6. CASE CpuGiveUp
      BY <2>6 DEF CpuGiveUp
    <2>7. CASE CpuDone
      BY <2>7 DEF CpuDone
    <2> QED BY <1>3, <2>1, <2>2, <2>3, <2>4, <2>5, <2>6, <2>7 DEF Cpu
  <1> QED BY <1>1, <1>2, <1>3 DEF Next, AdcClear

LEMMA CountingStep ==
  ASSUME Types, Counting, Next
  PROVE  Counting'
  <1> USE DEF Types, FpgaTypes, HostTypes, Counting, OnWire, fsm, wire, fifo, adc
  <1>1. CASE AdcFull
    BY <1>1 DEF AdcFull
  <1>2. CASE AdcSeesClear \/ AdcDrops
    BY <1>2 DEF AdcSeesClear, AdcDrops
  <1>3. CASE Release
    BY <1>3 DEF Release
  <1>4. CASE Reset
    BY <1>4 DEF Reset
  <1>5. CASE Fpga
    <2>1. CASE FpgaIdle
      BY <2>1 DEF FpgaIdle, Edge
    <2>2. CASE FpgaStartSave
      BY <2>2 DEF FpgaStartSave, Edge
    <2>3. CASE FpgaStart
      BY <2>3 DEF FpgaStart, Edge, Bits
    <2>4. CASE FpgaStart2
      BY <2>4 DEF FpgaStart2, Edge
    <2>5. CASE FpgaStart3
      BY <2>5, LengthsAssumption DEF FpgaStart3, Pass, Edge
    <2>6. CASE FpgaIng0
      BY <2>6 DEF FpgaIng0, Edge
    <2>7. CASE FpgaIng1
      BY <2>7 DEF FpgaIng1, Pass, Edge
    <2>8. CASE FpgaIng2
      BY <2>8, LengthsAssumption DEF FpgaIng2, Edge, Bits, Flip
    <2>9. CASE FpgaIng3
      BY <2>9 DEF FpgaIng3, Pass, Edge
    <2>10. CASE FpgaIng4
      BY <2>10, LengthsAssumption DEF FpgaIng4, Pass, Edge
    <2>11. CASE FpgaEnd
      BY <2>11 DEF FpgaEnd, Pass, Edge
    <2>12. CASE FpgaDelay1
      BY <2>12 DEF FpgaDelay1, Edge
    <2>13. CASE FpgaDelay2 \/ FpgaDelay3 \/ FpgaDelay3End
      BY <2>13 DEF FpgaDelay2, FpgaDelay3, FpgaDelay3End, Pass, Edge
    <2> QED BY <1>5, <2>1, <2>2, <2>3, <2>4, <2>5, <2>6, <2>7, <2>8, <2>9, <2>10,
               <2>11, <2>12, <2>13 DEF Fpga
  <1>6. CASE Cpu
    BY <1>6, CpuFrame
  <1> QED BY <1>1, <1>2, <1>3, <1>4, <1>5, <1>6 DEF Next, AdcClear

LEMMA RoomStep ==
  ASSUME CpuTypes, Room, Next
  PROVE  Room'
  <1> USE MaxLenAssumption, PollsAssumption DEF CpuTypes, Room, cpu
  <1>1. CASE AdcFull \/ AdcSeesClear \/ AdcDrops \/ Release \/ Reset
    BY <1>1 DEF AdcFull, AdcSeesClear, AdcDrops, Release, Reset
  <1>2. CASE Fpga
    BY <1>2, FpgaFrame
  <1>3. CASE Cpu
    <2>1. CASE CpuIrq
      BY <2>1 DEF CpuIrq
    <2>2. CASE CpuHeader
      BY <2>2 DEF CpuHeader
    <2>3. CASE CpuAckHeader
      BY <2>3 DEF CpuAckHeader
    <2>4. CASE CpuPoll
      BY <2>4 DEF CpuPoll
    <2>5. CASE CpuTake
      <3>1. Len(data') = Len(data) + 1
        BY <2>5 DEF CpuTake
      <3> QED BY <2>5, <3>1 DEF CpuTake
    <2>6. CASE CpuGiveUp
      BY <2>6 DEF CpuGiveUp
    <2>7. CASE CpuDone
      BY <2>7 DEF CpuDone
    <2> QED BY <1>3, <2>1, <2>2, <2>3, <2>4, <2>5, <2>6, <2>7 DEF Cpu
  <1> QED BY <1>1, <1>2, <1>3 DEF Next, AdcClear

-----------------------------------------------------------------------------
(* The handshake, with pins that do not float *)

\* All there is to know of a state whose undriven pins read low, in touch or
\* stopped.
Steady == Types /\ Counting /\ Room /\ FrameInv /\ ~floats

\* A capture is complete: the FPGA is between two frames.
LEMMA AdcFullKeeps ==
  ASSUME Steady, AdcFull
  PROVE  FrameInv' /\ (InOrder => InOrder')
  <1> USE LengthsAssumption, PeriodsAssumption, PollsAssumption, DelayLenAssumption,
          WireAssumption
      DEF Steady, Types, FpgaTypes, HostTypes, CpuTypes, Counting, OnWire, Bits, Flip,
          FrameInv, Sent, fsm, wire, fifo, adc, cpu, host
  <1>1. Between'
    BY DEF Between, AdcFull
  <1>2. Handshake'
    BY DEF Between, Handshake, Unseen, Seen, Answered, Over, Closed, AdcFull
  <1>3. ASSUME InOrder PROVE InOrder'
    BY <1>3 DEF Between, Handshake, Unseen, Seen, Answered, Over, Closed, InOrder,
       Paced, Fast, Timed, From, AdcFull
  <1> QED BY <1>1, <1>2, <1>3

\* The ADC has seen `clear', in the pause.
LEMMA AdcSeesClearKeeps ==
  ASSUME Steady, AdcSeesClear
  PROVE  FrameInv' /\ (InOrder => InOrder')
  <1> USE LengthsAssumption, PeriodsAssumption, PollsAssumption, DelayLenAssumption,
          WireAssumption
      DEF Steady, Types, FpgaTypes, HostTypes, CpuTypes, Counting, OnWire, Bits, Flip,
          FrameInv, Sent, fsm, wire, fifo, adc, cpu, host
  <1>1. Between'
    BY DEF Between, AdcSeesClear
  <1>2. Handshake'
    BY DEF Between, Handshake, Unseen, Seen, Answered, Over, Closed, AdcSeesClear
  <1>3. ASSUME InOrder PROVE InOrder'
    BY <1>3 DEF Between, Handshake, Unseen, Seen, Answered, Over, Closed, InOrder,
       Paced, Fast, Timed, From, AdcSeesClear
  <1> QED BY <1>1, <1>2, <1>3

\* isFull is down, and the words are counted anew.
LEMMA AdcDropsKeeps ==
  ASSUME Steady, AdcDrops
  PROVE  FrameInv' /\ (InOrder => InOrder')
  <1> USE LengthsAssumption, PeriodsAssumption, PollsAssumption, DelayLenAssumption,
          WireAssumption
      DEF Steady, Types, FpgaTypes, HostTypes, CpuTypes, Counting, OnWire, Bits, Flip,
          FrameInv, Sent, fsm, wire, fifo, adc, cpu, host
  <1>1. Between'
    BY DEF Between, AdcDrops
  <1>2. Handshake'
    BY DEF Between, Handshake, Unseen, Seen, Answered, Over, Closed, AdcDrops
  <1>3. ASSUME InOrder PROVE InOrder'
    BY <1>3 DEF Between, Handshake, Unseen, Seen, Answered, Over, Closed, InOrder,
       Paced, Fast, Timed, From, AdcDrops
  <1> QED BY <1>1, <1>2, <1>3

\* The sampling starts with both ends idle.
LEMMA ReleaseKeeps ==
  ASSUME Steady, Release, clean'
  PROVE  FrameInv' /\ (InOrder => InOrder')
  <1> USE LengthsAssumption, PeriodsAssumption, PollsAssumption, DelayLenAssumption,
          WireAssumption
      DEF Steady, Types, FpgaTypes, HostTypes, CpuTypes, Counting, OnWire, Bits, Flip,
          FrameInv, Sent, fsm, wire, fifo, adc, cpu, host
  <1>1. Between'
    BY DEF Between, Release
  <1>2. Handshake'
    BY DEF Between, Handshake, Unseen, Seen, Answered, Over, Closed, Release
  <1>3. ASSUME InOrder PROVE InOrder'
    BY <1>3 DEF Between, Handshake, Unseen, Seen, Answered, Over, Closed, InOrder,
       Paced, Fast, Timed, From, Release
  <1> QED BY <1>1, <1>2, <1>3

\* No clock is driven yet.
LEMMA FpgaIdleKeeps ==
  ASSUME Steady, FpgaIdle
  PROVE  FrameInv' /\ (InOrder => InOrder')
  <1> USE LengthsAssumption, PeriodsAssumption, PollsAssumption, DelayLenAssumption,
          WireAssumption
      DEF Steady, Types, FpgaTypes, HostTypes, CpuTypes, Counting, OnWire, Bits, Flip,
          FrameInv, Sent, fsm, wire, fifo, adc, cpu, host
  <1>1. Between'
    BY DEF Between, FpgaIdle, Edge
  <1>2. Handshake'
    BY DEF Between, Handshake, Unseen, Seen, Answered, Over, Closed, FpgaIdle,
       Edge
  <1>3. ASSUME InOrder PROVE InOrder'
    BY <1>3 DEF Between, Handshake, Unseen, Seen, Answered, Over, Closed, InOrder,
       Paced, Fast, Timed, From, FpgaIdle, Edge
  <1> QED BY <1>1, <1>2, <1>3

\* The header is put on the wires before the clock is.
LEMMA FpgaStartSaveKeeps ==
  ASSUME Steady, FpgaStartSave
  PROVE  FrameInv' /\ (InOrder => InOrder')
  <1> USE LengthsAssumption, PeriodsAssumption, PollsAssumption, DelayLenAssumption,
          WireAssumption
      DEF Steady, Types, FpgaTypes, HostTypes, CpuTypes, Counting, OnWire, Bits, Flip,
          FrameInv, Sent, fsm, wire, fifo, adc, cpu, host
  <1>1. Between'
    BY DEF Between, FpgaStartSave, Edge, Synchronised, NextWord
  <1>2. Handshake'
    BY DEF Between, Handshake, Unseen, Seen, Answered, Over, Closed,
       FpgaStartSave, Edge, Synchronised, NextWord
  <1>3. ASSUME InOrder PROVE InOrder'
    BY <1>3 DEF Between, Handshake, Unseen, Seen, Answered, Over, Closed, InOrder,
       Paced, Fast, Timed, From, FpgaStartSave, Edge, Synchronised, NextWord
  <1> QED BY <1>1, <1>2, <1>3

\* The clock rises: the header is there to be seen.
LEMMA FpgaStartKeeps ==
  ASSUME Steady, FpgaStart
  PROVE  FrameInv' /\ (InOrder => InOrder')
  <1> USE LengthsAssumption, PeriodsAssumption, PollsAssumption, DelayLenAssumption,
          WireAssumption
      DEF Steady, Types, FpgaTypes, HostTypes, CpuTypes, Counting, OnWire, Bits, Flip,
          FrameInv, Sent, fsm, wire, fifo, adc, cpu, host
  <1>1. Between'
    BY DEF Between, FpgaStart, Edge
  <1>2. Handshake'
    BY DEF Between, Handshake, Unseen, Seen, Answered, Over, Closed, FpgaStart,
       Edge
  <1>3. ASSUME InOrder PROVE InOrder'
    BY <1>3 DEF Between, Handshake, Unseen, Seen, Answered, Over, Closed, InOrder,
       Paced, Fast, Timed, From, FpgaStart, Edge
  <1> QED BY <1>1, <1>2, <1>3

\* The second edge of the synchronisation.
LEMMA FpgaStart2Keeps ==
  ASSUME Steady, FpgaStart2
  PROVE  FrameInv' /\ (InOrder => InOrder')
  <1> USE LengthsAssumption, PeriodsAssumption, PollsAssumption, DelayLenAssumption,
          WireAssumption
      DEF Steady, Types, FpgaTypes, HostTypes, CpuTypes, Counting, OnWire, Bits, Flip,
          FrameInv, Sent, fsm, wire, fifo, adc, cpu, host
  <1>1. Between'
    BY DEF Between, FpgaStart2, Edge, Synchronised, NextWord
  <1>2. Handshake'
    BY DEF Between, Handshake, Unseen, Seen, Answered, Over, Closed, FpgaStart2,
       Edge, Synchronised, NextWord
  <1>3. ASSUME InOrder PROVE InOrder'
    BY <1>3 DEF Between, Handshake, Unseen, Seen, Answered, Over, Closed, InOrder,
       Paced, Fast, Timed, From, FpgaStart2, Edge, Synchronised, NextWord
  <1> QED BY <1>1, <1>2, <1>3

\* What the synchronisation has taken is now settled.
LEMMA FpgaStart3Keeps ==
  ASSUME Steady, FpgaStart3
  PROVE  FrameInv' /\ (InOrder => InOrder')
  <1> USE LengthsAssumption, PeriodsAssumption, PollsAssumption, DelayLenAssumption,
          WireAssumption
      DEF Steady, Types, FpgaTypes, HostTypes, CpuTypes, Counting, OnWire, Bits, Flip,
          FrameInv, Sent, fsm, wire, fifo, adc, cpu, host
  <1>1. Between'
    BY DEF Between, FpgaStart3, Pass, Edge
  <1>2. Handshake'
    BY DEF Between, Handshake, Unseen, Seen, Answered, Over, Closed, FpgaStart3,
       Pass, Edge
  <1>3. ASSUME InOrder PROVE InOrder'
    BY <1>3 DEF Between, Handshake, Unseen, Seen, Answered, Over, Closed, InOrder,
       Paced, Fast, Timed, From, FpgaStart3, Pass, Edge
  <1> QED BY <1>1, <1>2, <1>3

\* The next word is shown, and there is one.
LEMMA FpgaIng0Keeps ==
  ASSUME Steady, FpgaIng0
  PROVE  FrameInv' /\ (InOrder => InOrder')
  <1> USE LengthsAssumption, PeriodsAssumption, PollsAssumption, DelayLenAssumption,
          WireAssumption
      DEF Steady, Types, FpgaTypes, HostTypes, CpuTypes, Counting, OnWire, Bits, Flip,
          FrameInv, Sent, fsm, wire, fifo, adc, cpu, host
  <1>1. Between'
    BY DEF Between, FpgaIng0, Edge, NextWord
  <1>2. Handshake'
    BY DEF Between, Handshake, Unseen, Seen, Answered, Over, Closed, FpgaIng0,
       Edge, NextWord
  <1>3. ASSUME InOrder PROVE InOrder'
    BY <1>3 DEF Between, Handshake, Unseen, Seen, Answered, Over, Closed, InOrder,
       Paced, Fast, Timed, From, FpgaIng0, Edge, NextWord
  <1> QED BY <1>1, <1>2, <1>3

\* The CPU has answered.
LEMMA FpgaIng1Keeps ==
  ASSUME Steady, FpgaIng1
  PROVE  FrameInv' /\ (InOrder => InOrder')
  <1> USE LengthsAssumption, PeriodsAssumption, PollsAssumption, DelayLenAssumption,
          WireAssumption
      DEF Steady, Types, FpgaTypes, HostTypes, CpuTypes, Counting, OnWire, Bits, Flip,
          FrameInv, Sent, fsm, wire, fifo, adc, cpu, host
  <1>1. Between'
    BY DEF Between, FpgaIng1, Pass, Edge
  <1>2. Handshake'
    BY DEF Between, Handshake, Unseen, Seen, Answered, Over, Closed, FpgaIng1,
       Pass, Edge
  <1>3. ASSUME InOrder PROVE InOrder'
    BY <1>3 DEF Between, Handshake, Unseen, Seen, Answered, Over, Closed, InOrder,
       Paced, Fast, Timed, From, FpgaIng1, Pass, Edge
  <1> QED BY <1>1, <1>2, <1>3

\* A word is put on the wires, and the clock changed.
LEMMA FpgaIng2Keeps ==
  ASSUME Steady, FpgaIng2
  PROVE  FrameInv' /\ (InOrder => InOrder')
  <1> USE LengthsAssumption, PeriodsAssumption, PollsAssumption, DelayLenAssumption,
          WireAssumption
      DEF Steady, Types, FpgaTypes, HostTypes, CpuTypes, Counting, OnWire, Bits, Flip,
          FrameInv, Sent, fsm, wire, fifo, adc, cpu, host
  <1>1. Between'
    BY DEF Between, FpgaIng2, Edge
  <1>2. Handshake'
    BY DEF Between, Handshake, Unseen, Seen, Answered, Over, Closed, FpgaIng2,
       Edge
  <1>3. ASSUME InOrder PROVE InOrder'
    BY <1>3 DEF Between, Handshake, Unseen, Seen, Answered, Over, Closed, InOrder,
       Paced, Fast, Timed, From, FpgaIng2, Edge
  <1> QED BY <1>1, <1>2, <1>3

\* Nothing but the state changes.
LEMMA FpgaIng3Keeps ==
  ASSUME Steady, FpgaIng3
  PROVE  FrameInv' /\ (InOrder => InOrder')
  <1> USE LengthsAssumption, PeriodsAssumption, PollsAssumption, DelayLenAssumption,
          WireAssumption
      DEF Steady, Types, FpgaTypes, HostTypes, CpuTypes, Counting, OnWire, Bits, Flip,
          FrameInv, Sent, fsm, wire, fifo, adc, cpu, host
  <1>1. Between'
    BY DEF Between, FpgaIng3, Pass, Edge
  <1>2. Handshake'
    BY DEF Between, Handshake, Unseen, Seen, Answered, Over, Closed, FpgaIng3,
       Pass, Edge
  <1>3. ASSUME InOrder PROVE InOrder'
    BY <1>3 DEF Between, Handshake, Unseen, Seen, Answered, Over, Closed, InOrder,
       Paced, Fast, Timed, From, FpgaIng3, Pass, Edge
  <1> QED BY <1>1, <1>2, <1>3

\* The last word, or another.
LEMMA FpgaIng4Keeps ==
  ASSUME Steady, FpgaIng4
  PROVE  FrameInv' /\ (InOrder => InOrder')
  <1> USE LengthsAssumption, PeriodsAssumption, PollsAssumption, DelayLenAssumption,
          WireAssumption
      DEF Steady, Types, FpgaTypes, HostTypes, CpuTypes, Counting, OnWire, Bits, Flip,
          FrameInv, Sent, fsm, wire, fifo, adc, cpu, host
  <1>1. Between'
    BY DEF Between, FpgaIng4, Pass, Edge
  <1>2. Handshake'
    BY DEF Between, Handshake, Unseen, Seen, Answered, Over, Closed, FpgaIng4,
       Pass, Edge
  <1>3. ASSUME InOrder PROVE InOrder'
    BY <1>3 DEF Between, Handshake, Unseen, Seen, Answered, Over, Closed, InOrder,
       Paced, Fast, Timed, From, FpgaIng4, Pass, Edge
  <1> QED BY <1>1, <1>2, <1>3

\* The last word is answered.
LEMMA FpgaEndKeeps ==
  ASSUME Steady, FpgaEnd
  PROVE  FrameInv' /\ (InOrder => InOrder')
  <1> USE LengthsAssumption, PeriodsAssumption, PollsAssumption, DelayLenAssumption,
          WireAssumption
      DEF Steady, Types, FpgaTypes, HostTypes, CpuTypes, Counting, OnWire, Bits, Flip,
          FrameInv, Sent, fsm, wire, fifo, adc, cpu, host
  <1>1. Between'
    BY DEF Between, FpgaEnd, Pass, Edge
  <1>2. Handshake'
    BY DEF Between, Handshake, Unseen, Seen, Answered, Over, Closed, FpgaEnd,
       Pass, Edge
  <1>3. ASSUME InOrder PROVE InOrder'
    BY <1>3 DEF Between, Handshake, Unseen, Seen, Answered, Over, Closed, InOrder,
       Paced, Fast, Timed, From, FpgaEnd, Pass, Edge
  <1> QED BY <1>1, <1>2, <1>3

\* From here the FPGA waits for the closing answer.
LEMMA FpgaDelay1Keeps ==
  ASSUME Steady, FpgaDelay1
  PROVE  FrameInv' /\ (InOrder => InOrder')
  <1> USE LengthsAssumption, PeriodsAssumption, PollsAssumption, DelayLenAssumption,
          WireAssumption
      DEF Steady, Types, FpgaTypes, HostTypes, CpuTypes, Counting, OnWire, Bits, Flip,
          FrameInv, Sent, fsm, wire, fifo, adc, cpu, host
  <1>1. Between'
    BY DEF Between, FpgaDelay1, Edge
  <1>2. Handshake'
    BY DEF Between, Handshake, Unseen, Seen, Answered, Over, Closed, FpgaDelay1,
       Edge
  <1>3. ASSUME InOrder PROVE InOrder'
    BY <1>3 DEF Between, Handshake, Unseen, Seen, Answered, Over, Closed, InOrder,
       Paced, Fast, Timed, From, FpgaDelay1, Edge
  <1> QED BY <1>1, <1>2, <1>3

\* The closing answer has come.
LEMMA FpgaDelay2Keeps ==
  ASSUME Steady, FpgaDelay2
  PROVE  FrameInv' /\ (InOrder => InOrder')
  <1> USE LengthsAssumption, PeriodsAssumption, PollsAssumption, DelayLenAssumption,
          WireAssumption
      DEF Steady, Types, FpgaTypes, HostTypes, CpuTypes, Counting, OnWire, Bits, Flip,
          FrameInv, Sent, fsm, wire, fifo, adc, cpu, host
  <1>1. Between'
    BY DEF Between, Handshake, Unseen, Seen, Answered, Over, Closed, FpgaDelay2,
       Pass, Edge
  <1>2. Handshake'
    BY DEF Between, Handshake, Unseen, Seen, Answered, Over, Closed, FpgaDelay2,
       Pass, Edge
  <1>3. ASSUME InOrder PROVE InOrder'
    BY <1>3 DEF Between, Handshake, Unseen, Seen, Answered, Over, Closed, InOrder,
       Paced, Fast, Timed, From, FpgaDelay2, Pass, Edge
  <1> QED BY <1>1, <1>2, <1>3

\* The clock is low before the CPU listens again.
LEMMA FpgaDelay3Keeps ==
  ASSUME Steady, FpgaDelay3
  PROVE  FrameInv' /\ (InOrder => InOrder')
  <1> USE LengthsAssumption, PeriodsAssumption, PollsAssumption, DelayLenAssumption,
          WireAssumption
      DEF Steady, Types, FpgaTypes, HostTypes, CpuTypes, Counting, OnWire, Bits, Flip,
          FrameInv, Sent, fsm, wire, fifo, adc, cpu, host
  <1>1. Between'
    BY DEF Between, FpgaDelay3, Edge
  <1>2. Handshake'
    BY DEF Between, Handshake, Unseen, Seen, Answered, Over, Closed, FpgaDelay3,
       Edge
  <1>3. ASSUME InOrder PROVE InOrder'
    BY <1>3 DEF Between, Handshake, Unseen, Seen, Answered, Over, Closed, InOrder,
       Paced, Fast, Timed, From, FpgaDelay3, Edge
  <1> QED BY <1>1, <1>2, <1>3

\* The capture is cleared by now.
LEMMA FpgaDelay3EndKeeps ==
  ASSUME Steady, FpgaDelay3End
  PROVE  FrameInv' /\ (InOrder => InOrder')
  <1> USE LengthsAssumption, PeriodsAssumption, PollsAssumption, DelayLenAssumption,
          WireAssumption
      DEF Steady, Types, FpgaTypes, HostTypes, CpuTypes, Counting, OnWire, Bits, Flip,
          FrameInv, Sent, fsm, wire, fifo, adc, cpu, host
  <1>1. Between'
    BY DEF Between, FpgaDelay3End, Pass, Edge
  <1>2. Handshake'
    BY DEF Between, Handshake, Unseen, Seen, Answered, Over, Closed,
       FpgaDelay3End, Pass, Edge
  <1>3. ASSUME InOrder PROVE InOrder'
    BY <1>3 DEF Between, Handshake, Unseen, Seen, Answered, Over, Closed, InOrder,
       Paced, Fast, Timed, From, FpgaDelay3End, Pass, Edge
  <1> QED BY <1>1, <1>2, <1>3

\* While the FPGA is stopped no clock is driven, and the CPU's steps are its own.
LEMMA StoppedKeeps ==
  ASSUME Steady, ~rst_n, Cpu
  PROVE  FrameInv' /\ (InOrder => InOrder')
  <1>1. current_state = "IDLE" /\ clk_out = Z
    BY DEF Steady, FrameInv, Between
  <1>2. UNCHANGED <<fsm, wire, fifo, adc, host>>
    BY CpuFrame
  <1>3. FrameInv'
    BY <1>1, <1>2, WireAssumption DEF FrameInv, Between, Handshake, OnWire, fsm, wire, host
  <1>4. ASSUME InOrder PROVE InOrder'
    BY <1>1, <1>2, <1>4 DEF InOrder, Paced, Fast, OnWire, fsm, fifo, adc
  <1> QED BY <1>3, <1>4

\* A high clock is a header.
LEMMA CpuIrqKeeps ==
  ASSUME Steady, rst_n, CpuIrq
  PROVE  FrameInv' /\ (InOrder => InOrder')
  <1> USE LengthsAssumption, PeriodsAssumption, PollsAssumption, DelayLenAssumption,
          WireAssumption
      DEF Steady, Types, FpgaTypes, HostTypes, CpuTypes, Counting, OnWire, Bits, Flip,
          FrameInv, Sent, fsm, wire, fifo, adc, cpu, host
  <1>1. Between'
    BY DEF Between, CpuIrq, Pin
  <1>2. Handshake'
    BY DEF Between, Handshake, Unseen, Seen, Answered, Over, Closed, CpuIrq, Pin
  <1>3. ASSUME InOrder PROVE InOrder'
    BY <1>3 DEF Between, Handshake, Unseen, Seen, Answered, Over, Closed, InOrder,
       Paced, Fast, Timed, From, CpuIrq, Pin
  <1> QED BY <1>1, <1>2, <1>3

\* The header is looked at.
LEMMA CpuHeaderKeeps ==
  ASSUME Steady, rst_n, CpuHeader
  PROVE  FrameInv' /\ (InOrder => InOrder')
  <1> USE LengthsAssumption, PeriodsAssumption, PollsAssumption, DelayLenAssumption,
          WireAssumption
      DEF Steady, Types, FpgaTypes, HostTypes, CpuTypes, Counting, OnWire, Bits, Flip,
          FrameInv, Sent, fsm, wire, fifo, adc, cpu, host
  <1>1. Between'
    BY DEF Between, CpuHeader, Pin
  <1>2. Handshake'
    BY DEF Between, Handshake, Unseen, Seen, Answered, Over, Closed, CpuHeader,
       Pin
  <1>3. ASSUME InOrder PROVE InOrder'
    BY <1>3 DEF Between, Handshake, Unseen, Seen, Answered, Over, Closed, InOrder,
       Paced, Fast, Timed, From, CpuHeader, Pin
  <1> QED BY <1>1, <1>2, <1>3

\* The header is answered.
LEMMA CpuAckHeaderKeeps ==
  ASSUME Steady, rst_n, CpuAckHeader
  PROVE  FrameInv' /\ (InOrder => InOrder')
  <1> USE LengthsAssumption, PeriodsAssumption, PollsAssumption, DelayLenAssumption,
          WireAssumption
      DEF Steady, Types, FpgaTypes, HostTypes, CpuTypes, Counting, OnWire, Bits, Flip,
          FrameInv, Sent, fsm, wire, fifo, adc, cpu, host
  <1>1. /\ current_state \in OnWire /\ ack = ack_save /\ clk_out = clk_bit
        /\ Sent = 0 /\ data_temp = Header
    BY DEF Between, Handshake, Unseen, Seen, Answered, Over, Closed, States,
           CpuAckHeader
  <1>2. data' = << >> /\ Len(data') = 0
    BY DEF Room, CpuAckHeader
  <1>3. ack' # ack_save /\ timer' + 1 < Polls
    BY <1>1 DEF CpuAckHeader
  <1>4. current_state \notin {"DELAY_2"}
    BY <1>1 DEF Handshake, Unseen, Seen, Answered, Over, Closed, CpuAckHeader
  <1>5. Between'
    BY DEF Between, CpuAckHeader
  <1>6. Handshake'
    BY <1>1, <1>2, <1>3, <1>4 DEF Handshake, Answered, CpuAckHeader
  <1>7. ASSUME InOrder PROVE InOrder'
    BY <1>1, <1>2, <1>3, <1>4, <1>7 DEF InOrder, Paced, Fast, From, CpuAckHeader
  <1> QED BY <1>5, <1>6, <1>7

\* A change is seen, or the end: the FPGA rests long before the last poll.
LEMMA CpuPollKeeps ==
  ASSUME Steady, rst_n, CpuPoll
  PROVE  FrameInv' /\ (InOrder => InOrder')
  <1> USE LengthsAssumption, PeriodsAssumption, PollsAssumption, DelayLenAssumption,
          WireAssumption
      DEF Steady, Types, FpgaTypes, HostTypes, CpuTypes, Counting, OnWire, Bits, Flip,
          FrameInv, Sent, fsm, wire, fifo, adc, cpu, host
  <1>1. Between'
    BY DEF Between, CpuPoll, Pin, Timely, AtRest
  <1>2. Handshake'
    BY DEF Between, Handshake, Unseen, Seen, Answered, Over, Closed, CpuPoll, Pin,
       Timely, AtRest
  <1>3. ASSUME InOrder PROVE InOrder'
    BY <1>3 DEF Between, Handshake, Unseen, Seen, Answered, Over, Closed, InOrder,
       Paced, Fast, Timed, From, CpuPoll, Pin, Timely, AtRest
  <1> QED BY <1>1, <1>2, <1>3

\* A word is taken, and answered.
LEMMA CpuTakeKeeps ==
  ASSUME Steady, rst_n, CpuTake
  PROVE  FrameInv' /\ (InOrder => InOrder')
  <1> USE LengthsAssumption, PeriodsAssumption, PollsAssumption, DelayLenAssumption,
          WireAssumption
      DEF Steady, Types, FpgaTypes, HostTypes, CpuTypes, Counting, OnWire, Bits, Flip,
          FrameInv, Sent, fsm, wire, fifo, adc, cpu, host
  <1>1. /\ current_state \in OnWire /\ ack = ack_save /\ clk_out = clk_bit
        /\ Len(data) = Sent - 1 /\ frame_type = Header
        /\ current_state # "DELAY_2"
    BY DEF Between, Handshake, Unseen, Seen, Answered, Over, Closed, States, CpuTake
  <1>2. Len(data') = Len(data) + 1
    BY DEF CpuTake
  <1>3. Len(data) + 1 < MaxLen
    <2>1. saved \in Lengths /\ len \in Nat /\ saved \in Nat
      BY <1>1
    <2>2. saved < MaxLen
      BY <2>1, FitsAssumption
    <2> QED BY <1>1, <2>1, <2>2, MaxLenAssumption
  <1>4. cpc' = "poll" /\ ack' # ack_save /\ timer' + 1 < Polls
    <2>1. cpc' = "poll"
      BY <1>3, MaxLenAssumption DEF CpuTake
    <2>2. ack' # ack_save /\ timer' + 1 < Polls
      BY <1>1 DEF CpuTake
    <2> QED BY <2>1, <2>2
  <1>5. Between'
    BY DEF Between, CpuTake
  <1>6. Handshake'
    BY <1>1, <1>2, <1>3, <1>4 DEF Handshake, Answered, CpuTake
  <1>7. ASSUME InOrder PROVE InOrder'
    BY <1>1, <1>2, <1>3, <1>4, <1>7 DEF Between, Handshake, Unseen, Seen, Answered,
       Over, Closed, InOrder, Paced, Fast, From, CpuTake
  <1> QED BY <1>5, <1>6, <1>7

\* The CPU answers for the last time.
LEMMA CpuGiveUpKeeps ==
  ASSUME Steady, rst_n, CpuGiveUp
  PROVE  FrameInv' /\ (InOrder => InOrder')
  <1> USE LengthsAssumption, PeriodsAssumption, PollsAssumption, DelayLenAssumption,
          WireAssumption
      DEF Steady, Types, FpgaTypes, HostTypes, CpuTypes, Counting, OnWire, Bits, Flip,
          FrameInv, Sent, fsm, wire, fifo, adc, cpu, host
  <1>1. Between'
    BY DEF Between, CpuGiveUp
  <1>2. Handshake'
    BY DEF Between, Handshake, Unseen, Seen, Answered, Over, Closed, CpuGiveUp
  <1>3. ASSUME InOrder PROVE InOrder'
    BY <1>3 DEF Between, Handshake, Unseen, Seen, Answered, Over, Closed, InOrder,
       Paced, Fast, Timed, From, CpuGiveUp
  <1> QED BY <1>1, <1>2, <1>3

\* The CPU listens again.
LEMMA CpuDoneKeeps ==
  ASSUME Steady, rst_n, CpuDone
  PROVE  FrameInv' /\ (InOrder => InOrder')
  <1> USE LengthsAssumption, PeriodsAssumption, PollsAssumption, DelayLenAssumption,
          WireAssumption
      DEF Steady, Types, FpgaTypes, HostTypes, CpuTypes, Counting, OnWire, Bits, Flip,
          FrameInv, Sent, fsm, wire, fifo, adc, cpu, host
  <1>1. Between'
    BY DEF Between, CpuDone, AtRest
  <1>2. Handshake'
    BY DEF Between, Handshake, Unseen, Seen, Answered, Over, Closed, CpuDone,
       AtRest
  <1>3. ASSUME InOrder PROVE InOrder'
    BY <1>3 DEF Between, Handshake, Unseen, Seen, Answered, Over, Closed, InOrder,
       Paced, Fast, Timed, From, CpuDone, AtRest
  <1> QED BY <1>1, <1>2, <1>3

\* The FPGA is stopped: it drives no wire.
LEMMA ResetKeeps ==
  ASSUME Reset
  PROVE  FrameInv'
  <1>0. ~rst_n' /\ current_state' = "IDLE" /\ clk_out' = Z
    BY Zenon DEF Reset
  <1>1. Between'
    BY <1>0, WireAssumption DEF Between, OnWire
  <1>2. Handshake'
    BY <1>0 DEF Handshake, OnWire
  <1> QED BY <1>1, <1>2 DEF FrameInv

\* The link stays in step, and the words in order but for a reset.
LEMMA FrameStep ==
  ASSUME Steady, Next, Ready'
  PROVE  FrameInv' /\ (InOrder /\ ~Reset => InOrder')
  <1>1. CASE AdcFull \/ AdcSeesClear \/ AdcDrops
    BY <1>1, AdcFullKeeps, AdcSeesClearKeeps, AdcDropsKeeps
  <1>2. CASE Fpga
    BY <1>2, FpgaIdleKeeps, FpgaStartSaveKeeps, FpgaStartKeeps, FpgaStart2Keeps,
       FpgaStart3Keeps, FpgaIng0Keeps, FpgaIng1Keeps, FpgaIng2Keeps, FpgaIng3Keeps,
       FpgaIng4Keeps, FpgaEndKeeps, FpgaDelay1Keeps, FpgaDelay2Keeps,
       FpgaDelay3Keeps, FpgaDelay3EndKeeps DEF Fpga
  <1>3. CASE Cpu
    BY <1>3, StoppedKeeps, CpuIrqKeeps, CpuHeaderKeeps, CpuAckHeaderKeeps, CpuPollKeeps,
       CpuTakeKeeps, CpuGiveUpKeeps, CpuDoneKeeps DEF Cpu
  <1>4. CASE Reset
    BY <1>4, ResetKeeps
  <1>5. CASE Release
    <2>1. clean'
      BY <1>5 DEF Ready, Release
    <2> QED BY <1>5, <2>1, ReleaseKeeps
  <1> QED BY <1>1, <1>2, <1>3, <1>4, <1>5 DEF Next, AdcClear

\* Until the sampling starts the clock is not driven, which reads low.
LEMMA WaitingStep ==
  ASSUME Waiting, ~rst_n => FrameInv, Undisturbed, Next, ~Reset
  PROVE  Waiting'
  <1> USE DEF Waiting
  <1>1. CASE AdcFull \/ AdcSeesClear \/ AdcDrops
    BY <1>1 DEF AdcFull, AdcSeesClear, AdcDrops, host, cpu
  <1>2. CASE Release
    BY <1>2 DEF Release
  <1>3. CASE Fpga
    BY <1>3, FpgaFrame DEF cpu, host
  <1>4. CASE Cpu
    <2>1. rst_n' = rst_n /\ clean' = clean
      BY <1>4, CpuFrame DEF host
    <2>2. ASSUME ~rst_n PROVE FALSE
      <3>1. cpc = "wait" /\ 1 \notin Pin
        BY <2>2, WireAssumption DEF FrameInv, Between, Undisturbed, Pin
      <3> QED BY <1>4, <3>1 DEF Cpu, CpuIrq, CpuHeader, CpuAckHeader, CpuPoll, CpuTake,
                               CpuGiveUp, CpuDone
    <2> QED BY <2>1, <2>2
  <1> QED BY <1>1, <1>2, <1>3, <1>4 DEF Next, AdcClear

\* Once disturbed, a run stays so.
LEMMA DisturbedStays ==
  ASSUME HostTypes, Next, Undisturbed'
  PROVE  Undisturbed /\ ~Reset
  <1>1. /\ floats' = floats /\ (resets' = resets \/ resets' = resets + 1)
        /\ Reset => resets' = resets + 1
    BY HostStep, Zenon DEF Reset
  <1>2. resets \in Nat /\ resets' = 0 /\ ~floats'
    BY DEF HostTypes, Undisturbed
  <1>3. resets' = resets
    BY <1>1, <1>2
  <1> QED BY <1>1, <1>2, <1>3 DEF Undisturbed

LEMMA StutterKeeps ==
  ASSUME LinkInv, UNCHANGED vars
  PROVE  LinkInv'
  <1> USE DEF LinkInv, vars, fsm, wire, fifo, adc, cpu, host
  <1>1. Types'
    BY DEF Types, FpgaTypes, HostTypes, CpuTypes
  <1>2. Bounded' /\ Counting' /\ Room'
    BY DEF Bounded, Counting, Room
  <1>3. ~floats' /\ Ready' => FrameInv'
    BY DEF Ready, FrameInv, Between, Handshake, Unseen, Seen, Answered, Over, Closed, Sent
  <1>4. Undisturbed' => Waiting' /\ (Fast' => InOrder')
    BY DEF Undisturbed, Fast, InOrder, Paced, From, Sent, Waiting
  <1> QED BY <1>1, <1>2, <1>3, <1>4

\* Every step of either end, of the ADC and of the host keeps the invariant.
THEOREM LinkStep == LinkInv /\ [Next]_vars => LinkInv'
  <1> SUFFICES ASSUME LinkInv, [Next]_vars PROVE LinkInv'
    OBVIOUS
  <1>1. CASE Next
    <2>1. Types' /\ Bounded' /\ Counting' /\ Room'
      BY <1>1, FpgaTypesStep, HostTypesStep, CpuTypesStep, BoundedStep, CountingStep,
         RoomStep DEF LinkInv, Types
    <2>2. ASSUME ~floats', Ready' PROVE FrameInv'
      <3>1. CASE Reset
        BY <3>1, ResetKeeps
      <3>2. CASE ~Reset
        <4>0. floats' = floats /\ (rst_n => rst_n' /\ clean' = clean)
          BY <1>1, <3>2, HostStep, Zenon
        <4>1. ~floats /\ Ready
          BY <2>2, <4>0 DEF Ready
        <4> QED BY <1>1, <2>2, <4>1, FrameStep DEF LinkInv, Steady
      <3> QED BY <3>1, <3>2
    <2>3. ASSUME Undisturbed' PROVE Waiting' /\ (Fast' => InOrder')
      <3>1. Undisturbed /\ ~Reset
        BY <1>1, <2>3, DisturbedStays DEF LinkInv, Types
      <3>2. Ready /\ Steady /\ Waiting /\ (Fast => InOrder)
        BY <3>1 DEF LinkInv, Steady, Undisturbed, Waiting, Ready
      <3>3. Waiting'
        BY <1>1, <3>1, <3>2, WaitingStep DEF Steady
      <3>4. Ready' /\ (Fast' => Fast)
        BY <1>1, <3>3, HostStep DEF Waiting, Ready, Fast
      <3> QED BY <1>1, <3>1, <3>2, <3>3, <3>4, FrameStep
    <2> QED BY <2>1, <2>2, <2>3 DEF LinkInv
  <1>2. CASE UNCHANGED vars
    BY <1>2, StutterKeeps
  <1> QED BY <1>1, <1>2

-----------------------------------------------------------------------------
(* What the specification guarantees *)

\* The invariant holds in every state of the link.
THEOREM LinkInvariance == Spec => []LinkInv
  <1> QED BY StartsRight, LinkStep, PTL DEF Spec

\* The registers of the FPGA and the locals of receive_data keep their types.
THEOREM LinkTypeCorrect == Spec => []TypeOK
  <1>1. LinkInv => TypeOK
    BY DEF LinkInv, Types, FpgaTypes, HostTypes, CpuTypes, Bounded, TypeOK
  <1> QED BY <1>1, LinkInvariance, PTL

\* receive_data writes no more than the slot holds, whatever the host does to the
\* FPGA in the middle of a frame, and whatever an undriven pin reads.
THEOREM AlwaysBounded == Spec => []BufferBound
  <1>1. LinkInv => BufferBound
    BY DEF LinkInv, Room, BufferBound
  <1> QED BY <1>1, LinkInvariance, PTL

\* With adc_freq up to 499, sampling never stopped and pins that read low,
\* receive_data gives up only when the frame is over, and then holds all of it.
THEOREM AlwaysWhole == Spec => []FrameWhole
  <1>1. ASSUME LinkInv PROVE FrameWhole
    <2> SUFFICES ASSUME Undisturbed, Fast, cpc = "give_up"
                 PROVE  /\ current_state = "DELAY_2" /\ ack = ack_save
                        /\ frame_type = Header
                        /\ \E s \in 0 .. 2 : data = [i \in 1 .. len_in |-> i + s]
      BY DEF FrameWhole
    <2>1. rst_n /\ FrameInv /\ InOrder /\ Types /\ Counting
      BY <1>1 DEF LinkInv, Undisturbed, Waiting, Ready
    <2>2. current_state \in OnWire
      BY <2>1 DEF FrameInv, Between, Types, FpgaTypes, States, OnWire
    <2>3. Over
      BY <2>1, <2>2 DEF FrameInv, Handshake, Unseen, Seen, Answered, Closed
    <2>4. PICK s \in 0 .. 2 : From(s)
      BY <2>1, <2>3 DEF InOrder, Over, OnWire
    <2>5. Len(data) = len_in /\ len_in \in Nat
      BY <2>1, <2>2, <2>3, LengthsAssumption
         DEF Over, Sent, Counting, InOrder, Paced, Types, HostTypes
    <2>6. \A i \in 1 .. Len(data) : data[i] = i + s
      BY <2>4 DEF From
    <2>7. data \in Seq(Words)
      BY <2>1 DEF Types, CpuTypes
    <2>8. data = [i \in 1 .. len_in |-> i + s]
      BY <2>5, <2>6, <2>7
    <2> QED BY <2>3, <2>8 DEF Over
  <1> QED BY <1>1, LinkInvariance, PTL

\* At any adc_freq, and however often the host has stopped and started the
\* sampling before: after a start that finds the CPU waiting, and with pins that
\* read low, a frame that receive_data gives up on is over, and is as long as
\* SEND_START counted it.
THEOREM AlwaysLength == Spec => []FrameLength
  <1>1. ASSUME LinkInv PROVE FrameLength
    <2> SUFFICES ASSUME InTouch, cpc = "give_up"
                 PROVE  /\ current_state = "DELAY_2" /\ ack = ack_save
                        /\ frame_type = Header /\ Len(data) = saved
      BY DEF FrameLength
    <2> USE <1>1 DEF LinkInv, FrameInv, InTouch, Ready
    <2>1. current_state \in OnWire
      BY DEF Between, Types, FpgaTypes, States, OnWire
    <2>2. Over
      BY <2>1 DEF Handshake, Unseen, Seen, Answered, Closed
    <2>3. len = 0 /\ saved \in Nat
      BY <2>1, <2>2, LengthsAssumption DEF Over, Counting, Types, FpgaTypes
    <2> QED BY <2>2, <2>3 DEF Over, Sent
  <1> QED BY <1>1, LinkInvariance, PTL

\* After a start that finds the CPU waiting, irq_handler runs for the header of a
\* frame and for nothing else.
THEOREM AlwaysHeader == Spec => []HeaderInterrupts
  <1>1. ASSUME LinkInv PROVE HeaderInterrupts
    <2> SUFFICES ASSUME InTouch, cpc \in {"header", "ack_header"}
                 PROVE  /\ current_state \in {"SEND_START_2", "SEND_START_3",
                                              "SEND_ING_0", "SEND_ING_1"}
                        /\ data_out = Header /\ clk_out = 1 /\ ack = ack_save
      BY DEF HeaderInterrupts
    <2> USE <1>1 DEF LinkInv, FrameInv, InTouch, Ready
    <2>1. current_state \in OnWire
      BY DEF Between, Types, FpgaTypes, States, OnWire
    <2>2. Sent = 0 /\ (Unseen \/ Seen)
      BY <2>1 DEF Handshake, Unseen, Seen, Answered, Over, Closed
    <2>3. current_state \notin {"SEND_ING_3", "SEND_ING_4", "SEND_END"}
      BY <2>2, LengthsAssumption DEF Sent, OnWire, Counting, Types, FpgaTypes
    <2> QED BY <2>1, <2>2, <2>3 DEF Unseen, Seen, OnWire
  <1> QED BY <1>1, LinkInvariance, PTL

\* After a start that finds the CPU waiting, FPGA2AR9331 is never more than one
\* word ahead of receive_data.
THEOREM AlwaysInStep == Spec => []InStep
  <1>1. ASSUME LinkInv PROVE InStep
    <2> SUFFICES ASSUME InTouch, cpc \in {"poll", "take"},
                        current_state \in {"SEND_ING_0", "SEND_ING_1", "SEND_ING_2",
                                           "SEND_ING_3", "SEND_ING_4"}
                 PROVE  saved - len - Len(data) \in {0, 1}
      BY DEF InStep
    <2>1. Unseen \/ Seen \/ Answered
      BY <1>1 DEF LinkInv, FrameInv, InTouch, Ready, Handshake, OnWire, Over, Closed
    <2>2. Len(data) = Sent \/ Len(data) = Sent - 1
      BY <2>1 DEF Unseen, Seen, Answered
    <2> QED BY <1>1, <2>2, LengthsAssumption
            DEF LinkInv, Sent, Counting, Types, FpgaTypes, HostTypes, CpuTypes
  <1> QED BY <1>1, LinkInvariance, PTL
=============================================================================
