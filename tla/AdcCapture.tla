----------------------------- MODULE AdcCapture -----------------------------
(***************************************************************************)
(* ADC_FIFO_CONTROL: one capture after another into the FIFO, each held    *)
(* until the link has sent it and says `clear'.  The machine runs on the   *)
(* divided clock adc_clk, the link on the fast clock CLK_200M: `isFull',   *)
(* `len' and `clear' cross between the two as plain levels.                *)
(*                                                                         *)
(* A Tick is one edge of CLK_200M, on which everything clocked by it moves *)
(* at once; when adc_clk rises on it the ADC's registers move too.  The    *)
(* FIFO is vendor IP: its word count comes Lag write clocks late, and its  *)
(* reading side sees what was written only after RdSync read clocks.       *)
(***************************************************************************)
EXTENDS Integers, Sequences

CONSTANTS Len0,         \* LEN, words to a capture: 3000
          Depth,        \* words the FIFO holds: 4096
          Lag, RdSync,
          DelayLen,     \* DELAY_LEN, fast clocks for which `clear' stays up: 2000
          Freqs,        \* values the host writes to adc_freq: any 16-bit number
          LaterFreqs,   \* bound: those it writes once one was too slow for `clear',
          SlowWaits,    \* bound: and whether the CPU still takes time to answer then
          IgnoreDelay   \* DELAY of ADC_TRIGGER_I: 100000 clocks of 1 MHz

ASSUME Len0Assumption == Len0 \in Nat /\ Len0 > 3
\* A capture and what the last one left fit.
ASSUME DepthAssumption == Depth \in Nat /\ Depth > Len0 + Lag + 1
\* ADC_FIFO.v gives its two synchronisers a delay pipe of 4 each, and not what that
\* makes the counts late by.  This is what the code's two words more than the counted
\* length, on the one side and on the other, are right for.
ASSUME FifoAssumption == Lag \in 0 .. 1 /\ RdSync \in 0 .. 2 /\ Lag + RdSync >= 1
ASSUME FreqsAssumption == Freqs \subseteq Nat /\ 0 \in Freqs /\ LaterFreqs \subseteq Freqs
ASSUME SlowWaitsAssumption == SlowWaits \in BOOLEAN
ASSUME DelaysAssumption == DelayLen \in Nat \ {0} /\ IgnoreDelay \in Nat
\* `clear' lasts two periods of adc_clk when that is fastest, and is down before the
\* next capture is done.
ASSUME ClearAssumption == DelayLen \in 3 .. 2 * Len0 - 2

VARIABLES
  adc_freq, cnt, adc_clk,                      \* Div_c
  slow,         \* history: adc_freq has been too slow for `clear'
  trigger, trigger_save, counter, is_ingore,   \* ADC_TRIGGER, ADC_TRIGGER_I
  current_state, isW, isFull, len,             \* ADC_FIFO_CONTROL
  \* ADC_FIFO: words of earlier captures and of this one, the counts the
  \* writing side is still to see, and how many words the reading side sees
  old, new, used, visible,
  \* FPGA2AR9331, as far as the FIFO goes
  link, edges, len_in, delay_counter,
  got,          \* what the word just sent was
  first         \* history: nothing has been cleared since power-up

divider == <<adc_freq, cnt, adc_clk, slow>>
ignore  == <<trigger_save, counter, is_ingore>>
control == <<current_state, isW, isFull, len>>
fifo    == <<old, new, used, visible>>
sender  == <<link, edges, len_in, delay_counter, got, first>>
vars    == <<divider, trigger, ignore, control, fifo, sender>>

\* Registers without a reset start at zero; isW starts at one.
Init ==
  /\ adc_freq = 0 /\ cnt = 0 /\ adc_clk = 0 /\ slow = FALSE
  /\ trigger = 0 /\ trigger_save = 0 /\ counter = 0 /\ is_ingore = 0
  /\ current_state = "IDLE" /\ isW = 1 /\ isFull = 0 /\ len = 0
  /\ old = 0 /\ new = 0 /\ visible = 0 /\ used = [i \in 1 .. Lag + 1 |-> 0]
  /\ link = "idle" /\ edges = 0 /\ len_in = 0 /\ delay_counter = 0
  /\ got = "none" /\ first = TRUE

-----------------------------------------------------------------------------
(* The clocks. *)

\* Two periods of adc_clk are longer than `clear' lasts: adc_freq of 500 and more.
TooSlow(f) == 4 * (f + 1) > DelayLen + 1

\* The host may change the frequency at any time.
SetFreq ==
  /\ adc_freq' \in (IF slow THEN LaterFreqs ELSE Freqs) \ {adc_freq}
  /\ slow' = (slow \/ TooSlow(adc_freq'))
  /\ UNCHANGED <<cnt, adc_clk, trigger, ignore, control, fifo, sender>>

Divide ==
  /\ IF cnt >= adc_freq
       THEN adc_clk' = 1 - adc_clk /\ cnt' = 0
       ELSE cnt' = cnt + 1 /\ UNCHANGED adc_clk
  /\ UNCHANGED <<adc_freq, slow>>

Rises == cnt >= adc_freq /\ adc_clk = 0

-----------------------------------------------------------------------------
(* ADC_TRIGGER_I, on a clock of its own: without an edge of the trigger    *)
(* for IgnoreDelay clocks, captures start by themselves.                   *)

MainEdge ==
  /\ IF trigger_save # trigger
       THEN trigger_save' = trigger /\ counter' = 0 /\ is_ingore' = 0
       ELSE /\ UNCHANGED trigger_save
            /\ IF counter >= IgnoreDelay
                 THEN is_ingore' = 1 /\ UNCHANGED counter
                 ELSE is_ingore' = 0 /\ counter' = counter + 1
  /\ UNCHANGED <<divider, trigger, control, fifo, sender>>

-----------------------------------------------------------------------------
(* ADC_FIFO_CONTROL, on a rising adc_clk. *)

clear == link = "wait"
len_cache == used[1]


\* The machine leaves for SAVING: a trigger that was seen low before, or the
\* timeout.
Starts ==
  \/ is_ingore = 1 /\ current_state \in {"IDLE", "WAIT_TRIGGER"}
  \/ trigger = 1 /\ current_state = "WAIT_TRIGGER"

\* Mutant: the capture ends only when the FIFO is full.
Mut_FillsFifo == len_cache >= Depth

\* The capture is as long as it should be, as far as the late count tells.
Saved == len_cache > Len0 - 2

next_state ==
  IF Starts THEN "SAVING"
  ELSE CASE current_state \in {"IDLE", "WAIT_TRIGGER"} ->
              IF trigger = 0 THEN "WAIT_TRIGGER" ELSE current_state
         [] current_state = "SAVING"   -> IF Saved THEN "SAVE_LEN" ELSE "SAVING"
         [] current_state = "SAVE_LEN" -> "SENDING"
         [] current_state = "SENDING"  -> IF clear THEN "IDLE" ELSE "SENDING"

\* Mutant: the full flag goes up with the length, one clock early.
Mut_FullEarly ==
  /\ current_state' = next_state
  /\ isW' = IF current_state = "SAVING" THEN 1 ELSE 0
  /\ isFull' = IF current_state \in {"SAVE_LEN", "SENDING"} THEN 1 ELSE 0
  /\ len' = IF current_state = "SENDING" THEN len_cache ELSE len

Control ==
  /\ current_state' = next_state
  /\ isW' = IF current_state = "SAVING" THEN 1 ELSE 0
  /\ isFull' = IF current_state = "SENDING" THEN 1 ELSE 0
  /\ len' = IF current_state = "SAVE_LEN" THEN len_cache ELSE len

-----------------------------------------------------------------------------
(* The FIFO on a Tick.  A full one takes no word, an empty one gives none. *)

\* Mutant: without the two extra read clocks.
Mut_NoSync == len_in

\* Two read clocks to synchronise the FIFO, and one for each word.
ReadClocks == len_in + 2

\* The link lets r_clk rise: `go', and there are words to fetch yet.
ReadClock(go) == go /\ link = "read" /\ edges < ReadClocks

\* isFull is also the FIFO's read request.
Writes == Rises /\ isW = 1 /\ old + new < Depth
Reads(go) == ReadClock(go) /\ isFull = 1
               /\ (IF edges >= RdSync THEN old + new > 0 ELSE visible > 0)

Written == IF Writes THEN 1 ELSE 0
Popped(go) == IF Reads(go) THEN 1 ELSE 0

Fifo(go) ==
  /\ LET total == old + new + Written - Popped(go) IN
     /\ used' = IF Rises THEN Append(Tail(used), total) ELSE used
     /\ IF Rises /\ Starts
          THEN old' = total /\ new' = 0
          ELSE /\ old' = IF old > 0 THEN old - Popped(go) ELSE 0
               /\ new' = total - old'
     /\ visible' = IF ~ReadClock(go) THEN visible
                   ELSE IF edges >= RdSync THEN total
                   ELSE visible - Popped(go)

-----------------------------------------------------------------------------
(* FPGA2AR9331: the read clocks, each when the CPU lets it go on, the CPU's *)
(* last answer, and then `clear' for DelayLen ticks.                       *)

\* `go' is a read clock, or the CPU's last answer.
Link(go) ==
  \/ /\ ~go /\ link = "idle" /\ isFull = 0
     /\ UNCHANGED sender
  \/ /\ ~go /\ link = "idle" /\ isFull = 1
     /\ link' = "read" /\ edges' = 0 /\ len_in' = len /\ got' = "none"
     /\ delay_counter' = 0
     /\ UNCHANGED first
  \/ /\ ReadClock(go)
     /\ edges' = edges + 1
     /\ got' = IF edges < ReadClocks - len_in THEN "none"
               ELSE IF ~Reads(go) THEN "again"
               ELSE IF old > 0 THEN "old" ELSE "new"
     /\ UNCHANGED <<link, len_in, delay_counter, first>>
  \/ /\ go /\ link = "read" /\ edges = ReadClocks
     /\ link' = "wait"
     /\ UNCHANGED <<edges, len_in, delay_counter, got, first>>
  \/ /\ ~go /\ link = "wait" /\ delay_counter < DelayLen
     /\ delay_counter' = delay_counter + 1
     /\ UNCHANGED <<link, edges, len_in, got, first>>
  \/ /\ ~go /\ link = "wait" /\ delay_counter >= DelayLen
     /\ link' = "idle" /\ edges' = 0 /\ got' = "none" /\ first' = FALSE
     /\ UNCHANGED <<len_in, delay_counter>>
  \/ /\ ~go /\ link = "read" /\ (slow => SlowWaits)
     /\ UNCHANGED sender

\* The sample is any value: above max, below min or between.
Tick(go) ==
  /\ Divide
  /\ Link(go)
  /\ Fifo(go)
  /\ IF Rises
       THEN Control /\ trigger' \in {0, 1}
       ELSE UNCHANGED <<control, trigger>>
  /\ UNCHANGED ignore

Next == SetFreq \/ MainEdge \/ Tick(FALSE) \/ Tick(TRUE)

Spec == Init /\ [][Next]_vars

\* All clocks run, and the CPU answers.
Fairness == WF_vars(MainEdge) /\ WF_vars(Tick(FALSE)) /\ WF_vars(Tick(TRUE))

FairSpec == Spec /\ Fairness

-----------------------------------------------------------------------------
(* Properties.  The first three are for as long as the host has not written an *)
(* adc_freq above 499.  With a slower adc_clk `clear' is over before isFull is  *)
(* down: the link sends the capture again from an empty FIFO, while the next is *)
(* written, or `clear' is not seen at all.                                      *)

\* Every word the link sends was sampled for the capture it is sent with: none
\* is left from the one before, none is a repeated word of an empty FIFO, and no
\* capture is sent twice.  (The very first may start with the word that isW = 1
\* writes at power-up.)
FreshWords == ~slow => got \in {"none", "new"} \/ (first /\ got = "old")

\* What a capture leaves in the FIFO is swallowed by the next one's two extra
\* read clocks: it does not pile up, and the FIFO never refuses a sample.
NoPileUp == ~slow => old <= 2 /\ old + new < Depth

\* The two clocks keep out of each other's way: while the link reads, the ADC
\* holds the capture and its length still.
HeldStill ==
  ~slow /\ link = "read" =>
    /\ current_state = "SENDING" /\ isW = 0 /\ isFull = 1
    /\ len_in = len

=============================================================================
