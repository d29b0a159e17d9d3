------------------------------ MODULE AdcProofs ------------------------------
(***************************************************************************)
(* Proofs about the two halves of ADC.sv, which share no state: AdcCapture *)
(* for captures of every length and any frequencies the host writes, as    *)
(* long as none was too slow for `clear', and every FIFO late by no more   *)
(* than the code allows for; and FrequencyCounter for every gate, width of *)
(* counter and signal.                                                     *)
(***************************************************************************)
EXTENDS AdcCapture, FrequencyCounter, SequenceTheorems, TLAPS

-----------------------------------------------------------------------------
(* The capture machine. *)

\* The words in the FIFO; how many there are when a capture is done, and how many of
\* them may be left when it has been sent.
Held  == old + new
Whole == Len0 + Lag + 1
Spare == Lag + RdSync - 1

\* The counts the machine is still to see: the next, and the one just taken.
Seen    == used[1]
Counted == used[Lag + 1]

\* No half of adc_clk's period is longer than a quarter of the time `clear' lasts.
HalfMax == (DelayLen + 1) \div 4

\* Ticks until adc_clk rises, at most.
ToRise == (IF adc_clk = 0 THEN HalfMax ELSE 2 * HalfMax) - cnt

-----------------------------------------------------------------------------
(* The invariant. *)

DividerType ==
  adc_freq \in 0 .. HalfMax - 1 /\ cnt \in 0 .. HalfMax - 1 /\ adc_clk \in {0, 1}
ControlType ==
  /\ current_state \in {"IDLE", "WAIT_TRIGGER", "SAVING", "SAVE_LEN", "SENDING"}
  /\ isW \in {0, 1} /\ isFull \in {0, 1} /\ len \in Nat
FifoType == /\ old \in Nat /\ new \in Nat /\ visible \in Nat
            /\ used \in Seq(Nat) /\ Len(used) = Lag + 1
SenderType ==
  /\ link \in {"idle", "read", "wait"} /\ first \in BOOLEAN
  /\ edges \in Nat /\ len_in \in Nat /\ delay_counter \in 0 .. DelayLen
Types == DividerType /\ ControlType /\ FifoType /\ SenderType

\* Nothing has been read yet.
PoweredUp == first /\ link = "idle"

\* Between two captures: what the last one left, all of which the reading side sees.
\* After power-up it is the word written by isW = 1, which it does not see.
Leftover == IF PoweredUp THEN Held <= 1 /\ visible = 0
                         ELSE Held <= Spare /\ visible = Held

\* The same once the next capture has begun.
Before == IF PoweredUp THEN old <= 1 /\ visible = 0
                       ELSE old <= Spare /\ visible = old

Resting == current_state \in {"IDLE", "WAIT_TRIGGER"}

\* Waiting for the trigger; isFull goes down one period after the state.
RestInv ==
  Resting =>
    /\ Leftover /\ Counted = Held /\ link # "read"
    /\ isW = 0 \/ (PoweredUp /\ Held = 0)
    /\ isFull = 1 => link = "wait" /\ delay_counter + ToRise <= 4 * HalfMax
    /\ isFull = 0 => Seen <= Held

\* Saving: what the machine sees is Lag words behind.
SaveInv ==
  current_state = "SAVING" =>
    /\ Before /\ Counted = Held /\ link # "read" /\ isFull = 0
    /\ isW = 0 => new = 0
    /\ IF new = 0 THEN Seen <= Held ELSE Seen = Held - Lag /\ Seen <= Len0 - 1

SaveLenInv ==
  current_state = "SAVE_LEN" =>
    /\ Before /\ link # "read" /\ isFull = 0 /\ isW = 1
    /\ Held = Len0 + Lag /\ Seen = Len0

\* During the read clocks: the first RdSync take only what the reading side saw, each
\* later one takes a word.
Reading ==
  /\ edges <= Len0 + 2 /\ Held <= Whole
  /\ edges <= RdSync =>
       /\ visible = 0 \/ visible + edges <= Spare
       /\ Held - visible \in Whole - Spare .. Whole
       /\ IF first THEN visible = 0 /\ old <= 1 ELSE old = visible
  /\ edges >= RdSync =>
       /\ Held + edges - RdSync \in Whole - Spare .. Whole
       /\ old = 0 \/ (first /\ old <= 1 /\ edges = RdSync)
  /\ edges > RdSync => visible = Held

\* The capture is held until the link says `clear'.
SendInv ==
  current_state = "SENDING" =>
    /\ isW = 0 /\ len = Len0
    /\ link = "idle" => Held = Whole /\ Before
    /\ link = "read" => isFull = 1 /\ len_in = Len0 /\ delay_counter = 0 /\ Reading
    /\ link = "wait" =>
         isFull = 1 /\ Leftover /\ delay_counter + ToRise <= 2 * HalfMax

\* While `clear' is up, no more words can have been written than it has had periods.
ClearInv ==
  link = "wait" => 2 * Held + (1 - adc_clk) <= delay_counter + 2 * Spare + 1

\* What the link has just sent.
Fresh == got \in {"none", "new"} \/ (first /\ got = "old")

CaptureInv ==
  Types /\ RestInv /\ SaveInv /\ SaveLenInv /\ SendInv /\ ClearInv /\ Fresh

-----------------------------------------------------------------------------
(* The parts of a tick. *)

\* The two halves of the slowest adc_clk that is not too slow fit twice into the time
\* `clear' lasts, and so do those of the fastest.
LEMMA HalfFacts ==
  /\ HalfMax \in Nat \ {0} /\ 4 * HalfMax <= DelayLen + 1
  /\ \A f \in Nat : ~TooSlow(f) => f \in 0 .. HalfMax - 1
  <1>1. HalfMax \in Nat /\ 4 * HalfMax <= DelayLen + 1
    BY DelaysAssumption DEF HalfMax
  <1>2. ASSUME NEW f \in Nat, ~TooSlow(f)
        PROVE  f \in 0 .. HalfMax - 1
    BY <1>2, DelaysAssumption DEF HalfMax, TooSlow
  <1>3. 0 \in 0 .. HalfMax - 1
    BY <1>2, ClearAssumption, DelaysAssumption DEF TooSlow
  <1> QED BY <1>1, <1>2, <1>3

\* The bounds of the words that may be left over.
LEMMA SpareFacts ==
  /\ Spare \in 0 .. 2 /\ Spare <= RdSync /\ Spare <= Lag + 1
  /\ Whole \in Nat /\ Whole = Len0 + Lag + 1 /\ Spare = Lag + RdSync - 1
  BY FifoAssumption, Len0Assumption DEF Spare, Whole

\* adc_clk rises in time, and no sooner than the second tick after it rose.
LEMMA DividerStep ==
  ASSUME DividerType, Divide
  PROVE  /\ DividerType'
         /\ ToRise \in 1 .. 2 * HalfMax /\ ToRise' \in 1 .. 2 * HalfMax
         /\ ToRise = 1 => Rises
         /\ ~Rises => ToRise' <= ToRise - 1 /\ 1 - adc_clk' <= 1 - adc_clk + 1
         /\ Rises => adc_clk = 0 /\ adc_clk' = 1
  <1>1. adc_freq \in 0 .. HalfMax - 1 /\ HalfMax \in Nat \ {0}
    BY HalfFacts DEF DividerType
  <1> QED BY <1>1 DEF DividerType, Divide, ToRise, Rises

\* The counts go one place on at each rise.
LEMMA UsedStep ==
  ASSUME used \in Seq(Nat), Len(used) = Lag + 1, NEW w \in Nat,
         used' = Append(Tail(used), w)
  PROVE  /\ used' \in Seq(Nat) /\ Len(used') = Lag + 1
         /\ used'[Lag + 1] = w
         /\ Lag = 0 => used'[1] = w
         /\ Lag = 1 => used'[1] = used[2]
  <1> DEFINE s == Tail(used)
  <1>1. used # <<>>
    BY FifoAssumption
  <1>2. s \in Seq(Nat) /\ Len(s) = Lag /\ (Lag = 1 => s[1] = used[2])
    BY <1>1, HeadTailProperties, FifoAssumption
  <1> HIDE DEF s
  <1>3. /\ Append(s, w) \in Seq(Nat) /\ Len(Append(s, w)) = Lag + 1
        /\ Append(s, w)[Lag + 1] = w
        /\ \A i \in 1 .. Lag : Append(s, w)[i] = s[i]
    BY <1>2, AppendProperties
  <1>4. used' = Append(s, w)
    BY DEF s
  <1> QED BY <1>2, <1>3, <1>4, FifoAssumption

\* The counts are numbers.
LEMMA UsedType ==
  ASSUME used \in Seq(Nat), Len(used) = Lag + 1
  PROVE  used[1] \in Nat /\ used[Lag + 1] \in Nat
  BY FifoAssumption, ElementOfSeq

\* No read clock: the link idles, or counts the time of `clear'.
LEMMA QuietLink ==
  ASSUME SenderType, Fresh, NEW go \in BOOLEAN, Link(go),
         link # "read", link = "idle" => isFull = 0
  PROVE  /\ SenderType' /\ Fresh' /\ link' # "read" /\ PoweredUp' = PoweredUp
         /\ ~ReadClock(go) /\ Popped(go) = 0
         /\ link = "idle" => link' = "idle"
         /\ link = "wait" => \/ link' = "wait" /\ delay_counter' = delay_counter + 1
                             \/ link' = "idle" /\ delay_counter = DelayLen
  <1>1. ~ReadClock(go) /\ Popped(go) = 0
    BY DEF ReadClock, Popped, Reads
  <1>2. CASE link = "idle"
    <2>1. UNCHANGED sender
      BY <1>2 DEF Link, ReadClock
    <2> QED BY <1>1, <1>2, <2>1 DEF SenderType, Fresh, PoweredUp, sender
  <1>3. CASE link = "wait" /\ delay_counter < DelayLen
    <2>1. /\ delay_counter' = delay_counter + 1
          /\ UNCHANGED <<link, edges, len_in, got, first>>
      BY <1>3, <1>1, DelaysAssumption DEF Link, SenderType
    <2>2. SenderType'
      BY <1>3, <2>1, DelaysAssumption DEF SenderType
    <2>3. Fresh' /\ PoweredUp' = PoweredUp
      BY <2>1 DEF Fresh, PoweredUp
    <2> QED BY <1>1, <1>3, <2>1, <2>2, <2>3
  <1>4. CASE link = "wait" /\ delay_counter = DelayLen
    <2>1. /\ link' = "idle" /\ edges' = 0 /\ got' = "none" /\ first' = FALSE
          /\ UNCHANGED <<len_in, delay_counter>>
      BY <1>4, DelaysAssumption DEF Link, ReadClock
    <2> QED BY <1>1, <1>4, <2>1 DEF SenderType, Fresh, PoweredUp
  <1> QED BY <1>2, <1>3, <1>4, DelaysAssumption DEF SenderType

\* No read clock: the FIFO takes the word that is written, if any.
LEMMA QuietFifo ==
  ASSUME FifoType, NEW go \in BOOLEAN, Fifo(go), ~ReadClock(go), Popped(go) = 0
  PROVE  /\ FifoType' /\ visible' = visible /\ Held' = Held + Written
         /\ ~Rises => old' = old /\ new' = new /\ used' = used
         /\ Rises => /\ Counted' = Held'
                     /\ Lag = 0 => Seen' = Held'
                     /\ Lag = 1 => Seen' = Counted
                     /\ IF Starts THEN old' = Held' /\ new' = 0
                                  ELSE old' = old /\ new' = new + Written
  <1> DEFINE w == old + new + Written - Popped(go)
  <1>1. Written \in {0, 1} /\ (~Rises => Written = 0)
    BY DEF Written, Writes
  <1>2. w \in Nat /\ w = Held + Written
    BY <1>1 DEF FifoType, Held
  <1>3. /\ used' = IF Rises THEN Append(Tail(used), w) ELSE used
        /\ IF Rises /\ Starts
             THEN old' = w /\ new' = 0
             ELSE /\ old' = IF old > 0 THEN old - Popped(go) ELSE 0
                  /\ new' = w - old'
        /\ visible' = visible
    BY DEF Fifo
  <1> HIDE DEF w
  <1>4. IF Rises /\ Starts THEN old' = w /\ new' = 0
                           ELSE old' = old /\ new' = new + Written
    BY <1>1, <1>2, <1>3 DEF FifoType, Held
  <1>5. old' \in Nat /\ new' \in Nat /\ Held' = w
    BY <1>1, <1>2, <1>4 DEF FifoType, Held
  <1>6. CASE Rises
    <2>1. /\ used' \in Seq(Nat) /\ Len(used') = Lag + 1 /\ used'[Lag + 1] = w
          /\ Lag = 0 => used'[1] = w
          /\ Lag = 1 => used'[1] = used[2]
      BY <1>2, <1>3, <1>6, UsedStep DEF FifoType
    <2>2. Counted' = w /\ (Lag = 0 => Seen' = w)
      BY <2>1 DEF Counted, Seen
    <2>3. Lag = 1 => Seen' = Counted
      BY <2>1 DEF Counted, Seen
    <2> QED BY <1>2, <1>3, <1>4, <1>5, <1>6, <2>1, <2>2, <2>3 DEF FifoType
  <1>7. CASE ~Rises
    BY <1>1, <1>2, <1>3, <1>4, <1>5, <1>7 DEF FifoType
  <1> QED BY <1>6, <1>7

-----------------------------------------------------------------------------
(* Everything starts at zero. *)

\* The clocks, the machine and the link are at rest; only isW is set.
LEMMA InitCapture == Init => CaptureInv
  <1> SUFFICES ASSUME Init PROVE CaptureInv
    OBVIOUS
  <1>1. DividerType
    BY HalfFacts DEF Init, DividerType
  <1>2. ControlType /\ SenderType
    BY DelaysAssumption DEF Init, ControlType, SenderType
  <1>3. used \in Seq(Nat) /\ Len(used) = Lag + 1
    BY FifoAssumption DEF Init
  <1>4. used[1] = 0 /\ used[Lag + 1] = 0
    BY FifoAssumption DEF Init
  <1>5. FifoType
    BY <1>3 DEF Init, FifoType
  <1>6. RestInv
    BY <1>4 DEF Init, RestInv, Resting, Leftover, PoweredUp, Held, Counted, Seen
  <1> QED
    BY <1>1, <1>2, <1>5, <1>6
    DEF Init, CaptureInv, Types, SaveInv, SaveLenInv, SendInv, ClearInv, Fresh

-----------------------------------------------------------------------------
(* The machine's steps. *)

\* What a rise of adc_clk does in each state.
LEMMA ControlStep ==
  ASSUME ControlType, FifoType, Control
  PROVE  /\ ControlType'
         /\ Resting =>
              /\ IF Starts THEN current_state' = "SAVING" ELSE Resting'
              /\ isW' = 0 /\ isFull' = 0
         /\ current_state = "SAVING" =>
              /\ current_state' = IF Seen > Len0 - 2 THEN "SAVE_LEN" ELSE "SAVING"
              /\ isW' = 1 /\ isFull' = 0 /\ ~Starts
         /\ current_state = "SAVE_LEN" =>
              /\ current_state' = "SENDING" /\ isW' = 0 /\ isFull' = 0 /\ len' = Seen
              /\ ~Starts
         /\ current_state = "SENDING" =>
              /\ current_state' = IF link = "wait" THEN "IDLE" ELSE "SENDING"
              /\ isW' = 0 /\ isFull' = 1 /\ len' = len /\ ~Starts
  <1>1. used[1] \in Nat
    BY UsedType DEF FifoType
  <1>2. CASE Resting
    BY <1>1, <1>2
    DEF Resting, Control, next_state, Starts, ControlType, len_cache
  <1>3. CASE current_state = "SAVING"
    BY <1>1, <1>3
    DEF Resting, Control, next_state, Starts, ControlType, Saved, Seen, len_cache
  <1>4. CASE current_state = "SAVE_LEN"
    BY <1>1, <1>4
    DEF Resting, Control, next_state, Starts, ControlType, Seen, len_cache
  <1>5. CASE current_state = "SENDING"
    BY <1>1, <1>5
    DEF Resting, Control, next_state, Starts, ControlType, clear
  <1> QED BY <1>2, <1>3, <1>4, <1>5 DEF ControlType, Resting

\* A tick without a read clock: what every state's step below has in common.
LEMMA QuietTick ==
  ASSUME CaptureInv, NEW go \in BOOLEAN, Tick(go),
         link # "read", link = "idle" => isFull = 0
  PROVE  /\ Types' /\ Fresh' /\ ClearInv' /\ link' # "read"
         /\ PoweredUp' = PoweredUp /\ visible' = visible /\ Held' = Held + Written
         /\ ~Rises => UNCHANGED <<current_state, isW, isFull, len, old, new, used>>
         /\ Rises => /\ Control /\ Counted' = Held'
                     /\ Lag = 0 => Seen' = Held'
                     /\ Lag = 1 => Seen' = Counted
                     /\ IF Starts THEN old' = Held' /\ new' = 0
                                  ELSE old' = old /\ new' = new + Written
         /\ link = "idle" => link' = "idle"
         /\ link = "wait" => \/ link' = "wait" /\ delay_counter' = delay_counter + 1
                             \/ link' = "idle" /\ delay_counter = DelayLen
  <1>1. /\ DividerType /\ ControlType /\ FifoType /\ SenderType
        /\ Fresh /\ ClearInv
    BY DEF CaptureInv, Types
  <1>2. /\ Divide /\ Link(go) /\ Fifo(go)
        /\ IF Rises THEN Control ELSE UNCHANGED control
    BY DEF Tick
  <1>3. /\ SenderType' /\ Fresh' /\ link' # "read" /\ PoweredUp' = PoweredUp
        /\ ~ReadClock(go) /\ Popped(go) = 0
        /\ link = "idle" => link' = "idle"
        /\ link = "wait" => \/ link' = "wait" /\ delay_counter' = delay_counter + 1
                            \/ link' = "idle" /\ delay_counter = DelayLen
    BY <1>1, <1>2, QuietLink
  <1>4. /\ FifoType' /\ visible' = visible /\ Held' = Held + Written
        /\ ~Rises => old' = old /\ new' = new /\ used' = used
        /\ Rises => /\ Counted' = Held'
                    /\ Lag = 0 => Seen' = Held'
                    /\ Lag = 1 => Seen' = Counted
                    /\ IF Starts THEN old' = Held' /\ new' = 0
                                 ELSE old' = old /\ new' = new + Written
    BY <1>1, <1>2, <1>3, QuietFifo
  <1>5. ControlType'
    <2>1. CASE Rises
      BY <1>1, <1>2, <2>1, ControlStep
    <2>2. CASE ~Rises
      BY <1>1, <1>2, <2>2 DEF ControlType, control
    <2> QED BY <2>1, <2>2
  <1>6. DividerType'
    BY <1>1, <1>2, DividerStep
  <1>7. ClearInv'
    <2> SUFFICES ASSUME link' = "wait"
                 PROVE  2 * Held' + (1 - adc_clk') <= delay_counter' + 2 * Spare' + 1
      BY DEF ClearInv
    <2>1. link = "wait" /\ delay_counter' = delay_counter + 1
      BY <1>1, <1>3 DEF SenderType
    <2>2. 2 * Held + (1 - adc_clk) <= delay_counter + 2 * Spare + 1
      BY <1>1, <2>1 DEF ClearInv
    <2>3. /\ Held \in Nat /\ Spare \in Nat /\ Spare' = Spare /\ delay_counter \in Nat
          /\ adc_clk \in {0, 1} /\ adc_clk' \in {0, 1}
      BY <1>1, <1>6, SpareFacts DEF FifoType, Held, SenderType, DividerType, Spare
    <2>4. CASE Rises
      <3>1. adc_clk = 0 /\ adc_clk' = 1 /\ Written \in {0, 1}
        BY <1>1, <1>2, <2>4, DividerStep DEF Written
      <3> QED BY <1>4, <2>1, <2>2, <2>3, <3>1
    <2>5. CASE ~Rises
      <3>1. 1 - adc_clk' <= 1 - adc_clk + 1 /\ Written = 0
        BY <1>1, <1>2, <2>5, DividerStep DEF Written, Writes
      <3>2. Held' = Held
        BY <1>4, <2>3, <3>1
      <3>3. ASSUME NEW c \in {0, 1}, 1 - c <= 1 - adc_clk + 1
            PROVE  2 * Held + (1 - c) <= delay_counter + 1 + 2 * Spare + 1
        BY <2>2, <2>3, <3>3
      <3> QED BY <2>1, <2>3, <3>1, <3>2, <3>3
    <2> QED BY <2>4, <2>5
  <1> QED BY <1>2, <1>3, <1>4, <1>5, <1>6, <1>7 DEF Types, control

\* Between two captures: when isFull goes down `clear' is still up.
LEMMA RestStep ==
  ASSUME CaptureInv, NEW go \in BOOLEAN, Tick(go), Resting
  PROVE  CaptureInv'
  <1>1. /\ Leftover /\ Counted = Held /\ link # "read"
        /\ isW = 0 \/ (PoweredUp /\ Held = 0)
        /\ isFull = 1 => link = "wait" /\ delay_counter + ToRise <= 4 * HalfMax
        /\ isFull = 0 => Seen <= Held
    BY DEF CaptureInv, RestInv
  <1>2. /\ DividerType /\ ControlType /\ FifoType /\ SenderType
        /\ Held \in Nat /\ Divide
    BY DEF CaptureInv, Types, FifoType, Held, Tick
  <1>3. link = "idle" => isFull = 0
    BY <1>1, <1>2 DEF ControlType
  <1>4. /\ Types' /\ Fresh' /\ ClearInv' /\ link' # "read"
        /\ PoweredUp' = PoweredUp /\ visible' = visible /\ Held' = Held + Written
    BY <1>1, <1>3, QuietTick
  <1>5. CASE Rises
    <2>1. /\ Control /\ Counted' = Held'
          /\ Lag = 0 => Seen' = Held'
          /\ Lag = 1 => Seen' = Counted
          /\ IF Starts THEN old' = Held' /\ new' = 0
                       ELSE old' = old /\ new' = new + Written
      BY <1>1, <1>3, <1>5, QuietTick
    <2>2. /\ IF Starts THEN current_state' = "SAVING" ELSE Resting'
          /\ isW' = 0 /\ isFull' = 0
      BY <1>2, <2>1, ControlStep
    <2>3. /\ Written \in {0, 1}
          /\ isW = 0 => Written = 0
      BY DEF Written, Writes
    <2>4. IF PoweredUp' THEN Held' <= 1 /\ visible' = 0
                        ELSE Held' <= Spare /\ visible' = Held'
      BY <1>1, <1>2, <1>4, <2>3 DEF Leftover
    <2>5. Seen' <= Held'
      BY <1>1, <1>2, <1>4, <2>1, <2>3, FifoAssumption
    <2>6. CASE Starts
      <3>1. Before'
        BY <2>1, <2>4, <2>6 DEF Before, Spare
      <3>2. SaveInv'
        BY <1>4, <2>1, <2>2, <2>5, <2>6, <3>1 DEF SaveInv
      <3> QED
        BY <1>4, <2>2, <2>6, <3>2
        DEF CaptureInv, RestInv, Resting, SaveLenInv, SendInv
    <2>7. CASE ~Starts
      <3>1. Resting' /\ Leftover'
        BY <2>2, <2>4, <2>7 DEF Leftover, Spare
      <3>2. RestInv'
        BY <1>4, <2>1, <2>2, <2>5, <3>1 DEF RestInv
      <3> QED
        BY <1>4, <3>1, <3>2 DEF CaptureInv, Resting, SaveInv, SaveLenInv, SendInv
    <2> QED BY <2>6, <2>7
  <1>6. CASE ~Rises
    <2>1. UNCHANGED <<current_state, isW, isFull, len, old, new, used>>
      BY <1>1, <1>3, <1>6, QuietTick
    <2>2. Held' = Held /\ Seen' = Seen /\ Counted' = Counted
      BY <2>1 DEF Held, Seen, Counted
    <2>3. Resting' /\ Leftover'
      BY <1>1, <1>4, <2>1, <2>2 DEF Resting, Leftover, Spare
    <2>4. isFull = 1 => link' = "wait" /\ delay_counter' + ToRise' <= 4 * HalfMax
      <3> SUFFICES ASSUME isFull = 1
                   PROVE  link' = "wait" /\ delay_counter' + ToRise' <= 4 * HalfMax
        OBVIOUS
      <3>1. link = "wait" /\ delay_counter + ToRise <= 4 * HalfMax
        BY <1>1
      <3>2. \/ link' = "wait" /\ delay_counter' = delay_counter + 1
            \/ link' = "idle" /\ delay_counter = DelayLen
        BY <1>1, <1>3, <3>1, QuietTick
      <3>3. /\ ToRise \in Nat \ {0, 1} /\ ToRise' \in Nat
            /\ ToRise' <= ToRise - 1 /\ delay_counter \in Nat
        BY <1>2, <1>6, DividerStep, HalfFacts DEF SenderType
      <3>4. delay_counter # DelayLen
        BY <3>1, <3>3, HalfFacts, DelaysAssumption
      <3> QED BY <3>1, <3>2, <3>3, <3>4, HalfFacts
    <2>5. RestInv'
      BY <1>1, <1>4, <2>1, <2>2, <2>3, <2>4 DEF RestInv, HalfMax
    <2> QED
      BY <1>4, <2>3, <2>5 DEF CaptureInv, Resting, SaveInv, SaveLenInv, SendInv
  <1> QED BY <1>5, <1>6

\* Saving: the machine stops when it sees Len0 - 1 words, and Lag more are there.
LEMMA SaveStep ==
  ASSUME CaptureInv, NEW go \in BOOLEAN, Tick(go), current_state = "SAVING"
  PROVE  CaptureInv'
  <1>1. /\ Before /\ Counted = Held /\ link # "read" /\ isFull = 0
        /\ isW = 0 => new = 0
        /\ IF new = 0 THEN Seen <= Held ELSE Seen = Held - Lag /\ Seen <= Len0 - 1
    BY DEF CaptureInv, SaveInv
  <1>2. /\ ControlType /\ FifoType /\ SenderType
        /\ Held = old + new /\ old \in Nat /\ new \in Nat /\ Seen \in Nat
    BY UsedType DEF CaptureInv, Types, FifoType, Held, Seen
  <1>3. link = "idle" => isFull = 0
    BY <1>1
  <1>4. /\ Types' /\ Fresh' /\ ClearInv' /\ link' # "read"
        /\ PoweredUp' = PoweredUp /\ visible' = visible /\ Held' = Held + Written
    BY <1>1, <1>3, QuietTick
  <1>5. old \in 0 .. 2
    BY <1>1, <1>2, SpareFacts DEF Before
  <1>6. CASE Rises
    <2>1. /\ Control /\ Counted' = Held'
          /\ Lag = 0 => Seen' = Held'
          /\ Lag = 1 => Seen' = Counted
          /\ IF Starts THEN old' = Held' /\ new' = 0
                       ELSE old' = old /\ new' = new + Written
      BY <1>1, <1>3, <1>6, QuietTick
    <2>2. /\ current_state' = IF Seen > Len0 - 2 THEN "SAVE_LEN" ELSE "SAVING"
          /\ isW' = 1 /\ isFull' = 0 /\ ~Starts
      BY <1>2, <2>1, ControlStep
    <2>3. Held < Depth
      BY <1>1, <1>2, <1>5, DepthAssumption, FifoAssumption, Len0Assumption
    <2>4. Written = IF isW = 1 THEN 1 ELSE 0
      BY <1>6, <2>3 DEF Written, Writes, Held
    <2>5. /\ isW = 1 => Held' = Held + 1 /\ new' = new + 1
          /\ isW = 0 => Held' = Held /\ new' = new
      BY <1>2, <1>4, <2>1, <2>2, <2>4
    <2>6. isW \in {0, 1}
      BY <1>2 DEF ControlType
    <2>7. Before'
      BY <1>1, <1>4, <2>1, <2>2 DEF Before, Spare
    <2>8. CASE isW = 0
      <3>1. new = 0 /\ new' = 0 /\ Held' = Held /\ Held \in 0 .. 2
        BY <1>1, <1>2, <1>5, <2>5, <2>8
      <3>2. current_state' = "SAVING"
        BY <1>1, <1>2, <2>2, <3>1, Len0Assumption
      <3>3. Seen' <= Held'
        BY <1>1, <2>1, <3>1, FifoAssumption
      <3>4. SaveInv'
        BY <1>4, <2>1, <2>2, <2>7, <3>1, <3>3 DEF SaveInv
      <3> QED
        BY <1>4, <3>2, <3>4 DEF CaptureInv, RestInv, Resting, SaveLenInv, SendInv
    <2>9. CASE isW = 1
      <3>1. new' # 0 /\ Held' = Held + 1 /\ Seen' = Held' - Lag
        BY <1>1, <1>2, <2>1, <2>5, <2>9, FifoAssumption
      <3>2. CASE Seen > Len0 - 2
        <4>1. new # 0
          BY <1>1, <1>2, <1>5, <3>2, Len0Assumption
        <4>2. Seen = Len0 - 1 /\ Held = Len0 - 1 + Lag
          BY <1>1, <1>2, <3>2, <4>1, Len0Assumption, FifoAssumption
        <4>3. Held' = Len0 + Lag /\ Seen' = Len0
          BY <3>1, <4>2, Len0Assumption, FifoAssumption
        <4>4. SaveLenInv'
          BY <1>4, <2>2, <2>7, <4>3 DEF SaveLenInv
        <4> QED
          BY <1>4, <2>2, <3>2, <4>4 DEF CaptureInv, RestInv, Resting, SaveInv, SendInv
      <3>3. CASE ~(Seen > Len0 - 2)
        <4>1. Seen' <= Len0 - 1
          <5>1. CASE new = 0
            BY <1>2, <1>5, <3>1, <5>1, Len0Assumption, FifoAssumption
          <5>2. CASE new # 0
            BY <1>1, <1>2, <3>1, <3>3, <5>2, Len0Assumption, FifoAssumption
          <5> QED BY <5>1, <5>2
        <4>2. SaveInv'
          BY <1>4, <2>1, <2>2, <2>7, <3>1, <4>1 DEF SaveInv
        <4> QED
          BY <1>4, <2>2, <3>3, <4>2
          DEF CaptureInv, RestInv, Resting, SaveLenInv, SendInv
      <3> QED BY <3>2, <3>3
    <2> QED BY <2>6, <2>8, <2>9
  <1>7. CASE ~Rises
    <2>1. UNCHANGED <<current_state, isW, isFull, len, old, new, used>>
      BY <1>1, <1>3, <1>7, QuietTick
    <2>2. SaveInv'
      BY <1>1, <1>4, <2>1 DEF SaveInv, Before, Held, Seen, Counted, Spare
    <2> QED
      BY <1>4, <2>1, <2>2 DEF CaptureInv, RestInv, Resting, SaveLenInv, SendInv
  <1> QED BY <1>6, <1>7

\* The last word is written; `clear' has been down for long.
LEMMA SaveLenStep ==
  ASSUME CaptureInv, NEW go \in BOOLEAN, Tick(go), current_state = "SAVE_LEN"
  PROVE  CaptureInv'
  <1>1. /\ Before /\ link # "read" /\ isFull = 0 /\ isW = 1
        /\ Held = Len0 + Lag /\ Seen = Len0
    BY DEF CaptureInv, SaveLenInv
  <1>2. /\ ControlType /\ FifoType /\ SenderType
        /\ Held = old + new /\ old \in Nat /\ new \in Nat
    BY DEF CaptureInv, Types, FifoType, Held
  <1>3. link = "idle" => isFull = 0
    BY <1>1
  <1>4. /\ Types' /\ Fresh' /\ ClearInv' /\ link' # "read"
        /\ PoweredUp' = PoweredUp /\ visible' = visible /\ Held' = Held + Written
    BY <1>1, <1>3, QuietTick
  <1>5. CASE Rises
    <2>1. /\ Control
          /\ IF Starts THEN old' = Held' /\ new' = 0
                       ELSE old' = old /\ new' = new + Written
      BY <1>1, <1>3, <1>5, QuietTick
    <2>2. /\ current_state' = "SENDING" /\ isW' = 0 /\ isFull' = 0 /\ len' = Seen
          /\ ~Starts
      BY <1>2, <2>1, ControlStep
    <2>3. Held < Depth
      BY <1>1, DepthAssumption, FifoAssumption, Len0Assumption
    <2>4. Held' = Whole
      <3>1. Written = 1
        BY <1>1, <1>5, <2>3 DEF Written, Writes, Held
      <3> QED BY <1>1, <1>4, <3>1 DEF Whole
    <2>5. Before'
      BY <1>1, <1>4, <2>1, <2>2 DEF Before, Spare
    <2>6. link' # "wait"
      <3> SUFFICES ASSUME link' = "wait" PROVE FALSE
        OBVIOUS
      <3>1. 2 * Held' + (1 - adc_clk') <= delay_counter' + 2 * Spare + 1
        BY <1>4 DEF ClearInv, Spare
      <3>2. delay_counter' \in 0 .. DelayLen /\ adc_clk' \in {0, 1}
        BY <1>4 DEF Types, SenderType, DividerType
      <3>3. DelayLen \in Nat /\ DelayLen + 1 < 2 * Len0
        BY ClearAssumption, DelaysAssumption, Len0Assumption
      <3>4. Whole \in Nat /\ Spare \in Nat /\ Whole >= Len0 + Spare /\ Len0 \in Nat
        BY SpareFacts, Len0Assumption, FifoAssumption
      <3>5. ASSUME NEW d \in 0 .. DelayLen, NEW c \in {0, 1}
            PROVE  ~(2 * Whole + (1 - c) <= d + 2 * Spare + 1)
        BY <3>3, <3>4
      <3> QED BY <2>4, <3>1, <3>2, <3>5
    <2>7. SendInv'
      BY <1>1, <1>4, <2>2, <2>4, <2>5, <2>6 DEF SendInv, Whole
    <2> QED
      BY <1>4, <2>2, <2>7 DEF CaptureInv, RestInv, Resting, SaveInv, SaveLenInv
  <1>6. CASE ~Rises
    <2>1. UNCHANGED <<current_state, isW, isFull, len, old, new, used>>
      BY <1>1, <1>3, <1>6, QuietTick
    <2>2. SaveLenInv'
      BY <1>1, <1>4, <2>1 DEF SaveLenInv, Before, Held, Seen, Spare
    <2> QED
      BY <1>4, <2>1, <2>2 DEF CaptureInv, RestInv, Resting, SaveInv, SendInv
  <1> QED BY <1>5, <1>6

\* The capture is held: for the link to see it, or to say `clear' again.
LEMMA HoldStep ==
  ASSUME CaptureInv, NEW go \in BOOLEAN, Tick(go), current_state = "SENDING",
         link # "read", link = "idle" => isFull = 0
  PROVE  CaptureInv'
  <1>1. /\ isW = 0 /\ len = Len0
        /\ link = "idle" => Held = Whole /\ Before
        /\ link = "wait" =>
             isFull = 1 /\ Leftover /\ delay_counter + ToRise <= 2 * HalfMax
    BY DEF CaptureInv, SendInv
  <1>2. /\ DividerType /\ ControlType /\ FifoType /\ SenderType
        /\ Held \in Nat /\ Divide
    BY DEF CaptureInv, Types, FifoType, Held, Tick
  <1>3. /\ Types' /\ Fresh' /\ ClearInv' /\ link' # "read"
        /\ PoweredUp' = PoweredUp /\ visible' = visible /\ Held' = Held
    <2>1. Written = 0
      BY <1>1 DEF Written, Writes
    <2> QED BY <1>2, <2>1, QuietTick
  <1>4. ToRise \in 1 .. 2 * HalfMax /\ ToRise' \in 1 .. 2 * HalfMax
    BY <1>2, DividerStep
  <1>5. CASE link = "idle"
    <2>1. link' = "idle"
      BY <1>5, QuietTick
    <2>2. Before' /\ Held' = Whole /\ Whole' = Whole
      <3>1. old' = old
        BY <1>5, QuietTick, ControlStep, <1>2
      <3> QED BY <1>1, <1>3, <1>5, <3>1 DEF Before, Spare, Whole
    <2>3. current_state' = "SENDING" /\ isW' = 0 /\ len' = Len0
      <3>1. CASE Rises
        BY <1>1, <1>2, <1>5, <3>1, QuietTick, ControlStep
      <3>2. CASE ~Rises
        BY <1>1, <1>5, <3>2, QuietTick
      <3> QED BY <3>1, <3>2
    <2>4. SendInv'
      BY <2>1, <2>2, <2>3 DEF SendInv
    <2> QED
      BY <1>3, <2>3, <2>4 DEF CaptureInv, RestInv, Resting, SaveInv, SaveLenInv
  <1>6. CASE link = "wait"
    <2>1. /\ isFull = 1 /\ Leftover /\ delay_counter + ToRise <= 2 * HalfMax
          /\ delay_counter \in Nat
      BY <1>1, <1>2, <1>6 DEF SenderType
    <2>2. HalfMax \in Nat \ {0} /\ ToRise \in Nat \ {0}
      BY <1>4, HalfFacts
    <2>3. delay_counter # DelayLen
      BY <1>4, <2>1, HalfFacts, DelaysAssumption
    <2>4. link' = "wait" /\ delay_counter' = delay_counter + 1
      BY <1>6, <2>3, QuietTick
    <2>5. Leftover'
      BY <1>3, <2>1 DEF Leftover, Spare
    <2>6. CASE Rises
      <3>1. Control /\ Counted' = Held'
        BY <1>6, <2>6, QuietTick
      <3>2. current_state' = "IDLE" /\ isW' = 0 /\ isFull' = 1
        BY <1>2, <1>6, <3>1, ControlStep
      <3>3. delay_counter' + ToRise' <= 4 * HalfMax
        <4>1. ASSUME NEW r \in 1 .. 2 * HalfMax
              PROVE  delay_counter + 1 + r <= 4 * HalfMax
          BY <2>1, <2>2
        <4> QED BY <1>4, <2>4, <4>1
      <3>4. RestInv'
        BY <1>3, <2>4, <2>5, <3>1, <3>2, <3>3 DEF RestInv, HalfMax
      <3> QED
        BY <1>3, <3>2, <3>4 DEF CaptureInv, SendInv, SaveInv, SaveLenInv
    <2>7. CASE ~Rises
      <3>1. UNCHANGED <<current_state, isW, isFull, len, old, new, used>>
        BY <1>6, <2>7, QuietTick
      <3>2. delay_counter' + ToRise' <= 2 * HalfMax
        <4>1. ToRise' <= ToRise - 1
          BY <1>2, <2>7, DividerStep
        <4>2. ASSUME NEW r \in 1 .. 2 * HalfMax, r <= ToRise - 1
              PROVE  delay_counter + 1 + r <= 2 * HalfMax
          BY <2>1, <2>2, <4>2
        <4> QED BY <1>4, <2>4, <4>1, <4>2
      <3>3. SendInv'
        BY <1>1, <2>1, <2>4, <2>5, <3>1, <3>2 DEF SendInv, HalfMax
      <3> QED
        BY <1>3, <3>1, <3>3 DEF CaptureInv, RestInv, Resting, SaveInv, SaveLenInv
    <2> QED BY <2>6, <2>7
  <1> QED BY <1>2, <1>5, <1>6 DEF SenderType

\* While the link sees a capture and reads it, the machine does not move.
LEMMA HeldTick ==
  ASSUME CaptureInv, NEW go \in BOOLEAN, Tick(go), current_state = "SENDING",
         link # "wait", isFull = 1
  PROVE  /\ DividerType' /\ ControlType'
         /\ current_state' = "SENDING" /\ isW' = 0 /\ isFull' = 1 /\ len' = Len0
         /\ ~Starts /\ Written = 0
  <1>1. DividerType /\ ControlType /\ FifoType /\ isW = 0 /\ len = Len0
    BY DEF CaptureInv, Types, SendInv
  <1>2. Divide /\ IF Rises THEN Control ELSE UNCHANGED control
    BY DEF Tick
  <1>3. ~Starts /\ Written = 0
    BY <1>1 DEF Starts, Written, Writes
  <1>4. DividerType'
    BY <1>1, <1>2, DividerStep
  <1>5. CASE Rises
    BY <1>1, <1>2, <1>3, <1>4, <1>5, ControlStep
  <1>6. CASE ~Rises
    BY <1>1, <1>2, <1>3, <1>4, <1>6 DEF ControlType, control
  <1> QED BY <1>5, <1>6

\* What the FIFO does when nothing is written and no capture starts.
LEMMA ReadFifo ==
  ASSUME FifoType, SenderType, NEW go \in BOOLEAN, Fifo(go), ~Starts, Written = 0,
         Popped(go) \in 0 .. Held
  PROVE  /\ FifoType'
         /\ Held' = Held - Popped(go)
         /\ old' = IF old > 0 THEN old - Popped(go) ELSE 0
         /\ visible' = IF ~ReadClock(go) THEN visible
                       ELSE IF edges >= RdSync THEN Held'
                       ELSE visible - Popped(go)
  <1> DEFINE w == old + new + Written - Popped(go)
  <1>1. w \in Nat /\ w = Held - Popped(go) /\ Popped(go) \in {0, 1}
    BY DEF FifoType, Held, Popped
  <1>2. /\ used' = IF Rises THEN Append(Tail(used), w) ELSE used
        /\ old' = IF old > 0 THEN old - Popped(go) ELSE 0
        /\ new' = w - old'
        /\ visible' = IF ~ReadClock(go) THEN visible
                      ELSE IF edges >= RdSync THEN w ELSE visible - Popped(go)
    BY DEF Fifo
  <1>3. ReadClock(go) /\ edges < RdSync => visible - Popped(go) \in Nat
    BY FifoAssumption DEF Popped, Reads, FifoType, SenderType
  <1> HIDE DEF w
  <1>4. old' \in Nat /\ old' <= w
    <2>1. old \in Nat /\ new \in Nat /\ w = old + new - Popped(go)
      BY <1>1 DEF FifoType, Held
    <2>2. CASE old = 0
      BY <1>1, <1>2, <2>2
    <2>3. CASE old > 0
      <3>1. old - Popped(go) \in Nat /\ old - Popped(go) <= w
        BY <1>1, <2>1, <2>3
      <3> QED BY <1>2, <2>3, <3>1
    <2> QED BY <2>1, <2>2, <2>3
  <1>5. new' \in Nat /\ Held' = w
    BY <1>1, <1>2, <1>4 DEF Held
  <1>6. used' \in Seq(Nat) /\ Len(used') = Lag + 1
    <2>1. CASE Rises
      BY <1>1, <1>2, <2>1, UsedStep DEF FifoType
    <2>2. CASE ~Rises
      BY <1>2, <2>2 DEF FifoType
    <2> QED BY <2>1, <2>2
  <1>7. visible' \in Nat
    BY <1>1, <1>2, <1>3, FifoAssumption DEF FifoType, ReadClock, SenderType
  <1> QED BY <1>1, <1>2, <1>4, <1>5, <1>6, <1>7 DEF FifoType

\* The link sees the capture: what was left over is all its reading side knows.
LEMMA StartStep ==
  ASSUME CaptureInv, NEW go \in BOOLEAN, Tick(go), current_state = "SENDING",
         link = "idle", isFull = 1
  PROVE  CaptureInv'
  <1>1. /\ FifoType /\ SenderType /\ Held = Whole /\ Before /\ len = Len0
        /\ Link(go) /\ Fifo(go)
    BY DEF CaptureInv, Types, SendInv, Tick
  <1>2. /\ DividerType' /\ ControlType'
        /\ current_state' = "SENDING" /\ isW' = 0 /\ isFull' = 1 /\ len' = Len0
        /\ ~Starts /\ Written = 0
    BY HeldTick
  <1>3. /\ link' = "read" /\ edges' = 0 /\ len_in' = Len0 /\ got' = "none"
        /\ delay_counter' = 0 /\ first' = first
    BY <1>1 DEF Link, ReadClock
  <1>4. ~ReadClock(go) /\ Popped(go) = 0
    BY DEF ReadClock, Popped, Reads
  <1>5. Held \in Nat
    BY <1>1 DEF FifoType, Held
  <1>6. FifoType' /\ Held' = Held /\ old' = old /\ visible' = visible
    BY <1>1, <1>2, <1>4, <1>5, ReadFifo DEF FifoType
  <1>7. SenderType'
    BY <1>1, <1>3, Len0Assumption, DelaysAssumption DEF SenderType
  <1>8. Reading'
    <2>1. /\ visible = 0 \/ visible <= Spare
          /\ visible \in Nat /\ old \in Nat
          /\ IF first THEN visible = 0 /\ old <= 1 ELSE old = visible /\ old <= Spare
      BY <1>1, SpareFacts DEF Before, PoweredUp, FifoType
    <2>2. Held - visible \in Whole - Spare .. Whole /\ Held \in Whole - Spare .. Whole
      BY <1>1, <2>1, SpareFacts
    <2>3. /\ 0 <= RdSync /\ RdSync \in Nat
          /\ 0 >= RdSync => RdSync = 0 /\ Spare = 0
      BY FifoAssumption, SpareFacts
    <2>4. Held' - visible' \in Whole - Spare .. Whole
      BY <1>6, <2>2
    <2>5. visible' = 0 \/ visible' + edges' <= Spare
      BY <1>3, <1>6, <2>1, SpareFacts
    <2>6. IF first' THEN visible' = 0 /\ old' <= 1 ELSE old' = visible'
      BY <1>3, <1>6, <2>1
    <2>7. 0 >= RdSync => /\ Held' + edges' - RdSync \in Whole - Spare .. Whole
                         /\ old' = 0 \/ (first' /\ old' <= 1 /\ edges' = RdSync)
      BY <1>3, <1>5, <1>6, <2>1, <2>2, <2>3
    <2>8. Held' <= Whole
      BY <1>1, <1>6, SpareFacts
    <2> QED
      BY <1>3, <2>3, <2>4, <2>5, <2>6, <2>7, <2>8, Len0Assumption
      DEF Reading, Whole, Spare
  <1> QED
    BY <1>2, <1>3, <1>6, <1>7, <1>8
    DEF CaptureInv, Types, RestInv, Resting, SaveInv, SaveLenInv, SendInv, ClearInv,
        Fresh

\* A read clock takes the word there must be, and the last of an earlier capture
\* before the words of this one count.
LEMMA FetchStep ==
  ASSUME CaptureInv, NEW go \in BOOLEAN, Tick(go), link = "read", ReadClock(go),
         Reading, FifoType, SenderType, Fifo(go), Link(go), ~Starts, Written = 0,
         isFull = 1, len_in = Len0
  PROVE  /\ FifoType' /\ SenderType' /\ Reading' /\ Fresh'
         /\ link' = "read" /\ len_in' = len_in /\ delay_counter' = delay_counter
  <1>1. /\ edges < Len0 + 2 /\ edges \in Nat /\ old \in Nat /\ visible \in Nat
        /\ Held \in Nat /\ old <= Held /\ Len0 \in Nat /\ RdSync \in 0 .. 2
        /\ Held = old + new
    BY Len0Assumption, FifoAssumption
    DEF ReadClock, ReadClocks, FifoType, SenderType, Held
  <1>2. /\ go /\ edges' = edges + 1 /\ UNCHANGED <<link, len_in, delay_counter, first>>
        /\ got' = IF edges < 2 THEN "none"
                  ELSE IF ~Reads(go) THEN "again"
                  ELSE IF old > 0 THEN "old" ELSE "new"
    <2>1. go /\ edges < ReadClocks /\ ReadClocks - len_in = 2
      BY <1>1 DEF ReadClock, ReadClocks
    <2>2. edges # ReadClocks
      BY <1>1, <2>1 DEF ReadClocks
    <2> QED BY <2>1, <2>2 DEF Link
  <1>3. SenderType'
    BY <1>1, <1>2 DEF SenderType
  <1>4. CASE edges < RdSync
    <2>1. /\ visible = 0 \/ visible + edges <= Spare
          /\ Held - visible \in Whole - Spare .. Whole
          /\ IF first THEN visible = 0 /\ old <= 1 ELSE old = visible
          /\ visible <= Held
      BY <1>1, <1>4, SpareFacts DEF Reading
    <2>2. Popped(go) = IF visible > 0 THEN 1 ELSE 0
      BY <1>1, <1>4 DEF Popped, Reads
    <2> DEFINE p == Popped(go)
    <2>3. p \in 0 .. Held /\ (p = 1 => visible > 0) /\ (p = 0 => visible = 0)
          /\ p \in {0, 1}
      BY <1>1, <2>1, <2>2
    <2> HIDE DEF p
    <2>4. /\ FifoType' /\ Held' = Held - p /\ visible' = visible - p
          /\ old' = IF old > 0 THEN old - p ELSE 0
      BY <1>1, <1>4, <2>3, ReadFifo DEF p
    <2>5. /\ visible - p = 0 \/ (visible - p) + (edges + 1) <= Spare
          /\ (Held - p) - (visible - p) \in Whole - Spare .. Whole
      BY <1>1, <2>1, <2>3, SpareFacts
    <2>6. IF first THEN visible' = 0 /\ old' <= 1 ELSE old' = visible'
      BY <1>1, <2>1, <2>3, <2>4
    <2>7. edges + 1 >= RdSync => edges + 1 = RdSync /\ visible - p = 0
      BY <1>1, <1>4, <2>1, <2>3, <2>5, SpareFacts
    <2>8. edges' >= RdSync =>
            /\ Held' + edges' - RdSync \in Whole - Spare .. Whole
            /\ old' = 0 \/ (first' /\ old' <= 1 /\ edges' = RdSync)
      <3> SUFFICES ASSUME edges + 1 >= RdSync
                   PROVE  /\ Held' + (edges + 1) - RdSync \in Whole - Spare .. Whole
                          /\ old' = 0 \/ (first' /\ old' <= 1 /\ edges + 1 = RdSync)
        BY <1>2
      <3>1. edges + 1 = RdSync /\ visible' = 0 /\ visible = p
        BY <1>1, <2>3, <2>4, <2>7
      <3>2. Held' = Held - visible
        BY <2>4, <3>1
      <3>3. Held - visible + (edges + 1) - RdSync \in Whole - Spare .. Whole
        BY <1>1, <2>1, <3>1, SpareFacts
      <3>4. Held' + (edges + 1) - RdSync = Held - visible + (edges + 1) - RdSync
        BY <3>2
      <3> QED BY <1>2, <2>6, <3>1, <3>3, <3>4
    <2>9. edges' <= Len0 + 2 /\ ~(edges' > RdSync) /\ Held' <= Whole
      <3>1. Held <= Whole /\ Held - p <= Whole
        BY <1>1, <2>3, SpareFacts DEF Reading
      <3> QED BY <1>1, <1>2, <1>4, <2>4, <3>1
    <2>10. /\ visible' = 0 \/ visible' + edges' <= Spare
           /\ Held' - visible' \in Whole - Spare .. Whole
      BY <1>2, <2>4, <2>5
    <2>11. Reading'
      BY <1>2, <2>6, <2>8, <2>9, <2>10 DEF Reading, Whole, Spare
    <2>12. got' = "none"
      <3>1. edges < 2
        BY <1>1, <1>4
      <3> QED BY <1>2, <3>1
    <2>13. Fresh'
      BY <2>12 DEF Fresh
    <2> QED BY <1>2, <1>3, <2>4, <2>11, <2>13
  <1>5. CASE edges >= RdSync
    <2>1. /\ Held + edges - RdSync \in Whole - Spare .. Whole
          /\ old = 0 \/ (first /\ old <= 1 /\ edges = RdSync)
      BY <1>5, SMT DEF Reading
    <2>2. Held > 0
      <3>1. Held + edges - RdSync >= Whole - Spare
        BY <1>1, <2>1, SpareFacts
      <3>2. Whole - Spare = Len0 + 2 - RdSync
        BY <1>1, SpareFacts, FifoAssumption
      <3> QED BY <1>1, <3>1, <3>2
    <2>3. Reads(go) /\ Popped(go) = 1
      BY <1>1, <1>5, <2>2 DEF Popped, Reads, Held
    <2>4. /\ FifoType' /\ Held' = Held - 1 /\ visible' = Held'
          /\ old' = IF old > 0 THEN old - 1 ELSE 0
      BY <1>1, <1>5, <2>2, <2>3, ReadFifo
    <2>5. old' = 0
      BY <1>1, <2>1, <2>4
    <2>6. Held' + edges' - RdSync \in Whole - Spare .. Whole
      <3>1. (Held - 1) + (edges + 1) - RdSync = Held + edges - RdSync
        BY <1>1
      <3> QED BY <1>2, <2>1, <2>4, <3>1
    <2>7. edges' <= Len0 + 2 /\ ~(edges' <= RdSync) /\ Held' <= Whole
      <3>1. Held <= Whole /\ Held - 1 <= Whole
        BY <1>1, SpareFacts DEF Reading
      <3> QED BY <1>1, <1>2, <1>5, <2>4, <3>1
    <2>8. Reading'
      BY <2>4, <2>5, <2>6, <2>7 DEF Reading, Whole, Spare
    <2>9. Fresh'
      BY <1>1, <1>2, <2>1, <2>3 DEF Fresh
    <2> QED BY <1>2, <1>3, <2>4, <2>8, <2>9
  <1> QED BY <1>1, <1>4, <1>5

\* Reading: a read clock, none, or the CPU's last answer.
LEMMA ReadStep ==
  ASSUME CaptureInv, NEW go \in BOOLEAN, Tick(go), current_state = "SENDING",
         link = "read"
  PROVE  CaptureInv'
  <1>1. /\ DividerType /\ FifoType /\ SenderType /\ Fresh /\ Link(go) /\ Fifo(go)
        /\ Divide /\ isFull = 1 /\ len_in = Len0 /\ delay_counter = 0 /\ Reading
        /\ Held \in Nat
    BY DEF CaptureInv, Types, SendInv, Tick, FifoType, Held
  <1>2. /\ DividerType' /\ ControlType'
        /\ current_state' = "SENDING" /\ isW' = 0 /\ isFull' = 1 /\ len' = Len0
        /\ ~Starts /\ Written = 0
    BY <1>1, HeldTick
  <1>3. ASSUME link' = "read", len_in' = Len0, delay_counter' = 0,
               FifoType', SenderType', Reading', Fresh'
        PROVE  CaptureInv'
    BY <1>2, <1>3
    DEF CaptureInv, Types, RestInv, Resting, SaveInv, SaveLenInv, SendInv, ClearInv
  <1>4. CASE ReadClock(go)
    BY <1>1, <1>2, <1>3, <1>4, FetchStep
  <1>5. CASE ~ReadClock(go)
    <2>1. Popped(go) = 0
      BY <1>5 DEF Popped, Reads
    <2>2. FifoType' /\ Held' = Held /\ old' = old /\ visible' = visible
      BY <1>1, <1>2, <1>5, <2>1, ReadFifo DEF FifoType
    <2>3. CASE ~go
      <3>1. UNCHANGED sender
        BY <1>1, <2>3 DEF Link, ReadClock
      <3>2. SenderType' /\ Fresh'
        BY <1>1, <3>1 DEF SenderType, Fresh, sender
      <3>3. Reading'
        BY <1>1, <2>2, <3>1 DEF Reading, Whole, Spare, sender
      <3> QED BY <1>1, <1>3, <2>2, <3>1, <3>2, <3>3 DEF sender
    <2>4. CASE go
      <3>1. edges = Len0 + 2
        BY <1>1, <1>5, <2>4, Len0Assumption
        DEF ReadClock, ReadClocks, Reading, SenderType
      <3>2. link' = "wait" /\ UNCHANGED <<edges, len_in, delay_counter, got, first>>
        BY <1>1, <1>5, <2>4 DEF Link
      <3>3. SenderType' /\ Fresh'
        BY <1>1, <3>2 DEF SenderType, Fresh
      <3>4. Held <= Spare /\ visible = Held
        BY <1>1, <3>1, SpareFacts, FifoAssumption, Len0Assumption DEF Reading
      <3>5. Leftover'
        BY <2>2, <3>2, <3>4 DEF Leftover, PoweredUp, Spare
      <3>6. delay_counter' + ToRise' <= 2 * HalfMax
        <4>1. ToRise' \in 1 .. 2 * HalfMax
          BY <1>1, DividerStep
        <4>2. ASSUME NEW r \in 1 .. 2 * HalfMax PROVE 0 + r <= 2 * HalfMax
          BY HalfFacts
        <4> QED BY <1>1, <3>2, <4>1, <4>2
      <3>7. 2 * Held' + (1 - adc_clk') <= delay_counter' + 2 * Spare + 1
        <4>1. ASSUME NEW c \in {0, 1} PROVE 2 * Held + (1 - c) <= 0 + 2 * Spare + 1
          BY <1>1, <3>4, SpareFacts
        <4> QED BY <1>1, <1>2, <2>2, <3>2, <4>1 DEF DividerType
      <3> QED
        BY <1>2, <2>2, <3>2, <3>3, <3>5, <3>6, <3>7
        DEF CaptureInv, Types, RestInv, Resting, SaveInv, SaveLenInv, SendInv,
            ClearInv, Spare, HalfMax
    <2> QED BY <2>3, <2>4
  <1> QED BY <1>4, <1>5

-----------------------------------------------------------------------------
(* The theorems. *)

\* A clock that has been too slow is remembered.
LEMMA SlowStays ==
  ASSUME [Next]_vars, ~slow'
  PROVE  ~slow
  <1>1. CASE SetFreq
    BY <1>1 DEF SetFreq
  <1>2. CASE MainEdge \/ Tick(FALSE) \/ Tick(TRUE) \/ UNCHANGED vars
    BY <1>2 DEF MainEdge, Tick, Divide, divider, vars
  <1> QED BY <1>1, <1>2 DEF Next

\* CaptureInv is inductive while no clock has been too slow.
LEMMA CaptureStep ==
  ASSUME CaptureInv, [Next]_vars, ~slow'
  PROVE  CaptureInv'
  <1>1. ASSUME NEW go \in BOOLEAN, Tick(go)
        PROVE  CaptureInv'
    <2>1. \/ Resting \/ current_state \in {"SAVING", "SAVE_LEN", "SENDING"}
      BY DEF CaptureInv, Types, ControlType, Resting
    <2>2. link \in {"idle", "read", "wait"} /\ isFull \in {0, 1}
      BY DEF CaptureInv, Types, SenderType, ControlType
    <2>3. CASE current_state = "SENDING"
      BY <1>1, <2>2, <2>3, HoldStep, StartStep, ReadStep
    <2> QED BY <1>1, <2>1, <2>3, RestStep, SaveStep, SaveLenStep
  <1>2. CASE SetFreq
    <2>1. UNCHANGED <<cnt, adc_clk, control, fifo, sender>>
          /\ adc_freq' \in Nat /\ ~TooSlow(adc_freq')
      BY <1>2, FreqsAssumption DEF SetFreq
    <2>2. DividerType'
      BY <2>1, HalfFacts DEF CaptureInv, Types, DividerType
    <2> QED
      BY <2>1, <2>2
      DEF control, fifo, sender, CaptureInv, Types, ControlType, FifoType, SenderType,
          RestInv, Resting, SaveInv, SaveLenInv, SendInv, ClearInv, Fresh,
          Leftover, Before, PoweredUp, Reading, Held, Seen, Counted, ToRise
  <1>3. CASE MainEdge \/ UNCHANGED vars
    <2>1. UNCHANGED <<divider, control, fifo, sender>>
      BY <1>3 DEF MainEdge, vars
    <2> QED
      BY <2>1
      DEF divider, control, fifo, sender, CaptureInv, Types, DividerType, ControlType,
          FifoType, SenderType, RestInv, Resting, SaveInv, SaveLenInv, SendInv,
          ClearInv, Fresh, Leftover, Before, PoweredUp, Reading, Held, Seen,
          Counted, ToRise
  <1> QED BY <1>1, <1>2, <1>3 DEF Next

\* Where the machine, the FIFO and the link are, in every state before the host has
\* written an adc_freq that is too slow.
THEOREM CaptureInvariance == Spec => [](~slow => CaptureInv)
  <1>1. Init => (~slow => CaptureInv)
    BY InitCapture
  <1>2. (~slow => CaptureInv) /\ [Next]_vars => (~slow => CaptureInv)'
    BY SlowStays, CaptureStep
  <1> QED BY <1>1, <1>2, PTL DEF Spec

\* Captures of any length, and any frequencies, as long as none was too slow for
\* `clear' (an adc_freq above 499): every word sent belongs to the capture it is sent
\* with, and none is sent twice.
THEOREM AlwaysFresh == Spec => []FreshWords
  <1>1. (~slow => CaptureInv) => FreshWords
    BY DEF CaptureInv, Fresh, FreshWords
  <1> QED BY <1>1, CaptureInvariance, PTL

\* Captures of any length, and any frequencies, as long as none was too slow: while
\* the link reads, the machine holds still.
THEOREM AlwaysHeldStill == Spec => []HeldStill
  <1>1. (~slow => CaptureInv) => HeldStill
    BY DEF CaptureInv, Types, ControlType, RestInv, Resting, SaveInv, SaveLenInv,
           SendInv, HeldStill
  <1> QED BY <1>1, CaptureInvariance, PTL

\* Captures of any length, and any frequencies, as long as none was too slow: at most
\* two words are left over, and the FIFO is never full.
THEOREM NeverPilesUp == Spec => []NoPileUp
  <1>1. (~slow => CaptureInv) => NoPileUp
    <2> SUFFICES ASSUME CaptureInv PROVE old <= 2 /\ old + new < Depth
      BY DEF NoPileUp
    <2>1. /\ old \in Nat /\ new \in Nat /\ visible \in Nat /\ edges \in Nat
          /\ Held = old + new /\ used[1] \in Nat
          /\ link \in {"idle", "read", "wait"}
          /\ Resting \/ current_state \in {"SAVING", "SAVE_LEN", "SENDING"}
      BY UsedType
      DEF CaptureInv, Types, FifoType, SenderType, ControlType, Resting, Held
    <2>2. Whole \in Nat /\ Whole < Depth /\ Depth \in Nat /\ Lag \in 0 .. 1
          /\ Whole >= 4
          /\ Whole = Len0 + Lag + 1 /\ Len0 \in Nat /\ RdSync \in 0 .. 2
      BY SpareFacts, DepthAssumption, FifoAssumption, Len0Assumption
    <2> SUFFICES old <= 2 /\ Held <= Whole
      BY <2>1, <2>2
    <2>3. CASE Resting
      BY <2>1, <2>2, <2>3, SpareFacts DEF CaptureInv, RestInv, Leftover
    <2>4. CASE current_state = "SAVING"
      <3>1. old <= 2
        BY <2>1, <2>4, SpareFacts DEF CaptureInv, SaveInv, Before
      <3>2. IF new = 0 THEN Seen <= Held ELSE Seen = Held - Lag /\ Seen <= Len0 - 1
        BY <2>4 DEF CaptureInv, SaveInv
      <3> QED BY <2>1, <2>2, <3>1, <3>2 DEF Seen
    <2>5. CASE current_state = "SAVE_LEN"
      BY <2>1, <2>2, <2>5, SpareFacts DEF CaptureInv, SaveLenInv, Before
    <2>6. CASE current_state = "SENDING" /\ link = "idle"
      BY <2>1, <2>2, <2>6, SpareFacts DEF CaptureInv, SendInv, Before
    <2>7. CASE current_state = "SENDING" /\ link = "wait"
      BY <2>1, <2>2, <2>7, SpareFacts DEF CaptureInv, SendInv, Leftover, PoweredUp
    <2>8. CASE current_state = "SENDING" /\ link = "read"
      <3>1. Reading
        BY <2>8 DEF CaptureInv, SendInv
      <3>2. CASE edges <= RdSync
        <4>1. /\ visible = 0 \/ visible + edges <= Spare
              /\ Held - visible \in Whole - Spare .. Whole
              /\ IF first THEN visible = 0 /\ old <= 1 ELSE old = visible
          BY <3>1, <3>2 DEF Reading
        <4>2. Held <= Whole
          BY <3>1 DEF Reading
        <4> QED BY <2>1, <2>2, <4>1, <4>2, SpareFacts
      <3>3. CASE edges > RdSync
        <4>1. /\ Held + edges - RdSync \in Whole - Spare .. Whole
              /\ old = 0 \/ old <= 1
          BY <2>1, <2>2, <3>1, <3>3 DEF Reading
        <4> QED BY <2>1, <2>2, <3>3, <4>1, SpareFacts
      <3> QED BY <2>1, <2>2, <3>2, <3>3
    <2> QED BY <2>1, <2>3, <2>4, <2>5, <2>6, <2>7, <2>8
  <1> QED BY <1>1, CaptureInvariance, PTL

-----------------------------------------------------------------------------
(* The frequency counter. *)

CounterType ==
  /\ base \in 0 .. TB /\ test \in Nat
  /\ clk_en \in BOOLEAN /\ isCount \in BOOLEAN
  /\ base_count_hide \in 0 .. Limit - 1 /\ test_count_hide \in 0 .. Limit - 1
  /\ base_count \in 0 .. Limit - 1 /\ test_count \in 0 .. Limit - 1
  /\ elapsed \in Nat /\ testEdges \in Nat

\* Outside the window the counter of the base clock is zero by the time the gate
\* opens, because the gate opens with an edge of that clock.
Cleared == ~isCount /\ clk_en => base_count_hide = 0

\* Inside, the time counted and the time elapsed since the window opened differ by
\* what the base clock has run ahead since its last edge, less what it had then.
Behind == base - (base_count_hide * TB - elapsed)
TimeCounted == isCount /\ elapsed < TB * (Limit - 1) => Behind \in 0 .. TB

EdgesCounted == isCount /\ testEdges < Limit => test_count_hide = testEdges

CountInv == CounterType /\ Cleared /\ TimeCounted /\ EdgesCounted

\* Products of natural numbers.
LEMMA Product ==
  ASSUME NEW a \in Nat, NEW b \in Nat
  PROVE  a * b \in Nat /\ (a + 1) * b = a * b + b
  OBVIOUS

\* A product that is smaller has the smaller factor.
LEMMA Factor ==
  ASSUME NEW a \in Nat, NEW b \in Nat, NEW c \in Nat \ {0}, a * c < c * b
  PROVE  a < b
  <1> SUFFICES ASSUME a >= b PROVE FALSE
    OBVIOUS
  <1>1. a - b \in Nat /\ (a - b) * c \in Nat
    BY Product
  <1>2. a * c = b * c + (a - b) * c /\ c * b = b * c
    OBVIOUS
  <1> QED BY <1>1, <1>2, Product

\* Counting modulo Limit.
LEMMA Counting ==
  ASSUME NEW n \in 0 .. Limit - 1
  PROVE  /\ (n + 1) % Limit \in 0 .. Limit - 1
         /\ n + 1 < Limit => (n + 1) % Limit = n + 1
  BY LimitAssumption

\* Nothing is counted at first.
LEMMA CountInit == FreqInit => CountInv
  <1> SUFFICES ASSUME FreqInit PROVE CountInv
    OBVIOUS
  <1> USE DEF FreqInit
  <1>1. base \in 0 .. TB /\ test \in Nat /\ 0 \in 0 .. Limit - 1
    BY TbAssumption, LimitAssumption
  <1>2. CounterType
    BY <1>1 DEF CounterType
  <1> QED BY <1>2 DEF CountInv, Cleared, TimeCounted, EdgesCounted

\* A tick of time passes on both sides.
LEMMA TickStep ==
  ASSUME CountInv, FreqTick
  PROVE  CountInv'
  <1> USE DEF FreqTick, CountInv, gate, window, saved
  <1>1. TB \in Nat /\ TB > 0 /\ Limit \in Nat /\ Limit > 0
    BY TbAssumption, LimitAssumption
  <1> DEFINE B == TB * Limit
             C == TB * (Limit - 1)
             X == base_count_hide * TB
  <1>2. B \in Nat /\ C \in Nat /\ C < B /\ X \in Int
    <2>1. Limit - 1 \in Nat /\ B = C + TB
      BY <1>1
    <2> QED BY <1>1, <2>1, Product DEF CounterType
  <1>3. elapsed' = IF isCount THEN (IF elapsed + 1 < B THEN elapsed + 1 ELSE B)
                              ELSE elapsed
    BY DEF Upto
  <1>4. CounterType'
    <2>1. base' \in 0 .. TB /\ test' \in Nat /\ elapsed' \in Nat
      <3> HIDE DEF B
      <3> QED BY <1>1, <1>2, <1>3 DEF CounterType
    <2> QED BY <2>1 DEF CounterType
  <1>5. Cleared' /\ EdgesCounted'
    BY DEF Cleared, EdgesCounted
  <1>6. TimeCounted'
    <2> SUFFICES ASSUME isCount, elapsed' < C PROVE Behind' \in 0 .. TB
      BY DEF TimeCounted
    <2>1. elapsed' = elapsed + 1 /\ elapsed < C
      BY <1>2, <1>3 DEF CounterType
    <2>2. Behind \in 0 .. TB /\ Behind = base - (X - elapsed)
      BY <2>1 DEF TimeCounted, Behind
    <2>3. Behind' = (base - 1) - (X - (elapsed + 1))
      BY <2>1 DEF Behind
    <2> HIDE DEF X
    <2> QED BY <1>1, <1>2, <2>2, <2>3 DEF CounterType
  <1> QED BY <1>4, <1>5, <1>6

\* An edge of main_clk is counted inside the window and clears the counter outside;
\* the gate opens with an edge at which it is cleared.
LEMMA BaseStep ==
  ASSUME CountInv, BaseEdge
  PROVE  CountInv'
  <1> USE DEF BaseEdge, CountInv, saved, past
  <1>1. TB \in Nat \ {0} /\ Limit \in Nat \ {0}
    BY TbAssumption, LimitAssumption
  <1>2. base_count_hide' = IF isCount THEN (base_count_hide + 1) % Limit ELSE 0
    BY DEF CountBase
  <1>3. base_count_hide' \in 0 .. Limit - 1
    BY <1>1, <1>2, Counting DEF CounterType
  <1>4. CounterType'
    <2>1. clk_en' \in BOOLEAN
      BY DEF Div, CounterType
    <2>2. base' \in 0 .. TB
      BY <1>1
    <2> QED BY <1>3, <2>1, <2>2 DEF CounterType
  <1>5. Cleared' /\ EdgesCounted'
    BY <1>2 DEF Cleared, EdgesCounted
  <1>6. TimeCounted'
    <2> SUFFICES ASSUME isCount, elapsed < TB * (Limit - 1) PROVE Behind' \in 0 .. TB
      BY DEF TimeCounted
    <2> DEFINE n == base_count_hide
    <2>1. n \in Nat /\ elapsed \in Nat /\ n \in 0 .. Limit - 1 /\ Limit - 1 \in Nat
      BY <1>1 DEF CounterType
    <2>2. n * TB \in Nat /\ (n + 1) * TB = n * TB + TB
      BY <1>1, <2>1, Product
    <2>3. Behind = 0 - (n * TB - elapsed) /\ Behind \in 0 .. TB
      BY DEF TimeCounted, Behind
    <2>4. n * TB <= elapsed
      BY <2>1, <2>2, <2>3
    <2>5. n * TB < TB * (Limit - 1)
      <3>1. TB * (Limit - 1) \in Nat
        BY <1>1, <2>1, Product
      <3> QED BY <2>1, <2>2, <2>4, <3>1
    <2>6. n < Limit - 1
      BY <1>1, <2>1, <2>5, Factor
    <2>7. n' = n + 1
      <3>1. n + 1 < Limit
        BY <1>1, <2>1, <2>6
      <3>2. (n + 1) % Limit = n + 1
        BY <2>1, <3>1, Counting
      <3> QED BY <1>2, <3>2
    <2>8. Behind' = TB - ((n + 1) * TB - elapsed)
      BY <2>7 DEF Behind
    <2> HIDE DEF n
    <2> QED BY <1>1, <2>1, <2>2, <2>3, <2>8
  <1> QED BY <1>4, <1>5, <1>6

\* An edge of the test signal opens the window, counts in it, or closes it.
LEMMA TestStep ==
  ASSUME CountInv, TestEdge
  PROVE  CountInv'
  <1> USE DEF TestEdge, CountInv, gate, saved
  <1>1. TB \in Nat \ {0} /\ Limit \in Nat \ {0}
    BY TbAssumption, LimitAssumption
  <1>2. test_count_hide' = IF isCount THEN (test_count_hide + 1) % Limit ELSE 0
    BY DEF CountTest
  <1>3. testEdges' = IF isCount /\ clk_en
                   THEN (IF testEdges + 1 < Limit THEN testEdges + 1 ELSE Limit) ELSE 0
    BY DEF Upto
  <1>4. CounterType'
    <2>1. test_count_hide' \in 0 .. Limit - 1
      BY <1>1, <1>2, Counting DEF CounterType
    <2>2. base_count' \in 0 .. Limit - 1 /\ test_count' \in 0 .. Limit - 1
      BY <2>1 DEF Save, CounterType
    <2>3. elapsed' \in Nat /\ testEdges' \in Nat /\ test' \in Nat
      BY <1>1, <1>3, PeriodsAssumption DEF CounterType
    <2> QED BY <2>1, <2>2, <2>3 DEF CounterType
  <1>5. Cleared'
    BY DEF Cleared
  <1>6. TimeCounted'
    <2> SUFFICES ASSUME clk_en, elapsed' < TB * (Limit - 1) PROVE Behind' \in 0 .. TB
      BY DEF TimeCounted
    <2>1. CASE isCount
      BY <2>1 DEF TimeCounted, Behind
    <2>2. CASE ~isCount
      <3>1. base_count_hide' = 0 /\ elapsed' = 0 /\ base' = base
        BY <2>2 DEF Cleared
      <3>2. Behind' = base - (0 * TB - 0)
        BY <3>1 DEF Behind
      <3> QED BY <1>1, <3>2 DEF CounterType
    <2> QED BY <2>1, <2>2
  <1>7. EdgesCounted'
    <2> SUFFICES ASSUME clk_en, testEdges' < Limit PROVE test_count_hide' = testEdges'
      BY DEF EdgesCounted
    <2>1. CASE isCount
      <3>1. testEdges' = testEdges + 1 /\ testEdges + 1 < Limit /\ testEdges \in Nat
        BY <1>1, <1>3, <2>1 DEF CounterType
      <3>2. test_count_hide = testEdges
        BY <1>1, <2>1, <3>1 DEF EdgesCounted
      <3> QED BY <1>2, <2>1, <3>1, <3>2, Counting DEF CounterType
    <2>2. CASE ~isCount
      BY <1>2, <1>3, <2>2
    <2> QED BY <2>1, <2>2
  <1> QED BY <1>4, <1>5, <1>6, <1>7

\* Time, the base clock and the test signal keep the invariant.
LEMMA CountStep == CountInv /\ [FreqNext]_freqVars => CountInv'
  <1> SUFFICES ASSUME CountInv, [FreqNext]_freqVars PROVE CountInv'
    OBVIOUS
  <1>1. CASE UNCHANGED freqVars
    BY <1>1
    DEF freqVars, clocks, gate, window, saved, past, CountInv, CounterType, Cleared,
        TimeCounted, Behind, EdgesCounted
  <1> QED BY <1>1, TickStep, BaseStep, TestStep DEF FreqNext

\* The step that closes the window saves exact counts.
LEMMA ReadingStep ==
  ASSUME CountInv, [FreqNext]_freqVars, isCount, ~isCount',
         elapsed < TB * (Limit - 1), testEdges + 1 < Limit
  PROVE  test_count' = testEdges + 1 /\ Abs(base_count' * TB - elapsed) <= TB
  <1>1. TestEdge
    BY DEF FreqNext, FreqTick, BaseEdge, freqVars, window
  <1>2. base_count' = base_count_hide /\ test_count' = (test_count_hide + 1) % Limit
    BY <1>1 DEF TestEdge, Save, CountTest
  <1>3. /\ TB \in Nat \ {0} /\ base \in 0 .. TB /\ elapsed \in Nat /\ testEdges \in Nat
        /\ base_count_hide \in Nat /\ Limit \in Nat
    BY TbAssumption, LimitAssumption DEF CountInv, CounterType
  <1>4. test_count_hide = testEdges /\ test_count_hide \in 0 .. Limit - 1
    BY <1>3 DEF CountInv, EdgesCounted, CounterType
  <1>5. test_count' = testEdges + 1
    BY <1>2, <1>4, Counting
  <1> DEFINE X == base_count_hide * TB
  <1>6. X \in Nat
    BY <1>3, Product
  <1>7. base - (X - elapsed) \in 0 .. TB
    BY DEF CountInv, TimeCounted, Behind
  <1>8. base_count' * TB = X
    BY <1>2
  <1> HIDE DEF X
  <1>9. Abs(X - elapsed) <= TB
    BY <1>3, <1>6, <1>7 DEF Abs
  <1> QED BY <1>5, <1>8, <1>9

\* The counters' invariant holds in every reachable state.
THEOREM CountInvariance == FreqSpec => []CountInv
  <1> QED BY CountInit, CountStep, PTL DEF FreqSpec

\* Every reading is of whole periods and exact to one period of main_clk.
THEOREM AlwaysEqualPrecision == FreqSpec => EqualPrecision
  <1> DEFINE Exact ==
        isCount /\ ~isCount' /\ elapsed < TB * (Limit - 1) /\ testEdges + 1 < Limit =>
          /\ test_count' = testEdges + 1
          /\ Abs(base_count' * TB - elapsed) <= TB
  <1>1. CountInv /\ [FreqNext]_freqVars => [Exact]_freqVars
    BY ReadingStep
  <1> QED BY <1>1, CountInvariance, PTL DEF FreqSpec, EqualPrecision
=============================================================================
