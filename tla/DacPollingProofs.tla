-------------------------- MODULE DacPollingProofs --------------------------
(***************************************************************************)
(* Proofs about DacPolling for words of every length, every divider and    *)
(* every pause.                                                            *)
(***************************************************************************)
EXTENDS DacPolling, TLAPS

Period == 2 * Half

\* Core clocks since the SPI's clock last rose.
Age == IF clk_spi = 1 THEN cnt ELSE Half + cnt

\* The registers of both machines.
DividerType == cnt \in 0 .. Half - 1 /\ clk_spi \in {0, 1}
PollerType ==
  /\ polling \in {"IDLE", "SEND", "COUNT", "END"}
  /\ counter \in Channels /\ pos \in Channels /\ spi_en \in {0, 1}
SenderType ==
  /\ spi \in {"IDLE", "SEND", "SEND_n", "DELAY", "DELAY_RELOAD", "END"}
  /\ left \in 0 .. 31
Types == DividerType /\ PollerType /\ SenderType

\* The pause after a word is over, and the SPI about to be idle.
Over == spi = "END" /\ left > PauseEnd

\* How far the word of `counter' has got through the SPI.
Word ==
  /\ spi = "IDLE" => left = SPI_LEN /\ falls = 0 /\ data_in_save = counter
  /\ spi = "SEND_n" =>
       /\ left \in 1 .. SPI_LEN /\ falls = SPI_LEN - left /\ sclk = 1 /\ sync_n = 0
       /\ data_in_save = counter /\ dout = <<counter, left - 1>>
  /\ spi = "SEND" =>
       /\ left \in 0 .. SPI_LEN - 1 /\ falls = SPI_LEN - left /\ sclk = 0 /\ sync_n = 0
       /\ data_in_save = counter /\ (left = 0 => shown = counter)
  /\ spi = "DELAY"        => falls = 0 /\ shown = counter
  /\ spi = "DELAY_RELOAD" => falls = 0 /\ shown = counter /\ left = 0
  /\ spi = "END"          => falls = 0

\* What the SPI does in each state of the polling machine, which finds the end of a
\* word, and of the pause after it, on the very next clock.
Polled ==
  /\ polling = "IDLE"  => Word /\ (Over \/ spi = "IDLE") /\ dac_data = counter
  /\ polling = "SEND"  => /\ Word /\ dac_data = counter /\ pos = Parked
                          /\ spi = "DELAY_RELOAD" => Age = 0
                          /\ spi = "END" => Over
  /\ polling = "COUNT" => Word /\ spi = "DELAY_RELOAD" /\ Age = 1 /\ pos = Parked
  /\ polling = "END"   => /\ falls = 0
                          /\ \/ spi = "DELAY_RELOAD" /\ left = 0
                             \/ spi = "END" /\ (Over => Age = 0)

DacInv == Types /\ Polled /\ OwnWordOnly

\* Core clocks since the channel was connected: it is two clocks after the pause
\* began, and `left' counts the pause's periods.
Elapsed == left * Period + Age - 2

Connected ==
  /\ connected \in 0 .. LongEnough
  /\ pos # Parked =>
       \/ connected = LongEnough
       \/ polling = "END" /\ connected = Elapsed

-----------------------------------------------------------------------------
(* The parts. *)

\* A five-bit literal.
LEMMA PauseType == PauseEnd \in 0 .. 31
  BY PauseAssumption DEF PauseEnd

\* Core clocks are counted from one rising edge of the SPI's clock to the next.
LEMMA DividerStep ==
  ASSUME DividerType, Divide
  PROVE  /\ DividerType'
         /\ Age \in 0 .. Period - 1
         /\ Rises <=> Age = Period - 1
         /\ Age' = IF Rises THEN 0 ELSE Age + 1
  BY HalfAssumption DEF DividerType, Divide, Age, Rises, Period

\* An edge of the SPI's clock takes the word one bit on.
LEMMA WordStep ==
  ASSUME NEW en, SenderType, Word, SpiEdge(en, counter), Dac, counter' = counter
  PROVE  /\ SenderType' /\ Word'
         /\ spi' = "DELAY_RELOAD" => spi = "DELAY"
         /\ spi' = "END" => spi = "DELAY_RELOAD" \/ (spi = "END" /\ ~Over)
  <1> USE SpiLenAssumption, PauseType DEF SenderType
  <1>1. CASE spi = "IDLE"
    <2>1. /\ left = SPI_LEN /\ falls = 0 /\ data_in_save = counter
          /\ \/ spi' = "IDLE" /\ sync_n' = 1 /\ data_in_save' = counter
             \/ /\ spi' = "SEND_n" /\ sclk' = 1 /\ sync_n' = 0
                /\ data_in_save' = counter /\ dout' = <<counter, left - 1>>
          /\ left' = SPI_LEN
      BY <1>1 DEF SpiEdge, NextSpi, Word
    <2>2. falls' = 0
      BY <2>1 DEF Dac, dac
    <2> QED BY <1>1, <2>1, <2>2 DEF Word
  <1>2. CASE spi = "SEND_n"
    <2>1. /\ left \in 1 .. SPI_LEN /\ falls = SPI_LEN - left
          /\ sclk = 1 /\ sync_n = 0 /\ data_in_save = counter
          /\ dout = <<counter, left - 1>>
      BY <1>2 DEF Word
    <2>2. /\ spi' = "SEND" /\ sclk' = 0 /\ sync_n' = 0 /\ dout' = dout
          /\ data_in_save' = counter /\ left' = (left + 31) % 32
      BY <1>2, <2>1 DEF SpiEdge, NextSpi
    <2>3. left' = left - 1
      BY <2>1, <2>2
    <2>4. falls' = falls + 1 /\ (left = 1 => shown' = counter)
      BY <2>1, <2>2 DEF Dac
    <2> QED BY <1>2, <2>1, <2>2, <2>3, <2>4 DEF Word
  <1>3. CASE spi = "SEND"
    <2>1. /\ left \in 0 .. SPI_LEN - 1 /\ falls = SPI_LEN - left
          /\ sclk = 0 /\ sync_n = 0 /\ data_in_save = counter
          /\ (left = 0 => shown = counter)
      BY <1>3 DEF Word
    <2>2. CASE left = 0
      <3>1. spi' = "DELAY" /\ left' = 1 /\ sync_n' = 1
        BY <1>3, <2>1, <2>2 DEF SpiEdge, NextSpi
      <3> QED BY <1>3, <2>1, <2>2, <3>1 DEF Word, Dac
    <2>3. CASE left # 0
      <3>1. /\ spi' = "SEND_n" /\ left' = left /\ sync_n' = 0 /\ sclk' = 1
            /\ data_in_save' = counter /\ dout' = <<counter, left - 1>>
        BY <1>3, <2>1, <2>3 DEF SpiEdge, NextSpi
      <3>2. falls' = falls
        BY <2>1, <3>1 DEF Dac, dac
      <3> QED BY <1>3, <2>1, <2>3, <3>1, <3>2 DEF Word
    <2> QED BY <2>2, <2>3
  <1>4. CASE spi = "DELAY"
    <2>1. /\ \/ spi' = "IDLE" /\ left' = SPI_LEN /\ data_in_save' = counter
             \/ spi' = "DELAY_RELOAD" /\ left' = 0
          /\ sync_n' = 1 /\ shown = counter
      BY <1>4 DEF SpiEdge, NextSpi, Word
    <2> QED BY <1>4, <2>1 DEF Word, Dac
  <1>5. CASE spi = "DELAY_RELOAD"
    <2>1. spi' = "END" /\ left' = (left + 1) % 32 /\ sync_n' = 1
      BY <1>5 DEF SpiEdge, NextSpi
    <2> QED BY <1>5, <2>1 DEF Word, Dac
  <1>6. CASE spi = "END"
    <2>1. /\ \/ spi' = "IDLE" /\ left' = SPI_LEN /\ data_in_save' = counter
             \/ spi' = "END" /\ left' = (left + 1) % 32 /\ ~Over
          /\ sync_n' = 1
      BY <1>6 DEF SpiEdge, NextSpi, Over
    <2> QED BY <1>6, <2>1 DEF Word, Dac
  <1> QED BY <1>1, <1>2, <1>3, <1>4, <1>5, <1>6

\* In the pause an edge counts on and shows nothing new.
LEMMA PauseStep ==
  ASSUME NEW en, NEW d, SenderType, falls = 0, SpiEdge(en, d), Dac,
         \/ spi = "DELAY_RELOAD" /\ left = 0
         \/ spi = "END" /\ ~Over
  PROVE  /\ SenderType' /\ falls' = 0 /\ shown' = shown
         /\ spi' = "END" /\ left' = (left + 1) % 32
  BY PauseType DEF SenderType, SpiEdge, NextSpi, Dac, Over

-----------------------------------------------------------------------------
(* The invariant. *)

\* The registers start as at the beginning of a word of channel 0.
LEMMA InitDac == Init => DacInv
  BY SpiLenAssumption, HalfAssumption
  DEF Init, DacInv, Types, DividerType, PollerType, SenderType, Polled, Word,
      OwnWordOnly, Channels, Parked, Over

\* The SPI's edge, if there is one on this tick, sees the polling machine's enable and
\* word before or after its step.
LEMMA Edge ==
  ASSUME Tick, Rises, dac_data = counter, dac_data' = dac_data
  PROVE  \E en : SpiEdge(en, counter) /\ Dac
  BY DEF Tick

\* The polling machine starts a round: the multiplexer is parked.
LEMMA IdleStep ==
  ASSUME DacInv, Tick, Idle
  PROVE  DacInv'
  <1>1. /\ Types /\ Word /\ (Over \/ spi = "IDLE") /\ dac_data = counter
        /\ polling' = "SEND" /\ pos' = Parked /\ spi_en' = 0
        /\ counter' = counter /\ dac_data' = dac_data
    BY DEF DacInv, Polled, Idle
  <1>2. DividerType' /\ PollerType'
    BY <1>1, DividerStep DEF Types, PollerType, Tick, Parked, Channels
  <1>3. CASE Rises
    <2>1. PICK en : SpiEdge(en, counter) /\ Dac
      BY <1>1, <1>3, Edge
    <2>2. SenderType' /\ Word' /\ spi' \notin {"DELAY_RELOAD", "END"}
      BY <1>1, <2>1, WordStep DEF Types, Over
    <2> QED
      BY <1>1, <1>2, <2>2 DEF DacInv, Types, Polled, OwnWordOnly
  <1>4. CASE ~Rises
    <2>1. UNCHANGED <<sender, dac>>
      BY <1>4 DEF Tick
    <2>2. SenderType' /\ Word' /\ (spi' = "END" => Over') /\ spi' # "DELAY_RELOAD"
      BY <1>1, <2>1 DEF Types, SenderType, Word, Over, sender, dac
    <2> QED BY <1>1, <1>2, <2>2 DEF DacInv, Types, Polled, OwnWordOnly
  <1> QED BY <1>3, <1>4

\* The polling machine waits for the word's end, and finds it at once.
LEMMA SendStep ==
  ASSUME DacInv, Tick, Send
  PROVE  DacInv'
  <1>1. /\ Types /\ Word /\ dac_data = counter /\ pos = Parked
        /\ spi = "DELAY_RELOAD" => Age = 0
        /\ spi = "END" => Over
        /\ polling' = IF isEND THEN "COUNT" ELSE "SEND"
        /\ pos' = pos /\ spi_en' = 1 /\ counter' = counter /\ dac_data' = dac_data
    BY DEF DacInv, Polled, Send
  <1>2. DividerType' /\ PollerType'
    BY <1>1, DividerStep DEF Types, PollerType, Tick
  <1>3. isEND <=> spi = "DELAY_RELOAD"
    BY <1>1 DEF isEND, NextSpi, Over, Types, SenderType
  <1>4. CASE Rises
    <2>1. spi # "DELAY_RELOAD"
      BY <1>1, <1>4, DividerStep, HalfAssumption DEF Types, Tick, Period
    <2>2. PICK en : SpiEdge(en, counter) /\ Dac
      BY <1>1, <1>4, Edge
    <2>3. SenderType' /\ Word' /\ spi' # "END"
      BY <1>1, <2>1, <2>2, WordStep DEF Types
    <2>4. Age' = 0
      BY <1>1, <1>4, DividerStep DEF Types, Tick
    <2> QED
      BY <1>1, <1>2, <1>3, <2>1, <2>3, <2>4 DEF DacInv, Types, Polled, OwnWordOnly
  <1>5. CASE ~Rises
    <2>1. UNCHANGED <<sender, dac>>
      BY <1>5 DEF Tick
    <2>2. SenderType' /\ Word' /\ (spi' = "END" => Over') /\ spi' = spi
      BY <1>1, <2>1 DEF Types, SenderType, Word, Over, sender, dac
    <2>3. Age' = Age + 1
      BY <1>1, <1>5, DividerStep DEF Types, Tick
    <2> QED
      BY <1>1, <1>2, <1>3, <2>2, <2>3 DEF DacInv, Types, Polled, OwnWordOnly
  <1> QED BY <1>4, <1>5

\* The channel is connected while the DAC shows its word.
LEMMA CountStep ==
  ASSUME DacInv, Tick, Count
  PROVE  DacInv'
  <1>1. /\ Types /\ falls = 0 /\ left = 0 /\ shown = counter
        /\ spi = "DELAY_RELOAD" /\ Age = 1
        /\ polling' = "END" /\ spi_en' = 0 /\ pos' = counter
        /\ counter' = (counter + 1) % 8
    BY DEF DacInv, Polled, Count, Word
  <1>2. DividerType' /\ PollerType'
    <2>1. counter \in 0 .. 7 => (counter + 1) % 8 \in 0 .. 7
      OBVIOUS
    <2> QED BY <1>1, <2>1, DividerStep DEF Types, PollerType, Tick, Channels
  <1>3. CASE Rises
    <2>1. PICK en, d : SpiEdge(en, d) /\ Dac
      BY <1>3 DEF Tick
    <2>2. /\ SenderType' /\ falls' = 0 /\ shown' = shown
          /\ spi' = "END" /\ left' = (left + 1) % 32
      BY <1>1, <2>1, PauseStep DEF Types
    <2>3. Age' = 0
      BY <1>1, <1>3, DividerStep DEF Types, Tick
    <2> QED
      BY <1>1, <1>2, <2>2, <2>3 DEF DacInv, Types, Polled, OwnWordOnly
  <1>4. CASE ~Rises
    <2>1. UNCHANGED <<sender, dac>>
      BY <1>4 DEF Tick
    <2> QED
      BY <1>1, <1>2, <2>1
      DEF DacInv, Types, SenderType, Polled, OwnWordOnly, sender, dac
  <1> QED BY <1>3, <1>4

\* The polling machine waits for the pause's end, and finds it at once.
LEMMA EndStep ==
  ASSUME DacInv, Tick, End
  PROVE  DacInv'
  <1>1. /\ Types /\ falls = 0 /\ OwnWordOnly
        /\ polling' = IF isIDLE THEN "IDLE" ELSE "END"
        /\ UNCHANGED <<counter, spi_en, pos>> /\ dac_data' = counter
    BY DEF DacInv, Polled, End
  <1>2. \/ spi = "DELAY_RELOAD" /\ left = 0 /\ ~isIDLE
        \/ spi = "END" /\ ~Over /\ ~isIDLE
        \/ Over /\ Age = 0 /\ isIDLE
    BY DEF DacInv, Polled, End, isIDLE, NextSpi, Over
  <1>3. DividerType' /\ PollerType'
    BY <1>1, DividerStep DEF Types, PollerType, Tick
  <1>4. CASE Rises
    <2>1. ~Over
      BY <1>1, <1>2, <1>4, DividerStep, HalfAssumption DEF Types, Tick, Period, Over
    <2>2. PICK en, d : SpiEdge(en, d) /\ Dac
      BY <1>4 DEF Tick
    <2>3. /\ SenderType' /\ falls' = 0 /\ shown' = shown
          /\ spi' = "END" /\ left' = (left + 1) % 32
      BY <1>1, <1>2, <2>1, <2>2, PauseStep DEF Types
    <2>4. Age' = 0
      BY <1>1, <1>4, DividerStep DEF Types, Tick
    <2> QED
      BY <1>1, <1>2, <1>3, <2>1, <2>3, <2>4 DEF DacInv, Types, Polled, OwnWordOnly
  <1>5. CASE ~Rises
    <2>1. UNCHANGED <<sender, dac>>
      BY <1>5 DEF Tick
    <2>2. SenderType' /\ OwnWordOnly' /\ Over' = Over
      BY <1>1, <2>1 DEF Types, SenderType, OwnWordOnly, Over, sender, dac
    <2> QED
      BY <1>1, <1>2, <1>3, <2>1, <2>2
      DEF DacInv, Types, Polled, Word, Over, sender, dac
  <1> QED BY <1>4, <1>5

\* DacInv is inductive.
LEMMA DacStep ==
  ASSUME DacInv, [Next]_vars
  PROVE  DacInv'
  <1>1. CASE Tick
    BY <1>1, IdleStep, SendStep, CountStep, EndStep DEF Tick, Poll
  <1>2. CASE UNCHANGED vars
    BY <1>2
    DEF vars, divider, poller, sender, dac, DacInv, Types, DividerType, PollerType,
        SenderType, Polled, Word, OwnWordOnly, Over, Age
  <1> QED BY <1>1, <1>2 DEF Next

\* Where both machines are, in every reachable state.
THEOREM DacInvariance == Spec => []DacInv
  <1> QED BY InitDac, DacStep, PTL DEF Spec

\* Words, dividers and pauses of any length: while a channel other than the parking
\* one is connected, the DAC shows that channel's word.
THEOREM AlwaysOwnWord == Spec => []OwnWordOnly
  <1>1. DacInv => OwnWordOnly
    BY DEF DacInv
  <1> QED BY <1>1, DacInvariance, PTL

-----------------------------------------------------------------------------
(* How long a channel is connected. *)

\* The pause's periods, without multiplying by a variable.
LEMMA Multiples ==
  ASSUME NEW n \in Nat, NEW p \in Nat
  PROVE  /\ (n + 1) * p = n * p + p
         /\ n >= 9 => n * p >= 9 * p
  <1>1. (n + 1) * p = n * p + p
    OBVIOUS
  <1>2. n >= 9 => n * p >= 9 * p
    OBVIOUS
  <1> QED BY <1>1, <1>2

\* The history starts full.
LEMMA InitConnected == Init => Connected
  BY HalfAssumption DEF Init, Connected, LongEnough

\* The count goes with `left' and the clock until it is long enough.
LEMMA ConnectedStep ==
  ASSUME DacInv, Connected, PauseEnd >= 8, Tick
  PROVE  /\ Connected'
         /\ pos' # pos /\ pos # Parked => connected = LongEnough
  <1> DEFINE P == Period
  <1>0. /\ Types /\ P \in Nat \ {0, 1} /\ LongEnough = 8 * P
        /\ connected \in 0 .. LongEnough
        /\ Age \in 0 .. P - 1 /\ (Rises <=> Age = P - 1)
        /\ Age' = IF Rises THEN 0 ELSE Age + 1
    BY DividerStep, HalfAssumption
    DEF DacInv, Types, Tick, Period, LongEnough, Connected
  <1>1. connected' = IF pos' # pos THEN 0
                     ELSE IF connected = LongEnough THEN connected ELSE connected + 1
    BY DEF Tick
  <1>2. connected' \in 0 .. LongEnough
    BY <1>0, <1>1
  <1>3. CASE Idle
    <2>1. pos # Parked => connected = LongEnough
      BY <1>3 DEF Connected, Idle
    <2>2. pos' = Parked
      BY <1>3 DEF Idle
    <2> QED BY <1>2, <2>1, <2>2 DEF Connected
  <1>4. CASE Send
    <2>1. pos = Parked /\ pos' = Parked
      BY <1>4 DEF Send, DacInv, Polled
    <2> QED BY <1>2, <2>1 DEF Connected
  <1>5. CASE Count
    <2>1. /\ pos = Parked /\ polling' = "END" /\ Age = 1
          /\ spi = "DELAY_RELOAD" /\ left = 0 /\ falls = 0
      BY <1>5 DEF Count, DacInv, Polled, Word
    <2>2. CASE pos' = Parked
      BY <1>2, <2>1, <2>2 DEF Connected
    <2>3. CASE pos' # Parked
      <3>1. connected' = 0
        BY <1>1, <2>1, <2>3
      <3>2. CASE Rises
        <4>1. PICK en, d : SpiEdge(en, d) /\ Dac
          BY <3>2 DEF Tick
        <4>2. left' = 1
          BY <1>0, <2>1, <4>1, PauseStep DEF Types
        <4>3. P = 2 /\ Age' = 0
          BY <1>0, <2>1, <3>2
        <4>4. Elapsed' = 0
          BY <4>2, <4>3 DEF Elapsed, Period
        <4> QED BY <1>2, <2>1, <3>1, <4>4 DEF Connected
      <3>3. CASE ~Rises
        <4>1. left' = 0
          BY <2>1, <3>3 DEF Tick, sender
        <4>2. Age' = 2
          BY <1>0, <2>1, <3>3
        <4>3. Elapsed' = 0
          BY <1>0, <4>1, <4>2 DEF Elapsed, Period
        <4> QED BY <1>2, <2>1, <3>1, <4>3 DEF Connected
      <3> QED BY <3>2, <3>3
    <2> QED BY <2>2, <2>3
  <1>6. CASE End
    <2>1. /\ pos' = pos /\ falls = 0 /\ left \in 0 .. 31
          /\ polling' = IF isIDLE THEN "IDLE" ELSE "END"
          /\ pos # Parked => connected = LongEnough \/ connected = Elapsed
          /\ polling = "END"
      BY <1>0, <1>6 DEF End, Connected, DacInv, Polled, Types, SenderType
    <2>2. \/ spi = "DELAY_RELOAD" /\ left = 0 /\ ~isIDLE
          \/ spi = "END" /\ ~Over /\ ~isIDLE
          \/ Over /\ Age = 0 /\ isIDLE
      BY <1>6 DEF DacInv, Polled, End, isIDLE, NextSpi, Over
    <2>3. connected' = IF connected = LongEnough THEN connected ELSE connected + 1
      BY <1>1, <2>1
    <2>4. CASE pos = Parked \/ connected = LongEnough
      BY <1>2, <2>1, <2>3, <2>4 DEF Connected
    <2>5. CASE pos # Parked /\ connected # LongEnough
      <3>1. connected = left * P + Age - 2 /\ connected' = connected + 1
        BY <2>1, <2>3, <2>5 DEF Elapsed
      <3>2. left < 9
        <4>1. left >= 9 => left * P >= 9 * P
          BY <1>0, <2>1, Multiples
        <4>2. left * P \in Int
          BY <1>0, <2>1
        <4> HIDE DEF P
        <4> QED BY <1>0, <2>1, <2>5, <3>1, <4>1, <4>2
      <3>3. CASE Over
        <4>1. left > 8
          BY <2>1, <3>3, PauseType DEF Over
        <4> QED BY <2>1, <3>2, <4>1
      <3>4. CASE ~Over
        <4>1. polling' = "END"
          BY <2>1, <2>2, <3>4
        <4>2. Elapsed' = connected'
          <5>1. CASE Rises
            <6>1. PICK en, d : SpiEdge(en, d) /\ Dac
              BY <5>1 DEF Tick
            <6>2. left' = (left + 1) % 32
              BY <1>0, <2>1, <2>2, <3>4, <6>1, PauseStep DEF Types
            <6>3. left' = left + 1
              BY <2>1, <3>2, <6>2
            <6>4. Elapsed' = (left + 1) * P + 0 - 2
              BY <1>0, <5>1, <6>3 DEF Elapsed, Period
            <6>5. (left + 1) * P = left * P + P /\ left * P \in Int
              BY <1>0, <2>1, Multiples
            <6> HIDE DEF P
            <6> QED BY <1>0, <3>1, <5>1, <6>4, <6>5
          <5>2. CASE ~Rises
            <6>1. left' = left
              BY <5>2 DEF Tick, sender
            <6>2. Elapsed' = left * P + (Age + 1) - 2
              BY <1>0, <5>2, <6>1 DEF Elapsed, Period
            <6>3. left * P \in Int
              BY <1>0, <2>1
            <6> HIDE DEF P
            <6> QED BY <1>0, <3>1, <6>2, <6>3
          <5> QED BY <5>1, <5>2
        <4> QED BY <1>2, <2>1, <4>1, <4>2 DEF Connected
      <3> QED BY <3>3, <3>4
    <2> QED BY <2>4, <2>5
  <1> QED BY <1>3, <1>4, <1>5, <1>6 DEF Tick, Poll

\* With a pause of at least 8 no channel is let go before eight clocks of the SPI.
\* (The code's 5'd40 is 8.)
THEOREM AlwaysConnectedLong ==
  ASSUME PauseEnd >= 8
  PROVE  Spec => ConnectedLong
  <1>1. DacInv /\ Connected /\ [Next]_vars
          => Connected' /\ [pos' # pos /\ pos # Parked => connected = LongEnough]_vars
    <2> SUFFICES ASSUME DacInv, Connected, [Next]_vars
                 PROVE  /\ Connected'
                        /\ [pos' # pos /\ pos # Parked => connected = LongEnough]_vars
      OBVIOUS
    <2>1. CASE Tick
      BY <2>1, ConnectedStep
    <2>2. CASE UNCHANGED vars
      BY <2>2 DEF vars, divider, poller, sender, Connected, Elapsed, Age
    <2> QED BY <2>1, <2>2 DEF Next
  <1> QED BY <1>1, InitConnected, DacInvariance, PTL DEF Spec, ConnectedLong
=============================================================================
