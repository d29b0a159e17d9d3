-------------------------- MODULE FrequencyCounter --------------------------
(***************************************************************************)
(* GET_FREQ: counting the edges of the trigger against those of main_clk   *)
(* with equal precision at every frequency (GET_FREQ_EQUAL).  The gate     *)
(* clk_en divides main_clk; the window isCount follows it at edges of the  *)
(* test signal, so that it holds whole periods of that signal.             *)
(*                                                                         *)
(* Time goes in ticks of the 200 MHz clock both clocks are made from.  The *)
(* test signal is irregular: each period is one of Periods.  Edges of both *)
(* at one tick may take effect in either order.  Registers power up at     *)
(* zero; en is 1, and isReady and the machine's state go nowhere.          *)
(***************************************************************************)
EXTENDS Integers

CONSTANTS TB,        \* ticks of a period of main_clk: 200
          N,         \* periods of main_clk to one of the gate: 50000
          Limit,     \* a counter has 24 bits and starts again at 2^24
          Periods    \* ticks a period of the test signal may last

ASSUME TbAssumption == TB \in Nat \ {0}
ASSUME NAssumption == N \in Nat /\ N >= 2 /\ N % 2 = 0
ASSUME LimitAssumption == Limit \in Nat \ {0}
ASSUME PeriodsAssumption == Periods # {} /\ Periods \subseteq Nat \ {0}

VARIABLES
  base, test,                   \* ticks to the next edge of either clock
  gate_cnt, clk_en,             \* Div
  isCount, base_count_hide, test_count_hide, base_count, test_count,
  elapsed, testEdges  \* history: ticks and test edges since the window opened

clocks   == <<base, test>>
gate     == <<gate_cnt, clk_en>>
saved    == <<base_count, test_count>>
window   == <<isCount, base_count_hide, test_count_hide, saved>>
past     == <<elapsed, testEdges>>
freqVars == <<clocks, gate, window, past>>

\* History is kept as far as the counters reach.
Upto(n, bound) == IF n < bound THEN n ELSE bound

FreqInit ==
  /\ base \in 0 .. TB - 1 /\ test \in 0 .. TB - 1
  /\ gate_cnt = 0 /\ clk_en = FALSE
  /\ isCount = FALSE
  /\ base_count_hide = 0 /\ test_count_hide = 0
  /\ base_count = 0 /\ test_count = 0
  /\ elapsed = 0 /\ testEdges = 0

FreqTick ==
  /\ base > 0 /\ test > 0
  /\ base' = base - 1 /\ test' = test - 1
  /\ elapsed' = IF isCount THEN Upto(elapsed + 1, TB * Limit) ELSE elapsed
  /\ UNCHANGED <<gate, window, testEdges>>

-----------------------------------------------------------------------------

\* Div: half a period of the gate is N/2 edges.
Div ==
  IF gate_cnt = N \div 2 - 1
    THEN gate_cnt' = 0 /\ clk_en' = ~clk_en
    ELSE gate_cnt' = gate_cnt + 1 /\ UNCHANGED clk_en

\* Mutant: the counter is never cleared.
Mut_BaseKept ==
  base_count_hide' = IF isCount THEN (base_count_hide + 1) % Limit
                                ELSE base_count_hide

CountBase ==
  base_count_hide' = IF isCount THEN (base_count_hide + 1) % Limit ELSE 0

BaseEdge ==
  /\ base = 0 /\ base' = TB
  /\ Div
  /\ CountBase
  /\ UNCHANGED <<test, isCount, test_count_hide, saved, past>>

CountTest ==
  test_count_hide' = IF isCount THEN (test_count_hide + 1) % Limit ELSE 0

\* On the falling edge of isCount both counts are saved, the test count with the
\* edge that closes the window.
Save ==
  IF isCount /\ ~isCount'
    THEN base_count' = base_count_hide /\ test_count' = test_count_hide'
    ELSE UNCHANGED saved

TestEdge ==
  /\ test = 0 /\ test' \in Periods
  /\ isCount' = clk_en
  /\ CountTest
  /\ Save
  /\ elapsed' = IF isCount /\ clk_en THEN elapsed ELSE 0
  /\ testEdges' = IF isCount /\ clk_en THEN Upto(testEdges + 1, Limit) ELSE 0
  /\ UNCHANGED <<base, gate, base_count_hide>>

FreqNext == FreqTick \/ BaseEdge \/ TestEdge

FreqSpec == FreqInit /\ [][FreqNext]_freqVars

-----------------------------------------------------------------------------
(* Properties *)

Abs(n) == IF n < 0 THEN -n ELSE n

\* However the signal's periods fall against main_clk and the gate, a reading is of
\* whole periods, none left over from the window before, and of the time they took
\* to within one period of main_clk; unless the window stayed open for longer than
\* the counters reach, which needs a signal slower than half the gate.
EqualPrecision ==
  [][isCount /\ ~isCount' /\ elapsed < TB * (Limit - 1) /\ testEdges + 1 < Limit =>
       /\ test_count' = testEdges + 1
       /\ Abs(base_count' * TB - elapsed) <= TB]_freqVars
=============================================================================
