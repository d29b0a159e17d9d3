------------------------------ MODULE UartRegs ------------------------------
(***************************************************************************)
(* UART2REG and the registers of main.sv.  A register frame is an address, *)
(* a sub-address and two bytes of data, all without their lowest bits,     *)
(* which follow in a fifth byte that ends in f.  There is no header and no *)
(* checksum: bytes that are lost, or heard when none was sent, have to be  *)
(* survived.  One action is one byte, on the rising edge of rdy.           *)
(***************************************************************************)
EXTENDS Integers, Sequences, FiniteSets

CONSTANTS Frames,    \* what the host may write: <<address, sub_address, data>>
          Noise,     \* bytes heard that nobody sent
          MaxFaults  \* bound: how often something goes wrong

Octet == 0 .. 255
Word  == 0 .. 65535

ASSUME FramesAssumption == Frames \subseteq Octet \X Octet \X Word
ASSUME NoiseAssumption == Noise \subseteq Octet
ASSUME MaxFaultsAssumption == MaxFaults \in Nat

VARIABLES
  reg_save, ready,                \* UART2REG
  regs,                           \* main.sv: dac_data, adc_freq, adc_en_u
  frame, sent,                    \* the host: its frame, how much of it is sent
  whole,                          \* history: nothing went wrong in this frame
  faults                          \* how often something went wrong

host == <<frame, sent, whole, faults>>
regsVars == <<reg_save, ready, regs, host>>

RegsInit ==
  /\ reg_save = <<0, 0, 0, 0>> /\ ready = 0
  /\ regs = [dac_data |-> [c \in 0 .. 7 |-> 0],
             adc_freq |-> [c \in 0 .. 1 |-> 0], adc_en_u |-> 0]
  /\ frame \in Frames /\ sent = 0 /\ whole = TRUE /\ faults = 0

-----------------------------------------------------------------------------
(* The host's side of the format. *)

Even(b) == 2 * (b \div 2)

Bytes(f) ==
  LET hi == f[3] \div 256  lo == f[3] % 256 IN
  << Even(f[1]), Even(f[2]), Even(hi), Even(lo),
     128 * (f[1] % 2) + 64 * (f[2] % 2) + 32 * (hi % 2) + 16 * (lo % 2) + 15 >>

-----------------------------------------------------------------------------
(* UART2REG: the four bytes before the flag, each with its bit of the flag. *)

BitOf(b, weight) == (b \div weight) % 2

\* address, sub_address and data while din is the flag.
Decoded(din) ==
  LET Saved(i, weight) == Even(reg_save[i]) + BitOf(din, weight) IN
  << Saved(1, 128), Saved(2, 64), 256 * Saved(3, 32) + Saved(4, 16) >>

\* The registers r with one written; an address nobody has writes none.
Apply(r, f) ==
  CASE f[1] = 255 -> [r EXCEPT !.dac_data[f[2] % 8] = f[3] % 4096]
    [] f[1] = 254 -> [r EXCEPT !.adc_freq[f[2] % 2] = f[3]]
    [] f[1] = 0   -> [r EXCEPT !.adc_en_u = f[3] % 2]
    [] OTHER      -> r

\* Mutant: ready stays up until it is used again.
Mut_ReadyStays(din) ==
  IF din % 16 = 15
    THEN /\ ready' = 1
         /\ regs' = IF ready = 0 THEN Apply(regs, Decoded(din)) ELSE regs
         /\ UNCHANGED reg_save
    ELSE /\ reg_save' = Append(Tail(reg_save), din)
         /\ UNCHANGED <<ready, regs>>

\* A register is written when ready rises.
Byte(din) ==
  IF din % 16 = 15
    THEN /\ ready' = 1
         /\ regs' = IF ready = 0 THEN Apply(regs, Decoded(din)) ELSE regs
         /\ UNCHANGED reg_save
    ELSE /\ reg_save' = Append(Tail(reg_save), din)
         /\ ready' = 0
         /\ UNCHANGED regs

-----------------------------------------------------------------------------
(* The line. *)

Heard ==
  /\ sent < 5
  /\ Byte(Bytes(frame)[sent + 1])
  /\ sent' = sent + 1
  /\ UNCHANGED <<frame, whole, faults>>

Lost ==
  /\ sent < 5 /\ faults < MaxFaults
  /\ sent' = sent + 1 /\ whole' = FALSE /\ faults' = faults + 1
  /\ UNCHANGED <<reg_save, ready, regs, frame>>

Garbage ==
  /\ faults < MaxFaults
  /\ \E b \in Noise : Byte(b)
  /\ whole' = (sent = 0) /\ faults' = faults + 1
  /\ UNCHANGED <<frame, sent>>

NextFrame ==
  /\ sent = 5
  /\ frame' \in Frames /\ sent' = 0 /\ whole' = TRUE
  /\ UNCHANGED <<reg_save, ready, regs, faults>>

RegsNext == Heard \/ Lost \/ Garbage \/ NextFrame

RegsSpec == RegsInit /\ [][RegsNext]_regsVars

-----------------------------------------------------------------------------
(* Properties *)

\* Whatever was lost or heard before, a frame that gets across whole writes its
\* register, and no other, when its last byte arrives, and nothing before.
WholeFrameWritten ==
  [][sent' = sent + 1 /\ whole'
       => regs' = IF sent = 4 THEN Apply(regs, frame) ELSE regs]_regsVars
=============================================================================
