--------------------------- MODULE DsoRingProofs ---------------------------
(***************************************************************************)
(* Proofs about DsoRing for every ring length, every set of frames and     *)
(* process ids, one core or several, and memory that may run out: its      *)
(* invariants, and that it implements FrameStream.                         *)
(***************************************************************************)
EXTENDS DsoRing, SequenceTheorems, TLAPS

-----------------------------------------------------------------------------
(* Arithmetic of the ring.  The only fact about % is ModStep; Dist is used *)
(* through its two cases afterwards.                                       *)

\* Taking a remainder of less than twice the ring length subtracts it at most once.
LEMMA ModStep ==
  ASSUME NEW x \in 0 .. 2 * StreamLen - 1
  PROVE  x % StreamLen = IF x < StreamLen THEN x ELSE x - StreamLen
  BY StreamLenAssumption

\* The ring has a slot 0.
LEMMA ZeroSlot == 0 \in Slots
  BY StreamLenAssumption DEF Slots

\* Dist as both programs use it: forward distance around the ring.
LEMMA DistCases ==
  ASSUME NEW a \in Slots, NEW b \in Slots
  PROVE  /\ Dist(a, b) = IF b >= a THEN b - a ELSE b + StreamLen - a
         /\ Dist(a, b) \in Slots
  <1>1. b + StreamLen - a \in 0 .. 2 * StreamLen - 1
    BY StreamLenAssumption DEF Slots
  <1> QED BY <1>1, ModStep, StreamLenAssumption DEF Dist, Slots

\* A distance is a natural number.
LEMMA DistNat == \A a, b \in Slots : Dist(a, b) \in Nat
  <1>1. Slots \subseteq Nat
    BY DEF Slots
  <1> QED BY <1>1, DistCases

\* Moving the origin from a to b shortens every distance that passes b.
LEMMA DistShift ==
  ASSUME NEW a \in Slots, NEW b \in Slots, NEW x \in Slots,
         Dist(a, b) <= Dist(a, x)
  PROVE  Dist(b, x) = Dist(a, x) - Dist(a, b)
  <1>1. Dist(b, x) = IF x >= b THEN x - b ELSE x + StreamLen - b
    BY DistCases
  <1>2. Dist(a, x) = IF x >= a THEN x - a ELSE x + StreamLen - a
    BY DistCases
  <1>3. Dist(a, b) = IF b >= a THEN b - a ELSE b + StreamLen - a
    BY DistCases
  <1> QED BY <1>1, <1>2, <1>3, StreamLenAssumption DEF Slots

\* The next slot is one further, as long as the ring has not been gone round.
LEMMA DistNext ==
  ASSUME NEW a \in Slots, NEW x \in Slots, Dist(a, x) < StreamLen - 1
  PROVE  /\ (x + 1) % StreamLen \in Slots
         /\ Dist(a, (x + 1) % StreamLen) = Dist(a, x) + 1
  <1>1. x + 1 \in 0 .. 2 * StreamLen - 1
    BY StreamLenAssumption DEF Slots
  <1>2. (x + 1) % StreamLen = IF x + 1 < StreamLen THEN x + 1 ELSE 0
    BY <1>1, ModStep, StreamLenAssumption DEF Slots
  <1>3. (x + 1) % StreamLen \in Slots
    BY <1>2, StreamLenAssumption DEF Slots
  <1>4. Dist(a, x) = IF x >= a THEN x - a ELSE x + StreamLen - a
    BY DistCases
  <1> DEFINE y == (x + 1) % StreamLen
  <1>5. Dist(a, y) = IF y >= a THEN y - a ELSE y + StreamLen - a
    BY <1>3, DistCases
  <1> QED BY <1>2, <1>3, <1>4, <1>5, StreamLenAssumption DEF Slots

\* The slot before one that is not the origin is one nearer.
LEMMA DistPrev ==
  ASSUME NEW a \in Slots, NEW x \in Slots
  PROVE  /\ (x + StreamLen - 1) % StreamLen \in Slots
         /\ Dist(a, x) >= 1 =>
              Dist(a, (x + StreamLen - 1) % StreamLen) = Dist(a, x) - 1
  <1>1. x + StreamLen - 1 \in 0 .. 2 * StreamLen - 1
    BY StreamLenAssumption DEF Slots
  <1>2. (x + StreamLen - 1) % StreamLen = IF x = 0 THEN StreamLen - 1 ELSE x - 1
    BY <1>1, ModStep, StreamLenAssumption DEF Slots
  <1>3. (x + StreamLen - 1) % StreamLen \in Slots
    BY <1>2, StreamLenAssumption DEF Slots
  <1>4. Dist(a, x) = IF x >= a THEN x - a ELSE x + StreamLen - a
    BY DistCases
  <1> DEFINE y == (x + StreamLen - 1) % StreamLen
  <1>5. Dist(a, y) = IF y >= a THEN y - a ELSE y + StreamLen - a
    BY <1>3, DistCases
  <1> QED BY <1>2, <1>3, <1>4, <1>5, StreamLenAssumption DEF Slots

\* A slot is as far from itself as nothing, and distances tell slots apart.
LEMMA DistUnique ==
  ASSUME NEW a \in Slots, NEW x \in Slots, NEW y \in Slots
  PROVE  /\ Dist(a, a) = 0
         /\ Dist(a, x) = Dist(a, y) => x = y
  <1>1. Dist(a, a) = IF a >= a THEN a - a ELSE a + StreamLen - a
    BY DistCases
  <1>2. Dist(a, x) = IF x >= a THEN x - a ELSE x + StreamLen - a
    BY DistCases
  <1>3. Dist(a, y) = IF y >= a THEN y - a ELSE y + StreamLen - a
    BY DistCases
  <1> QED BY <1>1, <1>2, <1>3, StreamLenAssumption DEF Slots

\* Walking k slots from a comes k slots far.
LEMMA DistWalk ==
  ASSUME NEW a \in Slots, NEW k \in Slots
  PROVE  /\ (a + k) % StreamLen \in Slots
         /\ Dist(a, (a + k) % StreamLen) = k
  <1>1. a + k \in 0 .. 2 * StreamLen - 1
    BY StreamLenAssumption DEF Slots
  <1>2. (a + k) % StreamLen = IF a + k < StreamLen THEN a + k ELSE a + k - StreamLen
    BY <1>1, ModStep, StreamLenAssumption DEF Slots
  <1>3. (a + k) % StreamLen \in Slots
    BY <1>2, StreamLenAssumption DEF Slots
  <1> DEFINE y == (a + k) % StreamLen
  <1>4. Dist(a, y) = IF y >= a THEN y - a ELSE y + StreamLen - a
    BY <1>3, DistCases
  <1> QED BY <1>2, <1>3, <1>4, StreamLenAssumption DEF Slots

-----------------------------------------------------------------------------
(* Sequences of signals. *)

\* An empty socket.
LEMMA NoSignals == << >> \in Seq(Slots) /\ Len(<< >>) = 0
  OBVIOUS

\* A signal sent goes to the end of the socket.
LEMMA SignalSent ==
  ASSUME NEW s \in Seq(Slots), NEW x \in Slots
  PROVE  /\ Append(s, x) \in Seq(Slots)
         /\ Len(Append(s, x)) = Len(s) + 1
         /\ \A i \in 1 .. Len(s) : Append(s, x)[i] = s[i]
         /\ Append(s, x)[Len(s) + 1] = x
  OBVIOUS

\* A signal received comes from its front.
LEMMA SignalReceived ==
  ASSUME NEW s \in Seq(Slots), s # << >>
  PROVE  /\ Head(s) \in Slots /\ Head(s) = s[1]
         /\ Len(s) >= 1
         /\ Tail(s) \in Seq(Slots)
         /\ Len(Tail(s)) = Len(s) - 1
         /\ \A i \in 1 .. Len(s) - 1 : Tail(s)[i] = s[i + 1]
  OBVIOUS

-----------------------------------------------------------------------------
(* The wake token, as a propositional formula. *)

Tokens ==
  /\ intEnabled \/ scheduled \/ tpc # "idle" \/ ipc = "park" \/ irq
  /\ intEnabled => ~scheduled /\ tpc = "idle" /\ ipc # "park" /\ ~irq
  /\ scheduled => tpc = "idle" /\ ipc # "park" /\ ~irq
  /\ tpc # "idle" => ipc # "park" /\ ~irq
  /\ ~(ipc = "park" /\ irq)

\* One element in the set of tokens is one of the five conditions true.
LEMMA TokensEquiv == OneWakeToken <=> Tokens
  BY DEF OneWakeToken, WakeTokens, Tokens

-----------------------------------------------------------------------------
(* Type correctness.  The lengths and indices stay in their ranges only    *)
(* because of the ring's invariant: a commit finds room, an answer takes   *)
(* away no more than the ring holds.                                       *)

\* Every step of driver, user program or FPGA leaves each variable in its range.
LEMMA TypeStep ==
  ASSUME TypeOK, IInv, [Next]_vars
  PROVE  TypeOK'
  <1> USE DEF TypeOK, ring, flags, irqVars, tlVars, usrVars, fpga
  <1>1. CASE FrameReady
    <2>1. RingType'
      BY <1>1 DEF FrameReady, RingType
    <2>2. DriverType'
      BY <1>1 DEF FrameReady, DriverType
    <2>3. UserType'
      BY <1>1 DEF FrameReady, UserType
    <2> QED BY <2>1, <2>2, <2>3
  <1>2. CASE IrqEnter
    <2>1. RingType'
      BY <1>2 DEF IrqEnter, RingType
    <2>2. DriverType'
      BY <1>2 DEF IrqEnter, DriverType
    <2>3. UserType'
      BY <1>2 DEF IrqEnter, UserType
    <2> QED BY <2>1, <2>2, <2>3
  <1>3. CASE IrqPark
    <2>1. RingType'
      BY <1>3 DEF IrqPark, RingType
    <2>2. DriverType'
      BY <1>3 DEF IrqPark, DriverType
    <2>3. UserType'
      BY <1>3 DEF IrqPark, UserType
    <2> QED BY <2>1, <2>2, <2>3
  <1>4. CASE TaskletBegin
    <2>1. RingType'
      BY <1>4 DEF TaskletBegin, RingType
    <2>2. DriverType'
      <3>1. Sequeue_Full \in BOOLEAN
        BY DEF Sequeue_Full
      <3>2. isFull' \in BOOLEAN
        BY <1>4, <3>1 DEF TaskletBegin
      <3> QED
        BY <1>4, <3>2 DEF TaskletBegin, DriverType, RingType
    <2>3. UserType'
      BY <1>4 DEF TaskletBegin, UserType
    <2> QED BY <2>1, <2>2, <2>3
  <1>5. CASE TaskletReceive
    <2>1. RingType'
      BY <1>5 DEF TaskletReceive, DriverType, RingType
    <2>2. DriverType'
      BY <1>5 DEF TaskletReceive, DriverType
    <2>3. UserType'
      BY <1>5 DEF TaskletReceive, UserType
    <2> QED BY <2>1, <2>2, <2>3
  <1>6. CASE TaskletCommit
    <2>1. RingType'
      BY <1>6, StreamLenAssumption, ModStep DEF TaskletCommit, IInv, TaskletNoted, Slots, DriverType, RingType
    <2>2. DriverType'
      BY <1>6 DEF TaskletCommit, DriverType
    <2>3. UserType'
      BY <1>6 DEF TaskletCommit, UserType
    <2> QED BY <2>1, <2>2, <2>3
  <1>7. CASE TaskletFull
    <2>1. RingType'
      BY <1>7 DEF TaskletFull, RingType
    <2>2. DriverType'
      BY <1>7 DEF TaskletFull, DriverType
    <2>3. UserType'
      BY <1>7 DEF TaskletFull, UserType
    <2> QED BY <2>1, <2>2, <2>3
  <1>8. CASE TaskletSend
    <2>1. RingType'
      BY <1>8 DEF TaskletSend, RingType
    <2>2. DriverType'
      BY <1>8 DEF TaskletSend, DriverType
    <2>3. UserType'
      BY <1>8, SignalSent DEF TaskletSend, netlink_send_signal, DriverType, UserType
    <2> QED BY <2>1, <2>2, <2>3
  <1>9. CASE TaskletEnable
    <2>1. RingType'
      BY <1>9 DEF TaskletEnable, RingType
    <2>2. DriverType'
      BY <1>9, ZeroSlot DEF TaskletEnable, DriverType
    <2>3. UserType'
      BY <1>9 DEF TaskletEnable, UserType
    <2> QED BY <2>1, <2>2, <2>3
  <1>10. CASE Launch
    <2>1. RingType'
      BY <1>10 DEF Launch, RingType
    <2>2. DriverType'
      BY <1>10 DEF Launch, DriverType
    <2>3. UserType'
      BY <1>10 DEF Launch, UserType
    <2> QED BY <2>1, <2>2, <2>3
  <1>11. CASE ReadFront
    <2>1. RingType'
      BY <1>11 DEF ReadFront, RingType
    <2>2. DriverType'
      BY <1>11 DEF ReadFront, DriverType
    <2>3. UserType'
      BY <1>11 DEF ReadFront, RingType, UserType
    <2> QED BY <2>1, <2>2, <2>3
  <1>12. CASE StartEnter
    <2>1. RingType'
      BY <1>12 DEF StartEnter, RingType
    <2>2. DriverType'
      BY <1>12 DEF StartEnter, DriverType, UserType
    <2>3. UserType'
      BY <1>12 DEF StartEnter, UserType
    <2> QED BY <2>1, <2>2, <2>3
  <1>13. CASE StartLock
    <2>1. RingType'
      BY <1>13 DEF StartLock, RingType
    <2>2. DriverType'
      BY <1>13 DEF StartLock, DriverType
    <2>3. UserType'
      BY <1>13 DEF StartLock, UserType
    <2> QED BY <2>1, <2>2, <2>3
  <1>14. CASE StartIrq
    <2>1. RingType'
      BY <1>14 DEF StartIrq, UnparkIrq, RingType
    <2>2. DriverType'
      BY <1>14 DEF StartIrq, UnparkIrq, DriverType
    <2>3. UserType'
      BY <1>14 DEF StartIrq, UnparkIrq, UserType
    <2> QED BY <2>1, <2>2, <2>3
  <1>15. CASE Receive
    <2>1. RingType'
      BY <1>15 DEF Receive, RingType
    <2>2. DriverType'
      BY <1>15 DEF Receive, DriverType
    <2>3. UserType'
      BY <1>15, SignalReceived, DistCases DEF Receive, UserType
    <2> QED BY <2>1, <2>2, <2>3
  <1>16. CASE TakeFrame
    <2>1. RingType'
      BY <1>16 DEF TakeFrame, RingType
    <2>2. DriverType'
      BY <1>16 DEF TakeFrame, DriverType
    <2>3. UserType'
      BY <1>16, StreamLenAssumption, ModStep DEF TakeFrame, Slots, UserType
    <2> QED BY <2>1, <2>2, <2>3
  <1>17. CASE Deliver
    <2>1. Held \in Slots
      BY DistPrev DEF Held, UserType
    <2>2. RingType'
      BY <1>17, <2>1 DEF Deliver, RingType
    <2>3. DriverType'
      BY <1>17 DEF Deliver, DriverType
    <2>4. UserType'
      BY <1>17 DEF Deliver, UserType
    <2> QED BY <2>2, <2>3, <2>4
  <1>18. CASE CutEnter
    <2>1. RingType'
      BY <1>18 DEF CutEnter, RingType
    <2>2. DriverType'
      BY <1>18, DistCases DEF CutEnter, DriverType, UserType
    <2>3. UserType'
      BY <1>18, DistCases DEF CutEnter, RingType, UserType
    <2> QED BY <2>1, <2>2, <2>3
  <1>19. CASE CutLock
    <2>1. front_dif = Dist(front, last_front) /\ Consumed = Dist(front, last_front)
      BY <1>19 DEF CutLock, IInv, UserNoted, Consumed
    <2>2. front_dif <= len
      BY <2>1, DistCases DEF IInv, SignalsInWindow, RingType, UserType, Slots
    <2>3. len - front_dif \in 0 .. StreamLen - 1
      BY <2>2, StreamLenAssumption DEF RingType, UserType, Slots
    <2>4. RingType'
      BY <1>19, <2>3 DEF CutLock, RingType, UserType
    <2>5. DriverType'
      BY <1>19 DEF CutLock, DriverType
    <2>6. UserType'
      BY <1>19 DEF CutLock, UserType
    <2> QED BY <2>4, <2>5, <2>6
  <1>20. CASE CutIrq
    <2>1. RingType'
      BY <1>20 DEF CutIrq, UnparkIrq, RingType
    <2>2. DriverType'
      BY <1>20 DEF CutIrq, UnparkIrq, DriverType
    <2>3. UserType'
      BY <1>20, ZeroSlot DEF CutIrq, UnparkIrq, UserType
    <2> QED BY <2>1, <2>2, <2>3
  <1>21. CASE Crash
    <2>1. RingType'
      BY <1>21 DEF Crash, RingType
    <2>2. DriverType'
      BY <1>21 DEF Crash, DriverType
    <2>3. UserType'
      BY <1>21, ZeroSlot, NoSignals DEF Crash, UserType
    <2> QED BY <2>1, <2>2, <2>3
  <1>22. CASE UNCHANGED vars
    BY <1>22 DEF vars, RingType, DriverType, UserType
  <1> QED
    BY <1>1, <1>2, <1>3, <1>4, <1>5, <1>6, <1>7, <1>8, <1>9, <1>10, <1>11, <1>12, <1>13, <1>14, <1>15, <1>16, <1>17, <1>18, <1>19, <1>20, <1>21, <1>22
    DEF Next, Irq, Tasklet, User

-----------------------------------------------------------------------------
(* The wake token and the flags it depends on. *)

\* A step hands the wake token on or leaves it where it is; it never copies it.
LEMMA TokensStep ==
  ASSUME TypeOK, IInv, [Next]_vars
  PROVE  Tokens' /\ FrameKept'
  <1> USE DEF TypeOK, DriverType, Tokens, FrameKept, irqVars, tlVars, flags, fpga
  <1>1. Tokens /\ FrameKept
    BY TokensEquiv DEF IInv
  <1>2. CASE FrameReady
    BY <1>1, <1>2 DEF FrameReady
  <1>3. CASE IrqEnter
    BY <1>1, <1>3 DEF IrqEnter
  <1>4. CASE IrqPark
    BY <1>1, <1>4 DEF IrqPark
  <1>5. CASE TaskletBegin
    BY <1>1, <1>5 DEF TaskletBegin
  <1>6. CASE TaskletReceive
    BY <1>1, <1>6 DEF TaskletReceive
  <1>7. CASE TaskletCommit
    BY <1>1, <1>7 DEF TaskletCommit
  <1>8. CASE TaskletFull
    BY <1>1, <1>8 DEF TaskletFull
  <1>9. CASE TaskletSend
    BY <1>1, <1>9 DEF TaskletSend
  <1>10. CASE TaskletEnable
    BY <1>1, <1>10 DEF TaskletEnable
  <1>11. CASE StartIrq \/ CutIrq
    BY <1>1, <1>11 DEF StartIrq, CutIrq, UnparkIrq
  <1>12. CASE Launch \/ ReadFront \/ StartEnter \/ StartLock \/ Receive \/ TakeFrame
                \/ Deliver \/ CutEnter \/ CutLock \/ Crash
    BY <1>1, <1>12
    DEF Launch, ReadFront, StartEnter, StartLock, Receive, TakeFrame, Deliver,
        CutEnter, CutLock, Crash
  <1>13. CASE UNCHANGED vars
    BY <1>1, <1>13 DEF vars
  <1> QED
    BY <1>2, <1>3, <1>4, <1>5, <1>6, <1>7, <1>8, <1>9, <1>10, <1>11, <1>12, <1>13
    DEF Next, Irq, Tasklet, User

\* A step that clears `full' or parks the interrupt leaves someone to look at it.
LEMMA FlagsStep ==
  ASSUME TypeOK, IInv, [Next]_vars
  PROVE  FullNoted' /\ ParkNoted' /\ (~SMP => ParkedIsSeen)'
  <1> USE DEF TypeOK, DriverType, FullNoted, ParkNoted, ParkedIsSeen, LockFree,
              irqVars, tlVars, usrVars, flags
  <1>1. FullNoted /\ ParkNoted /\ (~SMP => ParkedIsSeen)
    BY DEF IInv
  <1>2. CASE IrqEnter
    BY <1>1, <1>2 DEF IrqEnter
  <1>3. CASE IrqPark
    BY <1>1, <1>3 DEF IrqPark
  <1>4. CASE TaskletBegin \/ TaskletReceive \/ TaskletCommit \/ TaskletFull
    BY <1>1, <1>4 DEF TaskletBegin, TaskletReceive, TaskletCommit, TaskletFull
  <1>5. CASE TaskletSend
    BY <1>1, <1>5 DEF TaskletSend
  <1>6. CASE TaskletEnable
    BY <1>1, <1>6 DEF TaskletEnable
  <1>7. CASE StartLock \/ CutLock
    BY <1>1, <1>7 DEF StartLock, CutLock, ProcessMayRun
  <1>8. CASE StartIrq \/ CutIrq
    BY <1>1, <1>8 DEF StartIrq, CutIrq, UnparkIrq
  <1>9. CASE FrameReady \/ Launch \/ ReadFront \/ StartEnter \/ Receive \/ TakeFrame
               \/ Deliver \/ CutEnter \/ Crash
    BY <1>1, <1>9
    DEF FrameReady, Launch, ReadFront, StartEnter, Receive, TakeFrame, Deliver,
        CutEnter, Crash
  <1>10. CASE UNCHANGED vars
    BY <1>1, <1>10 DEF vars
  <1> QED
    BY <1>2, <1>3, <1>4, <1>5, <1>6, <1>7, <1>8, <1>9, <1>10
    DEF Next, Irq, Tasklet, User

-----------------------------------------------------------------------------
(* Who is signalled, and how many signals are under way. *)

\* A step keeps the process the driver signals the one that last spoke to it.
LEMMA AddressedStep ==
  ASSUME TypeOK, IInv, [Next]_vars
  PROVE  Addressed'
  <1> USE DEF Addressed, Attached, usrVars, flags
  <1>1. Addressed
    BY DEF IInv
  <1>2. CASE TaskletSend
    BY <1>1, <1>2 DEF TaskletSend, netlink_send_signal, Reachable
  <1>3. CASE Launch
    BY <1>1, <1>3, PidsAssumption DEF Launch
  <1>4. CASE ReadFront \/ StartEnter \/ StartLock
    BY <1>1, <1>4 DEF ReadFront, StartEnter, StartLock
  <1>5. CASE StartIrq \/ CutIrq
    BY <1>1, <1>5 DEF StartIrq, CutIrq, UnparkIrq
  <1>6. CASE Receive \/ TakeFrame \/ Deliver
    BY <1>1, <1>6 DEF Receive, TakeFrame, Deliver
  <1>7. CASE CutEnter \/ CutLock
    BY <1>1, <1>7 DEF CutEnter, CutLock
  <1>8. CASE Crash
    BY <1>1, <1>8 DEF Crash
  <1>9. CASE FrameReady \/ Irq
    BY <1>1, <1>9 DEF FrameReady, Irq, IrqEnter, IrqPark
  <1>10. CASE TaskletBegin \/ TaskletReceive \/ TaskletCommit \/ TaskletFull
                \/ TaskletEnable
    BY <1>1, <1>10
    DEF TaskletBegin, TaskletReceive, TaskletCommit, TaskletFull, TaskletEnable
  <1>11. CASE UNCHANGED vars
    BY <1>1, <1>11 DEF vars
  <1> QED
    BY <1>2, <1>3, <1>4, <1>5, <1>6, <1>7, <1>8, <1>9, <1>10, <1>11
    DEF Next, Tasklet, User

\* A step neither makes nor loses a signal, but for the start message's one more.
LEMMA SignalsStep ==
  ASSUME TypeOK, IInv, [Next]_vars
  PROVE  SignalsConserved'
  <1>1. Len(notif) \in Nat /\ hasSend \in BOOLEAN /\ lost \in BOOLEAN
    BY DEF TypeOK, UserType, DriverType
  <1>2. SignalsConserved
    BY DEF IInv
  <1> USE <1>1, <1>2
      DEF SignalsConserved, StartAhead, Unanswered, Permission, Attached, usrVars, flags
  <1>3. CASE TaskletSend
    <2>1. CASE hasSend
      BY <1>3, <2>1 DEF TaskletSend
    <2>2. CASE ~hasSend /\ notif' = Append(notif, pos)
      BY <1>3, <2>2, SignalSent
      DEF TaskletSend, TypeOK, UserType, DriverType
    <2>3. CASE ~hasSend /\ notif' = notif
      <3>1. Attached \/ StartAhead
        BY DEF TypeOK, UserType
      <3>2. lost' \/ StartAhead
        BY <1>3, <2>3, <3>1
        DEF TaskletSend, netlink_send_signal, Reachable, IInv, Addressed
      <3> QED BY <1>3, <2>3, <3>2 DEF TaskletSend
    <2> QED
      BY <1>3, <2>1, <2>2, <2>3 DEF TaskletSend, netlink_send_signal
  <1>4. CASE Launch
    BY <1>4 DEF Launch
  <1>5. CASE ReadFront
    BY <1>5 DEF ReadFront
  <1>6. CASE StartEnter
    BY <1>6 DEF StartEnter
  <1>7. CASE StartLock
    BY <1>7 DEF StartLock
  <1>8. CASE StartIrq
    BY <1>8 DEF StartIrq, UnparkIrq
  <1>9. CASE Receive
    BY <1>9, SignalReceived DEF Receive, TypeOK, UserType
  <1>10. CASE TakeFrame
    BY <1>10 DEF TakeFrame
  <1>11. CASE Deliver
    BY <1>11 DEF Deliver
  <1>12. CASE CutEnter
    BY <1>12 DEF CutEnter
  <1>13. CASE CutLock
    BY <1>13 DEF CutLock
  <1>14. CASE CutIrq
    BY <1>14 DEF CutIrq, UnparkIrq
  <1>15. CASE Crash
    BY <1>15, NoSignals DEF Crash
  <1>16. CASE UNCHANGED <<notif, hasSend, lost, upc>>
    BY <1>16
  <1>17. CASE FrameReady \/ Irq
    BY <1>16, <1>17 DEF FrameReady, Irq, IrqEnter, IrqPark
  <1>18. CASE TaskletBegin \/ TaskletReceive \/ TaskletCommit \/ TaskletFull
                \/ TaskletEnable
    BY <1>16, <1>18
    DEF TaskletBegin, TaskletReceive, TaskletCommit, TaskletFull, TaskletEnable
  <1> QED
    BY <1>3, <1>4, <1>5, <1>6, <1>7, <1>8, <1>9, <1>10, <1>11, <1>12, <1>13, <1>14, <1>15, <1>16, <1>17, <1>18
    DEF Next, Tasklet, User, vars

-----------------------------------------------------------------------------
(* The indices of the ring. *)

\* rear is len frames after front exactly when its distance from front is len.
LEMMA RearIff ==
  ASSUME NEW a \in Slots, NEW b \in Slots, NEW k \in Slots
  PROVE  b = (a + k) % StreamLen <=> Dist(a, b) = k
  BY DistWalk, DistUnique

\* What RingConsistent says in terms of distances.
LEMMA RearDist ==
  ASSUME TypeOK, RingConsistent
  PROVE  Dist(front, rear) = len
  BY RearIff DEF TypeOK, RingType, RingConsistent, Slots

\* Only the commit and the answer move the ring's words, and both keep them agreed.
LEMMA RingStep ==
  ASSUME TypeOK, IInv, [Next]_vars
  PROVE  RingConsistent'
  <1>1. RingConsistent /\ TypeOK /\ Dist(front, rear) = len
    BY RearDist DEF IInv
  <1>2. CASE UNCHANGED <<front, rear, len>>
    BY <1>1, <1>2 DEF RingConsistent
  <1>3. CASE TaskletCommit
    <2>1. pos = rear /\ len < StreamLen - 1
      BY <1>3 DEF TaskletCommit, IInv, TaskletNoted
    <2>2. front \in Slots /\ rear \in Slots /\ len \in Slots /\ len + 1 \in Slots
      BY <2>1, StreamLenAssumption DEF TypeOK, RingType, Slots
    <2>3. Dist(front, (rear + 1) % StreamLen) = len + 1
          /\ (rear + 1) % StreamLen \in Slots
      BY <1>1, <2>1, <2>2, DistNext
    <2>4. (rear + 1) % StreamLen = (front + (len + 1)) % StreamLen
      BY <2>2, <2>3, RearIff
    <2> QED
      BY <1>3, <2>1, <2>4 DEF TaskletCommit, RingConsistent
  <1>4. CASE CutLock
    <2>1. front_dif = Dist(front, last_front) /\ front_dif <= len
      BY <1>4, DistCases DEF CutLock, IInv, UserNoted, Consumed, SignalsInWindow,
            TypeOK, RingType, UserType, Slots
    <2>2. front \in Slots /\ rear \in Slots /\ last_front \in Slots
          /\ len - front_dif \in Slots
      BY <2>1, StreamLenAssumption DEF TypeOK, RingType, UserType, Slots
    <2>3. Dist(last_front, rear) = len - front_dif
      BY <1>1, <2>1, <2>2, DistShift
    <2>4. rear = (last_front + (len - front_dif)) % StreamLen
      BY <2>2, <2>3, RearIff
    <2> QED
      BY <1>4, <2>4 DEF CutLock, RingConsistent
  <1>5. CASE FrameReady \/ Irq \/ TaskletBegin \/ TaskletReceive \/ TaskletFull
               \/ TaskletSend \/ TaskletEnable \/ Launch \/ Crash
    BY <1>2, <1>5
    DEF FrameReady, Irq, IrqEnter, IrqPark, TaskletBegin, TaskletReceive,
        TaskletFull, TaskletSend, TaskletEnable, Launch, Crash, ring
  <1>6. CASE ReadFront \/ StartEnter \/ StartLock \/ StartIrq \/ Receive \/ TakeFrame
               \/ Deliver \/ CutEnter \/ CutIrq
    BY <1>2, <1>6
    DEF ReadFront, StartEnter, StartLock, StartIrq, Receive, TakeFrame, Deliver,
        CutEnter, CutIrq, UnparkIrq, ring
  <1> QED
    BY <1>2, <1>3, <1>4, <1>5, <1>6 DEF Next, Tasklet, User, vars, ring

\* What the user's thread and netlink_recv_msg noted holds until they use it.
LEMMA UserStep ==
  ASSUME TypeOK, IInv, [Next]_vars
  PROVE  UserNoted'
  <1>1. UserNoted
    BY DEF IInv
  <1>2. front \in Slots /\ last_front \in Slots /\ todo \in Nat
    BY DEF TypeOK, RingType, UserType, Slots
  <1> USE DEF UserNoted
  <1>3. CASE UNCHANGED <<front, upc, last_front, todo, front_dif>>
    BY <1>1, <1>3
  <1>4. CASE Launch \/ ReadFront
    <2>1. upc' \in {"boot", "begin"} /\ todo' = todo /\ front' = front
          /\ (upc' = "begin" => last_front' = front)
          /\ upc \notin {"loop", "hold"}
      BY <1>4 DEF Launch, ReadFront, ring
    <2> QED
      BY <1>1, <1>2, <2>1
  <1>5. CASE StartEnter \/ StartLock
    BY <1>1, <1>2, <1>5 DEF StartEnter, StartLock, usrVars, ring
  <1>6. CASE StartIrq \/ CutIrq
    BY <1>1, <1>2, <1>6 DEF StartIrq, CutIrq, UnparkIrq, ring
  <1>7. CASE Receive
    BY <1>1, <1>2, <1>7 DEF Receive, ring
  <1>8. CASE TakeFrame
    <2>a. Consumed = Dist(front, last_front)
      BY <1>8 DEF TakeFrame, Consumed
    <2>b. Dist(front, last_front) + todo <= len /\ Dist(front, last_front) \in Nat
      BY <1>2, <2>a, DistCases DEF IInv, SignalsInWindow, Slots
    <2>1. Dist(front, last_front) < StreamLen - 1
      BY <1>2, <1>8, <2>b, StreamLenAssumption
      DEF TakeFrame, TypeOK, RingType, Slots
    <2>2. Dist(front, last_front') >= 1
      BY <1>2, <1>8, <2>1, DistNext, DistCases DEF TakeFrame, Slots
    <2> QED
      BY <1>8, <2>2 DEF TakeFrame, ring
  <1>9. CASE Deliver
    BY <1>1, <1>2, <1>9 DEF Deliver, ring, usrVars
  <1>10. CASE CutEnter
    BY <1>1, <1>2, <1>10 DEF CutEnter, ring
  <1>11. CASE CutLock
    BY <1>1, <1>2, <1>11 DEF CutLock
  <1>12. CASE Crash
    BY <1>1, <1>2, <1>12 DEF Crash, ring
  <1>13. CASE FrameReady \/ Irq \/ Tasklet
    BY <1>3, <1>13
    DEF FrameReady, Irq, IrqEnter, IrqPark, Tasklet, TaskletBegin, TaskletReceive,
        TaskletCommit, TaskletFull, TaskletSend, TaskletEnable, ring, usrVars
  <1> QED
    BY <1>3, <1>4, <1>5, <1>6, <1>7, <1>8, <1>9, <1>10, <1>11, <1>12, <1>13
    DEF Next, User, vars, ring, usrVars

-----------------------------------------------------------------------------
(* The window of indices: from f, c frames are or will be read, the        *)
(* signals s follow in order, and l frames are there.                      *)

Window(f, c, s, l) ==
  /\ c <= l
  /\ \A i \in 1 .. Len(s) :
       /\ c <= Dist(f, s[i])
       /\ Dist(f, s[i]) <= l
       /\ \A j \in 1 .. i : Dist(f, s[j]) <= Dist(f, s[i])

\* A signal for a slot past all others goes to the end of the window.
LEMMA WindowSend ==
  ASSUME NEW f \in Slots, NEW c \in Nat, NEW s \in Seq(Slots), NEW l \in Nat,
         NEW x \in Slots, Window(f, c, s, l), c <= Dist(f, x), Dist(f, x) <= l,
         \A i \in 1 .. Len(s) : Dist(f, s[i]) <= Dist(f, x)
  PROVE  Window(f, c, Append(s, x), l)
  <1> DEFINE t == Append(s, x)
  <1>1. /\ Len(t) = Len(s) + 1 /\ Len(s) \in Nat
        /\ \A i \in 1 .. Len(s) : t[i] = s[i]
        /\ t[Len(s) + 1] = x
    BY SignalSent
  <1> HIDE DEF t
  <1>2. Dist(f, x) <= Dist(f, x)
    BY DistCases DEF Slots
  <1>3. ASSUME NEW i \in 1 .. Len(t)
        PROVE  /\ c <= Dist(f, t[i]) /\ Dist(f, t[i]) <= l
               /\ \A j \in 1 .. i : Dist(f, t[j]) <= Dist(f, t[i])
    <2>1. CASE i \in 1 .. Len(s)
      <3>1. \A j \in 1 .. i : j \in 1 .. Len(s)
        BY <1>1, <2>1
      <3> QED BY <1>1, <2>1, <3>1 DEF Window
    <2>2. CASE i = Len(s) + 1
      <3>1. \A j \in 1 .. i : j \in 1 .. Len(s) \/ j = Len(s) + 1
        BY <1>1, <2>2
      <3> QED BY <1>1, <1>2, <2>2, <3>1 DEF Window
    <2> QED BY <1>1, <2>1, <2>2
  <1>4. Window(f, c, t, l)
    BY <1>3 DEF Window
  <1> QED BY <1>4 DEF t

\* Reading up to the oldest signal leaves the others in order.
LEMMA WindowReceive ==
  ASSUME NEW f \in Slots, NEW c \in Nat, NEW s \in Seq(Slots), NEW l \in Nat,
         Window(f, c, s, l), s # << >>
  PROVE  /\ c <= Dist(f, Head(s)) /\ Dist(f, Head(s)) <= l
         /\ Window(f, Dist(f, Head(s)), Tail(s), l)
  <1> DEFINE t == Tail(s)
  <1>1. /\ Len(s) \in Nat /\ Len(s) >= 1 /\ Len(t) = Len(s) - 1
        /\ Head(s) = s[1]
        /\ \A i \in 1 .. Len(s) - 1 : t[i] = s[i + 1]
    BY SignalReceived
  <1> HIDE DEF t
  <1>2. c <= Dist(f, s[1]) /\ Dist(f, s[1]) <= l
    BY <1>1 DEF Window
  <1>3. ASSUME NEW i \in 1 .. Len(t)
        PROVE  /\ Dist(f, s[1]) <= Dist(f, t[i]) /\ Dist(f, t[i]) <= l
               /\ \A j \in 1 .. i : Dist(f, t[j]) <= Dist(f, t[i])
    <2>1. i + 1 \in 1 .. Len(s) /\ t[i] = s[i + 1] /\ 1 \in 1 .. i + 1
      BY <1>1
    <2>2. Dist(f, s[1]) <= Dist(f, t[i]) /\ Dist(f, t[i]) <= l
      BY <2>1 DEF Window
    <2>3. ASSUME NEW j \in 1 .. i PROVE Dist(f, t[j]) <= Dist(f, t[i])
      <3>1. j + 1 \in 1 .. i + 1 /\ t[j] = s[j + 1]
        BY <1>1
      <3> QED BY <2>1, <3>1 DEF Window
    <2> QED BY <2>2, <2>3
  <1>4. Window(f, Dist(f, s[1]), t, l)
    BY <1>2, <1>3 DEF Window
  <1> QED BY <1>1, <1>2, <1>4 DEF t

\* An answer moves the origin to what has been read.
LEMMA WindowCut ==
  ASSUME NEW f \in Slots, NEW b \in Slots, NEW s \in Seq(Slots), NEW l \in Nat,
         Window(f, Dist(f, b), s, l)
  PROVE  Window(b, 0, s, l - Dist(f, b))
  <1>1. Dist(f, b) \in Nat /\ Dist(f, b) <= l /\ Len(s) \in Nat
    BY DistCases DEF Window, Slots
  <1>2. ASSUME NEW i \in 1 .. Len(s)
        PROVE  /\ Dist(b, s[i]) = Dist(f, s[i]) - Dist(f, b)
               /\ Dist(b, s[i]) \in Nat /\ Dist(f, s[i]) \in Nat
    <2>1. s[i] \in Slots
      OBVIOUS
    <2>2. Dist(f, b) <= Dist(f, s[i])
      BY DEF Window
    <2>3. Dist(b, s[i]) = Dist(f, s[i]) - Dist(f, b)
      BY <2>1, <2>2, DistShift
    <2>4. Dist(b, s[i]) \in Nat /\ Dist(f, s[i]) \in Nat
      BY <2>1, DistNat
    <2> QED
      BY <2>3, <2>4
  <1>3. ASSUME NEW i \in 1 .. Len(s)
        PROVE  /\ 0 <= Dist(b, s[i]) /\ Dist(b, s[i]) <= l - Dist(f, b)
               /\ \A j \in 1 .. i : Dist(b, s[j]) <= Dist(b, s[i])
    <2>1. 0 <= Dist(b, s[i]) /\ Dist(b, s[i]) <= l - Dist(f, b)
      BY <1>1, <1>2 DEF Window
    <2>2. ASSUME NEW j \in 1 .. i PROVE Dist(b, s[j]) <= Dist(b, s[i])
      <3>1. j \in 1 .. Len(s)
        BY <1>1
      <3>2. Dist(f, s[j]) <= Dist(f, s[i])
        BY DEF Window
      <3> QED BY <1>1, <1>2, <3>1, <3>2
    <2> QED BY <2>1, <2>2
  <1> QED BY <1>1, <1>3 DEF Window

\* A frame committed makes room at the end.
LEMMA WindowCommit ==
  ASSUME NEW f \in Slots, NEW c \in Nat, NEW s \in Seq(Slots), NEW l \in Nat,
         Window(f, c, s, l)
  PROVE  Window(f, c, s, l + 1)
  <1>1. \A i \in 1 .. Len(s) : Dist(f, s[i]) \in Nat
    BY DistNat
  <1> QED BY <1>1 DEF Window

\* The frames the user has read or is about to read.
Reach == Consumed + todo

\* SignalsInWindow and the tasklet's note are statements about the window.
LEMMA WindowForm ==
  /\ SignalsInWindow <=> Window(front, Reach, notif, len)
  /\ SignalsInWindow' <=> Window(front', Reach', notif', len')
  BY DEF SignalsInWindow, Window, Reach

\* The types the window's lemmas ask for.
LEMMA WindowTypes ==
  ASSUME TypeOK
  PROVE  /\ front \in Slots /\ rear \in Slots /\ pos \in Slots /\ last_front \in Slots
         /\ len \in Nat /\ todo \in Nat /\ Consumed \in Nat /\ Reach \in Nat
         /\ notif \in Seq(Slots)
  <1>1. front \in Slots /\ rear \in Slots /\ pos \in Slots /\ last_front \in Slots
        /\ len \in Nat /\ notif \in Seq(Slots)
    BY DEF TypeOK, RingType, DriverType, UserType
  <1>2. todo \in Nat
    BY DEF TypeOK, UserType, Slots
  <1>3. Consumed \in Nat
    BY <1>1, DistNat DEF Consumed
  <1> QED BY <1>1, <1>2, <1>3 DEF Reach

\* What the user will have read does not move while its thread only walks.
LEMMA ReachKept ==
  ASSUME TypeOK, IInv,
         Launch \/ ReadFront \/ StartEnter \/ StartLock \/ StartIrq \/ TakeFrame
           \/ Deliver \/ CutEnter \/ CutIrq
  PROVE  Reach' = Reach
  <1>1. UserNoted
    BY DEF IInv
  <1> USE WindowTypes DEF Reach, Consumed, usrVars, ring
  <1>2. CASE Launch
    BY <1>2 DEF Launch
  <1>3. CASE ReadFront
    <2>1. Dist(front, front) = 0
      BY DistUnique
    <2>2. Consumed' = 0 /\ Consumed = 0 /\ todo' = todo
      BY <1>3, <2>1 DEF ReadFront
    <2> QED BY <2>2
  <1>4. CASE StartEnter
    BY <1>4 DEF StartEnter
  <1>5. CASE StartLock
    BY <1>5 DEF StartLock
  <1>6. CASE StartIrq
    BY <1>6 DEF StartIrq, UnparkIrq
  <1>7. CASE TakeFrame
    <2>1. Consumed = Dist(front, last_front) /\ todo > 0 /\ todo' = todo - 1
          /\ Consumed' = Dist(front, (last_front + 1) % StreamLen)
      BY <1>7 DEF TakeFrame
    <2>2. Consumed + todo <= len /\ len <= StreamLen - 1
      BY StreamLenAssumption DEF IInv, SignalsInWindow, TypeOK, RingType
    <2>3. Dist(front, last_front) < StreamLen - 1
      BY <2>1, <2>2, StreamLenAssumption
    <2>4. Consumed' = Consumed + 1
      BY <2>1, <2>3, DistNext
    <2> QED BY <2>1, <2>4
  <1>8. CASE Deliver
    BY <1>8 DEF Deliver
  <1>9. CASE CutEnter
    BY <1>9 DEF CutEnter
  <1>10. CASE CutIrq
    BY <1>10 DEF CutIrq, UnparkIrq
  <1> QED
    BY <1>2, <1>3, <1>4, <1>5, <1>6, <1>7, <1>8, <1>9, <1>10

\* Every step keeps the indices under way in ring order.
LEMMA WindowStep ==
  ASSUME TypeOK, IInv, [Next]_vars
  PROVE  SignalsInWindow'
  <1>1. Window(front, Reach, notif, len)
    BY WindowForm DEF IInv
  <1> USE WindowTypes
  <1>2. CASE UNCHANGED <<front, len, notif>> /\ Reach' = Reach
    BY <1>1, <1>2, WindowForm
  <1>3. CASE UNCHANGED <<front, len, notif, upc, last_front, todo>>
    <2>1. Reach' = Reach
      BY <1>3 DEF Reach, Consumed
    <2> QED BY <1>2, <1>3, <2>1
  <1>4. CASE TaskletCommit
    <2>1. Reach' = Reach
      BY <1>4 DEF TaskletCommit, Reach, Consumed, usrVars
    <2>2. Window(front, Reach, notif, len + 1)
      BY <1>1, WindowCommit
    <2> QED
      BY <1>4, <2>1, <2>2, WindowForm DEF TaskletCommit
  <1>5. CASE TaskletSend
    <2>1. CASE notif' = notif
      BY <1>3, <1>5, <2>1 DEF TaskletSend, ring, usrVars
    <2>2. CASE notif' = Append(notif, pos)
      <3>1. /\ Reach <= Dist(front, pos) /\ Dist(front, pos) <= len
            /\ \A i \in 1 .. Len(notif) : Dist(front, notif[i]) <= Dist(front, pos)
        BY <1>5 DEF TaskletSend, IInv, TaskletNoted, Reach
      <3>2. Window(front, Reach, Append(notif, pos), len)
        BY <1>1, <3>1, WindowSend
      <3>3. Reach' = Reach /\ front' = front /\ len' = len
        BY <1>5 DEF TaskletSend, Reach, Consumed, ring, usrVars
      <3> QED BY <2>2, <3>2, <3>3, WindowForm
    <2> QED
      BY <1>5, <2>1, <2>2 DEF TaskletSend, netlink_send_signal
  <1>6. CASE Receive
    <2>1. Reach = Dist(front, last_front) /\ Head(notif) \in Slots
      BY <1>6, DistNat, SignalReceived
      DEF Receive, Reach, Consumed, IInv, UserNoted
    <2>2. /\ Reach <= Dist(front, Head(notif))
          /\ Window(front, Dist(front, Head(notif)), Tail(notif), len)
      BY <1>1, <1>6, WindowReceive DEF Receive
    <2>3. todo' = Dist(front, Head(notif)) - Dist(front, last_front)
      BY <1>6, <2>1, <2>2, DistShift DEF Receive
    <2>4. Reach' = Dist(front, last_front) + todo'
      BY <1>6 DEF Receive, Reach, Consumed, ring
    <2>a. Dist(front, last_front) \in Nat /\ Dist(front, Head(notif)) \in Nat
      BY <2>1, DistNat
    <2>5. Reach' = Dist(front, Head(notif))
      BY <2>3, <2>4, <2>a
    <2> QED
      BY <1>6, <2>2, <2>5, WindowForm DEF Receive, ring
  <1>7. CASE CutLock
    <2>1. Reach = Dist(front, last_front) /\ front_dif = Dist(front, last_front)
          /\ todo = 0
      BY <1>7, DistNat DEF CutLock, Reach, Consumed, IInv, UserNoted
    <2>2. Window(last_front, 0, notif, len - front_dif)
      BY <1>1, <2>1, WindowCut
    <2>3. Reach' = 0
      BY <1>7, <2>1, DistUnique DEF CutLock, Reach, Consumed
    <2> QED
      BY <1>7, <2>2, <2>3, WindowForm DEF CutLock
  <1>8. CASE Crash
    <2>1. Reach' = 0 /\ notif' = << >> /\ len' = len
      BY <1>8 DEF Crash, Reach, Consumed, ring
    <2> QED
      BY <2>1, WindowForm, NoSignals DEF Window
  <1>9. CASE Launch \/ ReadFront \/ StartEnter \/ StartLock \/ StartIrq
               \/ TakeFrame \/ Deliver \/ CutEnter \/ CutIrq
    <2>1. UNCHANGED <<front, len, notif>>
      BY <1>9
      DEF Launch, ReadFront, StartEnter, StartLock, StartIrq, TakeFrame, Deliver,
          CutEnter, CutIrq, UnparkIrq, ring
    <2> QED BY <1>2, <1>9, <2>1, ReachKept
  <1>10. CASE FrameReady \/ Irq
    BY <1>3, <1>10 DEF FrameReady, Irq, IrqEnter, IrqPark, ring, usrVars
  <1>11. CASE TaskletBegin \/ TaskletReceive \/ TaskletFull \/ TaskletEnable
    BY <1>3, <1>11
    DEF TaskletBegin, TaskletReceive, TaskletFull, TaskletEnable, ring, usrVars
  <1> QED
    BY <1>3, <1>4, <1>5, <1>6, <1>7, <1>8, <1>9, <1>10, <1>11
    DEF Next, Tasklet, User, vars, ring, usrVars

\* The tasklet's index, seen from the user: what a step of the user's thread
\* may not disturb while the tasklet is under way.
LEMMA NotedStep ==
  ASSUME TypeOK, IInv, [Next]_vars
  PROVE  TaskletNoted'
  <1>1. TaskletNoted /\ Window(front, Reach, notif, len) /\ Dist(front, rear) = len
    BY WindowForm, RearDist DEF IInv
  <1> USE WindowTypes DEF TaskletNoted
  <1>2. CASE UNCHANGED <<front, len, rear, tpc, pos, notif>> /\ Reach' = Reach
    BY <1>1, <1>2 DEF Reach
  <1>3. CASE UNCHANGED <<front, len, rear, tpc, pos, notif, upc, last_front, todo>>
    <2>1. Reach' = Reach
      BY <1>3 DEF Reach, Consumed
    <2> QED BY <1>2, <1>3, <2>1
  <1>4. CASE TaskletBegin
    <2>1. Reach' = Reach /\ pos' = rear /\ UNCHANGED <<front, len, notif, rear>>
      BY <1>4 DEF TaskletBegin, Reach, Consumed, ring, usrVars
    <2>2. tpc' = "full" \/ (tpc' = "receive" /\ len < StreamLen - 1)
      BY <1>4, StreamLenAssumption DEF TaskletBegin, Sequeue_Full
    <2> QED
      BY <1>1, <2>1, <2>2 DEF Reach, Window
  <1>5. CASE TaskletReceive
    <2>1. Reach' = Reach /\ UNCHANGED <<front, len, rear, pos, notif>>
      BY <1>5 DEF TaskletReceive, Reach, Consumed, usrVars
    <2> QED
      BY <1>1, <1>5, <2>1 DEF TaskletReceive, Reach
  <1>6. CASE TaskletCommit
    <2>1. Reach' = Reach /\ UNCHANGED <<front, pos, notif>> /\ tpc' = "send"
          /\ len' = len + 1
      BY <1>6 DEF TaskletCommit, Reach, Consumed, usrVars
    <2>2. /\ Reach <= Dist(front, pos) /\ Dist(front, pos) <= len
          /\ \A i \in 1 .. Len(notif) : Dist(front, notif[i]) <= Dist(front, pos)
      BY <1>1, <1>6 DEF TaskletCommit, Reach
    <2>a. Dist(front, pos) \in Nat
      BY DistNat
    <2>3. Dist(front, pos) <= len + 1
      BY <2>2, <2>a
    <2> QED
      BY <2>1, <2>2, <2>3 DEF Reach
  <1>7. CASE TaskletFull
    <2>1. Reach' = Reach /\ UNCHANGED <<front, len, pos, notif>> /\ tpc' = "send"
      BY <1>7 DEF TaskletFull, Reach, Consumed, ring, usrVars
    <2> QED
      BY <1>1, <1>7, <2>1 DEF TaskletFull, Reach
  <1>8. CASE TaskletSend \/ TaskletEnable
    BY <1>8 DEF TaskletSend, TaskletEnable
  <1>9. CASE Receive
    <2>1. UNCHANGED <<front, len, rear, pos, tpc>> /\ notif' = Tail(notif)
          /\ notif # << >>
      BY <1>9 DEF Receive, ring, tlVars
    <2>2. Reach' = Dist(front, Head(notif))
      <3>1. Reach = Dist(front, last_front) /\ Head(notif) \in Slots
        BY <1>9, DistNat, SignalReceived
        DEF Receive, Reach, Consumed, IInv, UserNoted
      <3>2. Reach <= Dist(front, Head(notif))
        BY <1>1, <2>1, WindowReceive
      <3>3. todo' = Dist(front, Head(notif)) - Dist(front, last_front)
        BY <1>9, <3>1, <3>2, DistShift DEF Receive
      <3>4. Reach' = Dist(front, last_front) + todo'
        BY <1>9 DEF Receive, Reach, Consumed, ring
      <3>5. Dist(front, last_front) \in Nat /\ Dist(front, Head(notif)) \in Nat
        BY <3>1, DistNat
      <3> QED BY <3>3, <3>4, <3>5
    <2>3. /\ Head(notif) = notif[1] /\ 1 \in 1 .. Len(notif)
          /\ \A i \in 1 .. Len(notif') : i + 1 \in 1 .. Len(notif)
                                         /\ notif'[i] = notif[i + 1]
      BY <2>1, SignalReceived
    <2> QED
      BY <1>1, <2>1, <2>2, <2>3 DEF Reach
  <1>10. CASE CutLock
    <2>1. Reach = Dist(front, last_front) /\ front_dif = Dist(front, last_front)
          /\ UNCHANGED <<rear, pos, tpc, notif>> /\ front' = last_front
          /\ len' = len - Dist(front, last_front) /\ Reach' = 0
      <3>1. /\ upc = "cut_lock" /\ upc' = "cut_irq" /\ todo' = todo
            /\ front' = last_front /\ last_front' = last_front
            /\ len' = len - front_dif /\ UNCHANGED <<rear, pos, tpc, notif>>
        BY <1>10 DEF CutLock, tlVars
      <3>2. front_dif = Dist(front, last_front) /\ todo = 0
        BY <3>1, WindowTypes DEF IInv, UserNoted
      <3>3. Consumed = Dist(front, last_front)
        BY <3>1 DEF Consumed
      <3>4. Consumed' = 0
        BY <3>1, WindowTypes, DistUnique DEF Consumed
      <3>5. Dist(front, last_front) \in Nat
        BY WindowTypes, DistNat
      <3> QED BY <3>1, <3>2, <3>3, <3>4, <3>5 DEF Reach
    <2>2. tpc \in {"receive", "commit"} => pos = rear /\ len' < StreamLen - 1
      BY <1>1, <2>1, DistNat, StreamLenAssumption
    <2>3. ASSUME tpc \in {"receive", "commit", "full", "send"}
          PROVE  /\ Reach' <= Dist(front', pos') /\ Dist(front', pos') <= len'
                 /\ \A i \in 1 .. Len(notif') :
                      Dist(front', notif'[i]) <= Dist(front', pos')
      <3>1. /\ Dist(front, last_front) <= Dist(front, pos)
            /\ Dist(front, pos) <= len
        BY <1>1, <2>1, <2>3 DEF Reach
      <3>2. Dist(last_front, pos) = Dist(front, pos) - Dist(front, last_front)
        BY <3>1, DistShift
      <3>3. /\ Dist(front, pos) \in Nat /\ Dist(last_front, pos) \in Nat
            /\ Dist(front, last_front) \in Nat
        BY DistNat
      <3>4. 0 <= Dist(last_front, pos) /\ Dist(last_front, pos) <= len'
        BY <2>1, <3>1, <3>2, <3>3
      <3>5. ASSUME NEW i \in 1 .. Len(notif)
            PROVE  Dist(last_front, notif[i]) <= Dist(last_front, pos)
        <4>1. notif[i] \in Slots
          OBVIOUS
        <4>2. /\ Dist(front, last_front) <= Dist(front, notif[i])
              /\ Dist(front, notif[i]) <= Dist(front, pos)
          BY <1>1, <2>1, <2>3 DEF Window, Reach
        <4>3. Dist(last_front, notif[i]) =
                Dist(front, notif[i]) - Dist(front, last_front)
          BY <4>1, <4>2, DistShift
        <4>4. Dist(front, notif[i]) \in Nat
          BY <4>1, DistNat
        <4> QED BY <3>2, <3>3, <4>2, <4>3, <4>4
      <3> QED BY <2>1, <3>4, <3>5
    <2> QED
      BY <1>1, <2>1, <2>2, <2>3 DEF Reach
  <1>11. CASE Crash
    <2>1. Reach' = 0 /\ notif' = << >> /\ UNCHANGED <<front, rear, len, pos, tpc>>
      BY <1>11 DEF Crash, Reach, Consumed, ring, tlVars
    <2>2. 0 <= Dist(front, pos)
      BY DistNat
    <2> QED
      BY <1>1, <2>1, <2>2, NoSignals DEF Reach
  <1>12. CASE Launch \/ ReadFront \/ StartEnter \/ StartLock \/ StartIrq
               \/ TakeFrame \/ Deliver \/ CutEnter \/ CutIrq
    <2>1. UNCHANGED <<front, len, rear, tpc, pos, notif>>
      BY <1>12
      DEF Launch, ReadFront, StartEnter, StartLock, StartIrq, TakeFrame, Deliver,
          CutEnter, CutIrq, UnparkIrq, ring, tlVars
    <2> QED BY <1>2, <1>12, <2>1, ReachKept
  <1>13. CASE FrameReady \/ Irq
    BY <1>3, <1>13 DEF FrameReady, Irq, IrqEnter, IrqPark, ring, tlVars, usrVars
  <1> QED
    BY <1>3, <1>4, <1>5, <1>6, <1>7, <1>8, <1>9, <1>10, <1>11, <1>12, <1>13
    DEF Next, Tasklet, User, vars, ring, tlVars, usrVars

-----------------------------------------------------------------------------
(* The theorems. *)

\* The driver starts with an empty ring, the interrupt unmasked and no listener.
LEMMA InitInv == Init => TypeOK /\ IInv
  <1> SUFFICES ASSUME Init PROVE TypeOK /\ IInv
    OBVIOUS
  <1> USE DEF Init
  <1>1. RingType /\ DriverType /\ UserType
    BY ZeroSlot, NoSignals, StreamLenAssumption
    DEF RingType, DriverType, UserType
  <1>2. Len(notif) = 0
    BY NoSignals
  <1>3. 0 = (0 + 0) % StreamLen /\ 0 \in Nat
    BY ZeroSlot, ModStep, StreamLenAssumption
  <1>4. RingConsistent
    BY <1>3 DEF RingConsistent
  <1>5. OneWakeToken
    BY TokensEquiv DEF Tokens
  <1>6. FrameKept /\ UserNoted /\ TaskletNoted /\ FullNoted /\ ParkNoted /\ ParkedIsSeen
    BY DEF FrameKept, UserNoted, TaskletNoted, FullNoted, ParkNoted, ParkedIsSeen
  <1>7. SignalsInWindow
    BY <1>2 DEF SignalsInWindow, Consumed
  <1>8. Addressed
    BY PidsAssumption DEF Addressed, Attached
  <1>9. SignalsConserved
    BY <1>2 DEF SignalsConserved, StartAhead, Unanswered, Permission, Attached
  <1> QED
    BY <1>1, <1>4, <1>5, <1>6, <1>7, <1>8, <1>9 DEF TypeOK, IInv

\* The invariant is inductive: every step of the driver and the user keeps it.
LEMMA NextInv == TypeOK /\ IInv /\ [Next]_vars => TypeOK' /\ IInv'
  <1> SUFFICES ASSUME TypeOK, IInv, [Next]_vars PROVE TypeOK' /\ IInv'
    OBVIOUS
  <1>1. TypeOK'
    BY TypeStep
  <1>2. OneWakeToken' <=> Tokens'
    BY DEF OneWakeToken, WakeTokens, Tokens
  <1>3. OneWakeToken' /\ FrameKept'
    BY <1>2, TokensStep
  <1>4. FullNoted' /\ ParkNoted' /\ (~SMP => ParkedIsSeen)'
    BY FlagsStep
  <1>5. Addressed' /\ SignalsConserved'
    BY AddressedStep, SignalsStep
  <1>6. RingConsistent' /\ UserNoted' /\ SignalsInWindow' /\ TaskletNoted'
    BY RingStep, UserStep, WindowStep, NotedStep
  <1> QED
    BY <1>1, <1>3, <1>4, <1>5, <1>6 DEF IInv

\* The inductive invariant holds in every reachable state.
THEOREM Invariance == Spec => [](TypeOK /\ IInv)
  <1> QED BY InitInv, NextInv, PTL DEF Spec

\* Every variable stays in its range: indices in the ring, its length below
\* Stream_Len (the driver's Sequeue_Full keeps one slot free).
THEOREM TypeCorrect == Spec => []TypeOK
  <1> QED BY Invariance, PTL

\* front, rear and len agree in every state another actor can see.
THEOREM RingStaysConsistent == Spec => []RingConsistent
  <1>1. IInv => RingConsistent
    BY DEF IInv
  <1> QED BY <1>1, Invariance, PTL

\* The device always has exactly one way to start again.
THEOREM WakeTokenUnique == Spec => []OneWakeToken
  <1>1. IInv => OneWakeToken
    BY DEF IInv
  <1> QED BY <1>1, Invariance, PTL

\* receive_data always finds a frame.
THEOREM FrameAlwaysThere == Spec => []FrameThere
  <1>1. IInv => FrameThere
    BY DEF IInv, FrameKept, FrameThere
  <1> QED BY <1>1, Invariance, PTL

\* The indices under way stay in ring order.
THEOREM SignalsStayInWindow == Spec => []SignalsInWindow
  <1>1. IInv => SignalsInWindow
    BY DEF IInv
  <1> QED BY <1>1, Invariance, PTL

\* The tasklet never writes where the user program reads.
THEOREM SlotsExcluded == Spec => []SlotExclusion
  <1>1. ASSUME TypeOK, IInv PROVE SlotExclusion
    <2> SUFFICES ASSUME tpc = "receive", NEW s \in UserSlots PROVE pos # s
      BY DEF SlotExclusion
    <2> USE <1>1, WindowTypes
    <2>1. pos = rear /\ Dist(front, pos) = len
      BY RearDist DEF IInv, TaskletNoted
    <2>2. Consumed + todo <= len /\ len <= StreamLen - 1
      BY StreamLenAssumption DEF IInv, SignalsInWindow, TypeOK, RingType
    <2>3. CASE upc = "hold" /\ s = Held
      <3>1. Consumed = Dist(front, last_front) /\ Consumed >= 1
        BY <2>3 DEF IInv, UserNoted, Consumed
      <3>2. Dist(front, s) = Consumed - 1
        BY <2>3, <3>1, DistPrev DEF Held
      <3> QED BY <2>1, <2>2, <3>2
    <2>4. CASE \E k \in 0 .. todo - 1 : s = (last_front + k) % StreamLen
      <3> PICK k \in 0 .. todo - 1 : s = (last_front + k) % StreamLen
        BY <2>4
      <3>1. upc \in {"loop", "hold"} /\ Consumed = Dist(front, last_front)
        BY DEF IInv, UserNoted, Consumed
      <3>2. k \in Slots
        BY <2>2, StreamLenAssumption DEF Slots
      <3>3. s \in Slots /\ Dist(last_front, s) = k
        BY <3>2, DistWalk
      <3>4. pos # s
        <4> SUFFICES ASSUME pos = s PROVE FALSE
          OBVIOUS
        <4>1. Dist(last_front, pos) = Dist(front, pos) - Dist(front, last_front)
          BY <2>1, <2>2, <3>1, DistShift
        <4> QED BY <2>1, <2>2, <3>1, <3>3, <4>1
      <3> QED BY <3>4
    <2> QED
      BY <2>3, <2>4 DEF UserSlots
  <1> QED BY <1>1, Invariance, PTL

\* The user's socket never holds more than two signals' worth of work.
THEOREM AtMostTwoSignals == Spec => []TwoSignals
  <1>1. ASSUME TypeOK, IInv PROVE TwoSignals
    <2>1. Len(notif) \in Nat
      BY <1>1 DEF TypeOK, UserType
    <2>2. Unanswered + Permission <= 2 /\ Permission \in {0, 1}
      BY <1>1 DEF IInv, SignalsConserved, StartAhead, Permission
    <2>3. Unanswered \in Nat
      BY <2>1 DEF Unanswered
    <2> QED BY <2>2, <2>3 DEF TwoSignals
  <1> QED BY <1>1, Invariance, PTL

\* A user program waiting on an empty socket is owed a signal.
THEOREM WaitersAreSignalled == Spec => []WaiterWillBeSignalled
  <1>1. ASSUME TypeOK, IInv PROVE WaiterWillBeSignalled
    <2> SUFFICES ASSUME upc = "wait", notif = << >>, ~lost, hasSend PROVE FALSE
      BY DEF WaiterWillBeSignalled
    <2>1. Unanswered >= 1
      BY <1>1 DEF IInv, SignalsConserved, StartAhead, Attached
    <2>2. Unanswered = 0
      BY NoSignals DEF Unanswered
    <2> QED BY <2>1, <2>2
  <1> QED BY <1>1, Invariance, PTL

\* On one core no parked interrupt is forgotten.
THEOREM ParkedAlwaysSeen == ~SMP => (Spec => []ParkedIsSeen)
  <1> SUFFICES ASSUME ~SMP PROVE Spec => []ParkedIsSeen
    OBVIOUS
  <1>1. IInv => ParkedIsSeen
    BY DEF IInv
  <1> QED BY <1>1, Invariance, PTL

\* The full flag is left standing only while a signal is in the program's socket or
\* being answered, the start message is yet to come, or the last signal was lost.
THEOREM FullAlwaysAnswered == Spec => []FullIsAnswered
  <1>1. ASSUME IInv PROVE FullIsAnswered
    <2> SUFFICES ASSUME full, tpc = "idle", ~lost, ~StartAhead
                 PROVE  Unanswered >= 1
      BY DEF FullIsAnswered
    <2>1. hasSend
      BY <1>1 DEF IInv, FullNoted
    <2> QED BY <1>1, <2>1 DEF IInv, SignalsConserved
  <1> QED BY <1>1, Invariance, PTL

-----------------------------------------------------------------------------
(* The invariant the refinement needs beside IInv: a frame is held out     *)
(* exactly while the clock is high, and one received is whole until it is  *)
(* committed.                                                              *)

FrameHeldOut == IF ready THEN frame \in Frames ELSE frame = NoFrame
FrameReceived == tpc = "commit" => dataspace[pos] \in Frames
FrameInv == FrameHeldOut /\ FrameReceived

\* FrameInv is inductive, given IInv: the tasklet receives only what is there.
LEMMA FrameInvStep ==
  ASSUME TypeOK, IInv, FrameInv, [Next]_vars
  PROVE  FrameInv'
  <1> USE DEF FrameInv, FrameHeldOut, FrameReceived
  <1>1. CASE FrameReady
    BY <1>1 DEF FrameReady, ring, tlVars
  <1>2. CASE TaskletReceive
    <2>1. ready /\ frame \in Frames
      BY <1>2 DEF TaskletReceive, IInv, FrameKept
    <2>2. pos \in Slots /\ dataspace \in [Slots -> Frames \cup {NoFrame}]
      BY DEF TypeOK, DriverType, RingType
    <2> QED BY <1>2, <2>1, <2>2 DEF TaskletReceive
  <1>3. CASE Irq \/ Launch \/ User \/ Crash
    <2>1. UNCHANGED <<dataspace, tlVars, fpga>>
      BY <1>3
      DEF Irq, IrqEnter, IrqPark, Launch, User, ReadFront, StartEnter, StartLock,
          StartIrq, Receive, TakeFrame, Deliver, CutEnter, CutLock, CutIrq, Crash,
          UnparkIrq, ring, fpga
    <2> QED BY <2>1 DEF tlVars, fpga
  <1>4. CASE TaskletBegin \/ TaskletCommit \/ TaskletFull \/ TaskletSend
               \/ TaskletEnable
    <2>1. UNCHANGED fpga /\ tpc' # "commit"
      BY <1>4
      DEF TaskletBegin, TaskletCommit, TaskletFull, TaskletSend, TaskletEnable
    <2> QED BY <2>1 DEF fpga
  <1>5. CASE UNCHANGED vars
    BY <1>5 DEF vars, ring, tlVars, fpga
  <1> QED
    BY <1>1, <1>2, <1>3, <1>4, <1>5 DEF Next, Tasklet

-----------------------------------------------------------------------------
(* The queue of the refinement mapping as a sequence.                      *)

\* The slot of the k-th frame.
Slot(k) == (front + k - 1) % StreamLen

\* The k-th frame lies k - 1 slots after front.
LEMMA SlotDist ==
  ASSUME TypeOK, NEW k \in 1 .. StreamLen
  PROVE  Slot(k) \in Slots /\ Dist(front, Slot(k)) = k - 1
  <1>1. k - 1 \in Slots /\ front \in Slots
    BY StreamLenAssumption DEF Slots, TypeOK, RingType
  <1>2. front + k - 1 = front + (k - 1)
    BY <1>1 DEF Slots
  <1> QED BY <1>1, <1>2, DistWalk DEF Slot

\* An element appended comes last.
LEMMA AppendForm ==
  ASSUME NEW S, NEW s \in Seq(S), NEW x \in S
  PROVE  Append(s, x)
           = [k \in 1 .. Len(s) + 1 |-> IF k = Len(s) + 1 THEN x ELSE s[k]]
  <1> DEFINE t == [k \in 1 .. Len(s) + 1 |-> IF k = Len(s) + 1 THEN x ELSE s[k]]
  <1>1. t \in Seq(S) /\ Len(t) = Len(s) + 1
    OBVIOUS
  <1>2. Append(s, x) \in Seq(S) /\ Len(Append(s, x)) = Len(s) + 1
    OBVIOUS
  <1>3. \A k \in 1 .. Len(t) : Append(s, x)[k] = t[k]
    BY <1>1
  <1> HIDE DEF t
  <1>4. Append(s, x) = t
    BY <1>1, <1>2, <1>3, SeqEqual
  <1> QED BY <1>4 DEF t

\* What is left of a sequence without its first d elements.
LEMMA SubSeqForm ==
  ASSUME NEW S, NEW s \in Seq(S), NEW d \in Nat, d <= Len(s)
  PROVE  SubSeq(s, d + 1, Len(s)) = [k \in 1 .. Len(s) - d |-> s[d + k]]
  <1> DEFINE t == [k \in 1 .. Len(s) - d |-> s[d + k]]
             r == SubSeq(s, d + 1, Len(s))
  <1>1. Len(s) \in Nat /\ Len(s) - d \in Nat
    OBVIOUS
  <1>2. \A k \in 1 .. Len(s) - d : d + k \in 1 .. Len(s)
    BY <1>1
  <1>3. t \in Seq(S) /\ Len(t) = Len(s) - d
    BY <1>1, <1>2
  <1>4. /\ r \in Seq(S)
        /\ Len(r) = IF d + 1 <= Len(s) THEN Len(s) - (d + 1) + 1 ELSE 0
        /\ \A i \in 1 .. Len(s) - (d + 1) + 1 : r[i] = s[d + 1 + i - 1]
    BY <1>1, SubSeqProperties
  <1>5. Len(r) = Len(s) - d
    BY <1>1, <1>4
  <1>6. \A i \in 1 .. Len(s) - d : r[i] = t[i]
    <2> TAKE i \in 1 .. Len(s) - d
    <2>1. r[i] = s[d + 1 + i - 1] /\ d + 1 + i - 1 = d + i
      BY <1>1, <1>4
    <2> QED BY <2>1
  <1> HIDE DEF t, r
  <1>7. r = t
    BY <1>3, <1>4, <1>5, <1>6, SeqEqual
  <1> QED BY <1>7 DEF t, r

\* Queue is a sequence of len frames.
LEMMA QueueLen ==
  ASSUME TypeOK
  PROVE  /\ len \in Nat /\ len < StreamLen
         /\ Queue \in Seq(Frames \cup {NoFrame})
         /\ Len(Queue) = len
         /\ \A k \in 1 .. len : Queue[k] = dataspace[Slot(k)]
  <1>1. len \in Nat /\ len < StreamLen
    BY StreamLenAssumption DEF TypeOK, RingType
  <1>2. \A k \in 1 .. len : dataspace[Slot(k)] \in Frames \cup {NoFrame}
    <2> TAKE k \in 1 .. len
    <2>1. Slot(k) \in Slots
      BY <1>1, SlotDist, StreamLenAssumption
    <2> QED BY <2>1 DEF TypeOK, RingType
  <1>3. Queue = [k \in 1 .. len |-> dataspace[Slot(k)]]
    BY DEF Queue, Slot
  <1> QED BY <1>1, <1>2, <1>3

\* A step that leaves the frames of the ring alone leaves the queue alone.
LEMMA QueueKept ==
  ASSUME TypeOK, front' = front, len' = len,
         \A k \in 1 .. len : dataspace'[Slot(k)] = dataspace[Slot(k)]
  PROVE  Queue' = Queue
  BY DEF Queue, Slot

\* Reading never passes the frames there are.
LEMMA ReadBounds ==
  ASSUME TypeOK, IInv
  PROVE  /\ Consumed \in Nat /\ ReadCount \in Nat /\ todo \in Nat
         /\ Consumed + todo <= len /\ ReadCount <= len
         /\ upc = "hold" => Consumed = Dist(front, last_front) /\ ReadCount < len
  <1>1. front \in Slots /\ last_front \in Slots /\ todo \in Nat /\ len \in Nat
    BY DEF TypeOK, RingType, UserType, Slots
  <1>2. Dist(front, last_front) \in Nat
    BY <1>1, DistNat
  <1>3. Consumed \in Nat /\ Consumed + todo <= len
    BY <1>2 DEF Consumed, IInv, SignalsInWindow
  <1>4. upc = "hold" => Consumed = Dist(front, last_front) /\ Consumed >= 1
    BY DEF Consumed, IInv, UserNoted
  <1> QED BY <1>1, <1>3, <1>4 DEF ReadCount

-----------------------------------------------------------------------------
(* Each step of the detailed specification is a step of the stream or      *)
(* leaves its four variables alone.                                        *)

StreamVars == <<Offered, Queue, ReadCount, Out>>

\* The FPGA offers a frame; while the last one waits for its commit, unseen.
LEMMA OfferStep ==
  ASSUME TypeOK, FrameInv, FrameReady
  PROVE  Stream!Offer \/ UNCHANGED StreamVars
  <1>1. Queue' = Queue
    BY QueueKept DEF FrameReady, ring
  <1>2. UNCHANGED <<ReadCount, Out>>
    BY DEF FrameReady, ring, usrVars, ReadCount, Consumed, Dist, Out
  <1>3. CASE tpc = "commit"
    <2>1. Offered' = Offered
      BY <1>3 DEF FrameReady, ring, tlVars, Offered
    <2> QED BY <1>1, <1>2, <2>1 DEF StreamVars
  <1>4. CASE tpc # "commit"
    <2>1. Offered = NoFrame /\ Offered' \in Frames
      BY <1>4 DEF FrameReady, tlVars, Offered, FrameInv, FrameHeldOut
    <2> QED BY <1>1, <1>2, <2>1 DEF Stream!Offer
  <1> QED BY <1>3, <1>4

\* receive_data writes the free slot: nothing in the queue changes.
LEMMA ReceiveStep ==
  ASSUME TypeOK, IInv, TaskletReceive
  PROVE  UNCHANGED StreamVars
  <1>1. ready /\ pos = rear /\ len < StreamLen - 1
    BY DEF TaskletReceive, IInv, FrameKept, TaskletNoted
  <1>2. pos \in Slots /\ dataspace \in [Slots -> Frames \cup {NoFrame}]
    BY DEF TypeOK, DriverType, RingType
  <1>3. Dist(front, pos) = len
    BY <1>1, RearDist DEF IInv
  <1>4. \A k \in 1 .. len : dataspace'[Slot(k)] = dataspace[Slot(k)]
    <2> TAKE k \in 1 .. len
    <2>1. Slot(k) \in Slots /\ Dist(front, Slot(k)) = k - 1
      BY SlotDist, QueueLen, StreamLenAssumption
    <2>2. Slot(k) # pos
      BY <1>3, <2>1, QueueLen
    <2> QED BY <1>2, <2>1, <2>2 DEF TaskletReceive
  <1>5. Queue' = Queue
    BY <1>4, QueueKept DEF TaskletReceive
  <1>6. Offered' = Offered
    BY <1>1, <1>2 DEF TaskletReceive, Offered
  <1>7. UNCHANGED <<ReadCount, Out>>
    BY DEF TaskletReceive, usrVars, ReadCount, Consumed, Dist, Out
  <1> QED BY <1>5, <1>6, <1>7 DEF StreamVars

\* The commit accepts the frame received, for which there is room.
LEMMA AcceptStep ==
  ASSUME TypeOK, IInv, FrameInv, TaskletCommit
  PROVE  Stream!Accept
  <1>1. tpc = "commit" /\ pos = rear /\ len < StreamLen - 1
    BY DEF TaskletCommit, IInv, TaskletNoted
  <1>2. Offered = dataspace[pos] /\ Offered # NoFrame
    BY <1>1, FramesAssumption DEF Offered, FrameInv, FrameReceived
  <1>3. Offered' \in Frames \cup {NoFrame}
    <2>1. Offered' = frame
      BY DEF TaskletCommit, Offered, fpga
    <2> QED BY <2>1 DEF TypeOK, RingType
  <1>4. Slot(len + 1) = pos
    <2>1. len + 1 \in 1 .. StreamLen /\ front \in Slots /\ pos \in Slots
      BY <1>1, QueueLen, StreamLenAssumption DEF TypeOK, RingType, DriverType
    <2>2. Slot(len + 1) \in Slots /\ Dist(front, Slot(len + 1)) = (len + 1) - 1
      BY <2>1, SlotDist
    <2>3. Dist(front, pos) = len
      BY <1>1, RearDist DEF IInv
    <2> QED BY <2>1, <2>2, <2>3, DistUnique, QueueLen
  <1>5. Offered \in Frames \cup {NoFrame}
    BY <1>1, <1>2 DEF FrameInv, FrameReceived
  <1>6. Queue' = Append(Queue, Offered)
    <2>1. Queue' = [k \in 1 .. len + 1 |-> dataspace[Slot(k)]]
      BY DEF TaskletCommit, Queue, Slot
    <2>2. dataspace[Slot(len + 1)] = Offered
      BY <1>2, <1>4
    <2>3. Queue = [k \in 1 .. len |-> dataspace[Slot(k)]]
      BY DEF Queue, Slot
    <2>4. len \in Nat /\ Len(Queue) = len
      BY QueueLen
    <2>5. Append(Queue, Offered)
            = [k \in 1 .. len + 1 |-> IF k = len + 1 THEN Offered ELSE Queue[k]]
      BY <1>2, <2>4, QueueLen, AppendForm, <1>5
    <2> QED BY <2>1, <2>2, <2>3, <2>4, <2>5
  <1>7. UNCHANGED <<ReadCount, Out>>
    BY DEF TaskletCommit, usrVars, ReadCount, Consumed, Dist, Out
  <1> QED BY <1>1, <1>2, <1>3, <1>6, <1>7, QueueLen DEF Stream!Accept

\* The frame handed to sendUdp_t is the next one of the queue.
LEMMA DeliverStep ==
  ASSUME TypeOK, IInv, Deliver
  PROVE  Stream!Deliver
  <1>1. /\ ReadCount \in Nat /\ ReadCount < len /\ Consumed \in Nat
        /\ Consumed = Dist(front, last_front) /\ ReadCount = Consumed - 1
    BY ReadBounds DEF Deliver, ReadCount
  <1>2. ReadCount' = ReadCount + 1
    BY <1>1 DEF Deliver, ReadCount, Consumed, Dist, ring
  <1>3. ReadCount + 1 \in 1 .. len /\ ReadCount + 1 \in 1 .. StreamLen
    BY <1>1, QueueLen, StreamLenAssumption
  <1>4. Slot(ReadCount + 1) \in Slots
        /\ Dist(front, Slot(ReadCount + 1)) = (ReadCount + 1) - 1
    BY <1>3, SlotDist
  <1>5. Held \in Slots /\ Dist(front, Held) = Consumed - 1
    BY <1>1, DistPrev DEF Held, TypeOK, RingType, UserType
  <1>6. Held = Slot(ReadCount + 1)
    BY <1>1, <1>4, <1>5, DistUnique DEF TypeOK, RingType
  <1>7. Out' = Queue[ReadCount + 1]
    BY <1>3, <1>6, QueueLen DEF Deliver, Out
  <1>8. Queue' = Queue
    BY QueueKept DEF Deliver, ring
  <1>9. Offered' = Offered
    BY DEF Deliver, Offered, ring, tlVars, fpga
  <1> QED BY <1>1, <1>2, <1>7, <1>8, <1>9, QueueLen DEF Stream!Deliver

\* Taking the pointer to a frame is not yet delivering it.
LEMMA TakeStep ==
  ASSUME TypeOK, IInv, TakeFrame
  PROVE  UNCHANGED StreamVars
  <1>1. front \in Slots /\ last_front \in Slots
    BY DEF TypeOK, RingType, UserType
  <1>2. Consumed = Dist(front, last_front) /\ ReadCount = Consumed
    BY DEF TakeFrame, Consumed, ReadCount
  <1>3. Consumed < StreamLen - 1 /\ Consumed \in Nat
    BY ReadBounds, QueueLen, StreamLenAssumption DEF TakeFrame
  <1>4. Dist(front, (last_front + 1) % StreamLen) = Consumed + 1
    BY <1>1, <1>2, <1>3, DistNext
  <1>5. Dist(front, last_front)' = Dist(front, (last_front + 1) % StreamLen)
    BY DEF TakeFrame, ring, Dist
  <1>6. ReadCount' = ReadCount
    BY <1>2, <1>3, <1>4, <1>5 DEF TakeFrame, Consumed, ReadCount
  <1>7. Queue' = Queue
    BY QueueKept DEF TakeFrame, ring
  <1>8. UNCHANGED <<Offered, Out>>
    BY DEF TakeFrame, Offered, Out, ring, tlVars, fpga
  <1> QED BY <1>6, <1>7, <1>8 DEF StreamVars

\* The answer acknowledges what was delivered, although front_dif was computed
\* before the lock and frames were committed since.
LEMMA AcknowledgeStep ==
  ASSUME TypeOK, IInv, CutLock
  PROVE  Stream!Acknowledge
  <1> DEFINE d == ReadCount
             lf == last_front
  <1>1. front \in Slots /\ lf \in Slots
    BY DEF TypeOK, RingType, UserType
  <1>2. d = Dist(front, lf) /\ front_dif = d /\ d \in Nat /\ d <= len
    BY ReadBounds DEF CutLock, ReadCount, Consumed, IInv, UserNoted
  <1>3. front' = lf /\ len' = len - d /\ lf' = lf /\ dataspace' = dataspace
    BY <1>2 DEF CutLock
  <1>4. len \in Nat /\ len < StreamLen /\ len - d \in Nat
    BY <1>2, QueueLen
  <1>5. ReadCount' = 0
    <2>1. Dist(lf, lf) = 0
      BY <1>1, DistUnique
    <2> QED BY <1>3, <2>1 DEF CutLock, ReadCount, Consumed, Dist
  <1>6. ASSUME NEW k \in 1 .. len - d
        PROVE  Slot(k)' = Slot(d + k)
    <2>1. k - 1 \in Slots /\ d + k \in 1 .. StreamLen /\ d \in Nat /\ k \in Nat
      BY <1>2, <1>4, StreamLenAssumption DEF Slots
    <2>2. Slot(k)' = (lf + k - 1) % StreamLen
      BY <1>3 DEF Slot
    <2>3. lf + k - 1 = lf + (k - 1)
      BY <1>1, <2>1 DEF Slots
    <2>4. Slot(k)' \in Slots /\ Dist(lf, Slot(k)') = k - 1
      BY <1>1, <2>1, <2>2, <2>3, DistWalk
    <2>5. Slot(d + k) \in Slots /\ Dist(front, Slot(d + k)) = (d + k) - 1
      BY <2>1, SlotDist
    <2>6. Dist(lf, Slot(d + k)) = Dist(front, Slot(d + k)) - d
      BY <1>1, <1>2, <2>1, <2>5, DistShift
    <2>7. Dist(lf, Slot(d + k)) = k - 1
      BY <2>1, <2>5, <2>6
    <2> QED BY <1>1, <2>4, <2>5, <2>7, DistUnique
  <1>7. Queue' = SubSeq(Queue, d + 1, Len(Queue))
    <2>1. Queue' = [k \in 1 .. len - d |-> dataspace[Slot(k)']]
      BY <1>3 DEF Queue, Slot
    <2>2. Queue' = [k \in 1 .. len - d |-> dataspace[Slot(d + k)]]
      BY <1>6, <2>1
    <2>3. \A k \in 1 .. len - d : d + k \in 1 .. len
      BY <1>2, <1>4
    <2>4. \A k \in 1 .. len - d : Queue[d + k] = dataspace[Slot(d + k)]
      BY <2>3, QueueLen
    <2>5. Queue' = [k \in 1 .. len - d |-> Queue[d + k]]
      BY <2>2, <2>4
    <2>6. SubSeq(Queue, d + 1, Len(Queue)) = [k \in 1 .. len - d |-> Queue[d + k]]
      BY <1>2, <1>4, QueueLen, SubSeqForm
    <2> QED BY <2>5, <2>6
  <1>8. UNCHANGED <<Offered, Out>>
    BY DEF CutLock, Offered, Out, tlVars, fpga
  <1> QED BY <1>5, <1>7, <1>8 DEF Stream!Acknowledge

\* A program that dies starts again with what it had not acknowledged.
LEMMA RestartStep ==
  ASSUME TypeOK, Crash
  PROVE  Stream!Restart
  <1>1. Queue' = Queue
    BY QueueKept DEF Crash, ring
  <1>2. UNCHANGED <<Offered, Out>>
    BY DEF Crash, Offered, Out, ring, tlVars, fpga
  <1>3. ReadCount' = 0
    BY DEF Crash, ReadCount, Consumed
  <1> QED BY <1>1, <1>2, <1>3 DEF Stream!Restart

\* The handler and the rest of the tasklet.
LEMMA DriverQuiet ==
  ASSUME TypeOK,
         Irq \/ TaskletBegin \/ TaskletFull \/ TaskletSend \/ TaskletEnable
  PROVE  UNCHANGED StreamVars
  <1>1. \/ UNCHANGED <<ring, usrVars, sent, fpga>> /\ tpc # "commit" /\ tpc' # "commit"
        \/ UNCHANGED <<ring, usrVars, sent, fpga, tlVars>>
    <2>1. CASE Irq
      BY <2>1 DEF Irq, IrqEnter, IrqPark
    <2>2. CASE TaskletBegin \/ TaskletFull \/ TaskletSend \/ TaskletEnable
      BY <2>2 DEF TaskletBegin, TaskletFull, TaskletSend, TaskletEnable
    <2> QED BY <2>1, <2>2
  <1>2. Offered' = Offered
    BY <1>1 DEF Offered, ring, fpga, tlVars
  <1>3. Queue' = Queue
    BY <1>1, QueueKept DEF ring
  <1>4. UNCHANGED <<ReadCount, Out>>
    BY <1>1 DEF ReadCount, Consumed, Dist, Out, ring, usrVars
  <1> QED BY <1>2, <1>3, <1>4 DEF StreamVars

\* The rest of the user's thread: it neither reads a frame nor frees one.
LEMMA UserQuiet ==
  ASSUME TypeOK, IInv,
         Launch \/ ReadFront \/ StartEnter \/ StartLock \/ StartIrq \/ Receive
           \/ CutEnter \/ CutIrq
  PROVE  UNCHANGED StreamVars
  <1>1. UNCHANGED <<ring, tlVars, sent, fpga>>
    BY DEF Launch, ReadFront, StartEnter, StartLock, StartIrq, Receive, CutEnter,
           CutIrq, UnparkIrq
  <1>2. Queue' = Queue
    BY <1>1, QueueKept DEF ring
  <1>3. UNCHANGED <<Offered, Out>>
    BY <1>1 DEF Offered, Out, ring, fpga, tlVars
  <1>4. ReadCount' = ReadCount
    <2>1. CASE Launch
      BY <2>1 DEF Launch, ReadCount, Consumed
    <2>2. CASE ReadFront
      <3>1. Dist(front, front) = 0
        BY DistUnique DEF TypeOK, RingType
      <3> QED BY <2>2, <3>1 DEF ReadFront, ring, ReadCount, Consumed, Dist
    <2>3. CASE StartEnter \/ StartLock \/ StartIrq \/ Receive \/ CutEnter \/ CutIrq
      <3>1. UNCHANGED <<front, last_front>>
            /\ upc \notin {"off", "boot", "hold"} /\ upc' \notin {"off", "boot", "hold"}
        BY <2>3
        DEF StartEnter, StartLock, StartIrq, Receive, CutEnter, CutIrq, UnparkIrq,
            ring
      <3> QED BY <3>1 DEF ReadCount, Consumed, Dist
    <2> QED BY <2>1, <2>2, <2>3
  <1> QED BY <1>2, <1>3, <1>4 DEF StreamVars

\* Every step of the driver, the user program and the FPGA is one of the stream's.
LEMMA StreamStep ==
  ASSUME TypeOK, IInv, FrameInv, [Next]_vars
  PROVE  [Stream!Next]_StreamVars
  <1>1. CASE FrameReady
    BY <1>1, OfferStep DEF Stream!Next
  <1>2. CASE Irq \/ TaskletBegin \/ TaskletFull \/ TaskletSend \/ TaskletEnable
    BY <1>2, DriverQuiet
  <1>3. CASE TaskletReceive
    BY <1>3, ReceiveStep
  <1>4. CASE TaskletCommit
    BY <1>4, AcceptStep DEF Stream!Next
  <1>5. CASE Launch \/ ReadFront \/ StartEnter \/ StartLock \/ StartIrq \/ Receive
               \/ CutEnter \/ CutIrq
    BY <1>5, UserQuiet
  <1>6. CASE TakeFrame
    BY <1>6, TakeStep
  <1>7. CASE Deliver
    BY <1>7, DeliverStep DEF Stream!Next
  <1>8. CASE CutLock
    BY <1>8, AcknowledgeStep DEF Stream!Next
  <1>9. CASE Crash
    BY <1>9, RestartStep DEF Stream!Next
  <1>10. CASE UNCHANGED vars
    <2>1. UNCHANGED <<ring, tlVars, usrVars, sent, fpga>>
      BY <1>10 DEF vars
    <2>2. Queue' = Queue
      BY <2>1, QueueKept DEF ring
    <2>3. UNCHANGED <<Offered, ReadCount, Out>>
      BY <2>1 DEF Offered, ReadCount, Consumed, Dist, Out, ring, tlVars, usrVars, fpga
    <2> QED BY <2>2, <2>3 DEF StreamVars
  <1> QED
    BY <1>1, <1>2, <1>3, <1>4, <1>5, <1>6, <1>7, <1>8, <1>9, <1>10
    DEF Next, Tasklet, User

\* The stream starts empty.
LEMMA StreamInit == Init => FrameInv /\ Stream!Init
  <1> SUFFICES ASSUME Init PROVE FrameInv /\ Stream!Init
    OBVIOUS
  <1>1. FrameInv
    BY DEF Init, FrameInv, FrameHeldOut, FrameReceived
  <1>2. Queue = << >>
    BY DEF Init, Queue
  <1>3. Offered = NoFrame /\ ReadCount = 0 /\ Out = NoFrame
    BY DEF Init, Offered, ReadCount, Consumed, Out
  <1> QED BY <1>1, <1>2, <1>3 DEF Stream!Init

-----------------------------------------------------------------------------

\* Driver, ring, signals and user program together are a first-in first-out stream
\* of Stream_Len - 1 frames: every frame taken from the FPGA reaches sendUdp_t
\* whole and in order, and what was not acknowledged again after a restart.
THEOREM ImplementsFrameStream == Spec => FrameStreamSpec
  <1>1. Init => FrameInv /\ Stream!Init
    BY StreamInit
  <1>2. TypeOK /\ IInv /\ FrameInv /\ [Next]_vars
          => FrameInv' /\ [Stream!Next]_Stream!vars
    BY FrameInvStep, StreamStep DEF StreamVars, Stream!vars
  <1> QED BY <1>1, <1>2, Invariance, PTL DEF Spec, FrameStreamSpec, Stream!Spec
=============================================================================
