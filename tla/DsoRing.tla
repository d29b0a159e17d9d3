------------------------------ MODULE DsoRing ------------------------------
(***************************************************************************)
(* The frame ring between the kernel driver gpio_interrupt.c and the user  *)
(* program dso_test_user.c.                                                *)
(*                                                                         *)
(* The FPGA raises the level interrupt GPIO_CLK when a frame is ready.     *)
(* irq_handler masks it and schedules dso_tasklet, which receives the      *)
(* frame into the slot at `rear' of a ring in memory shared with the user, *)
(* tells the user by a netlink signal, and unmasks the interrupt.  The     *)
(* user delivers the frames up to the signalled index and answers with     *)
(* its own index, which frees the slots (netlink_recv_msg runs that answer *)
(* in the sender's context, inside the system call).                       *)
(*                                                                         *)
(* One action stands for the code between two points at which another      *)
(* actor that shares state with it can run.  SMP = FALSE is the AR9331,    *)
(* which has one core: an interrupt handler runs to its end, a tasklet is  *)
(* interrupted only by handlers, and a process runs when neither does.     *)
(* SMP = TRUE lets them overlap wherever w_lock does not forbid it.        *)
(***************************************************************************)
EXTENDS Integers, Sequences

CONSTANTS StreamLen,      \* number of slots of the ring: Stream_Len
          Frames,         \* contents a frame can have
          NoFrame,        \* stale memory: the content of a slot never written
          Pids,           \* the process ids the user program can run under
          NoPid,          \* send_pid = 0, and no process running
          SMP,            \* whether process, tasklet and handler may overlap
          AllocMayFail    \* whether nlmsg_new may return NULL

ASSUME StreamLenAssumption == StreamLen \in Nat \ {0, 1}
ASSUME FramesAssumption == NoFrame \notin Frames
ASSUME PidsAssumption == NoPid \notin Pids
ASSUME ModeAssumption == SMP \in BOOLEAN /\ AllocMayFail \in BOOLEAN

VARIABLES
  \* the shared page, a frame_sequeue
  dataspace, front, rear, len,
  \* the driver's static variables
  full, irq, hasSend, send_pid,
  \* the interrupt and dso_tasklet
  intEnabled,   \* the bit GPIO_CLK of the interrupt-enable register
  scheduled,    \* dso_tasklet is pending
  ipc,          \* where irq_handler stands
  tpc,          \* where tasklet_handler stands
  pos, isFull,  \* its locals
  \* the user program
  pid,          \* the process that has the netlink socket bound, or NoPid
  upc,          \* where Udp_sendThread_t stands
  last_front,   \* its locals; `todo' is the loop count it names len
  todo,
  front_dif,    \* local of netlink_recv_msg, run by this thread
  notif,        \* signals waiting in its socket
  sent,         \* the frame last handed to sendUdp_t
  lost,         \* history: nlmsg_new failed for the signal now owed
  \* the FPGA
  ready,        \* it drives GPIO_CLK high: a frame waits
  frame         \* that frame

ring    == <<dataspace, front, rear, len>>
flags   == <<full, irq, hasSend, send_pid>>
irqVars == <<intEnabled, scheduled, ipc>>
tlVars  == <<tpc, pos, isFull>>
usrVars == <<pid, upc, last_front, todo, front_dif>>
fpga    == <<ready, frame>>
vars    == <<ring, flags, irqVars, tlVars, usrVars, notif, sent, lost, fpga>>

Slots == 0 .. StreamLen - 1

\* The frames from index a to index b of the ring, as both programs compute it.
Dist(a, b) == (b + StreamLen - a) % StreamLen

\* Mutant: the test lets the last free slot be used, so that a full ring looks
\* like an empty one to the reader.
Mut_UsesLastSlot == len >= StreamLen

\* Sequeue_Full: one slot is always kept free.
Sequeue_Full == len >= StreamLen - 1

\* w_lock is held by netlink_recv_msg between two of its actions only there;
\* the tasklet's critical sections are one action each.
LockFree == upc \notin {"start_irq", "cut_irq"}

\* On one core the tasklet waits for the handler, and a process for both.
TaskletMayRun == SMP \/ ipc = "idle"
ProcessMayRun == SMP \/ (ipc = "idle" /\ tpc = "idle")

Init ==
  /\ dataspace = [i \in Slots |-> NoFrame]
  /\ front = 0 /\ rear = 0 /\ len = 0
  /\ full = FALSE /\ irq = FALSE /\ hasSend = FALSE /\ send_pid = NoPid
  /\ intEnabled = TRUE /\ scheduled = FALSE /\ ipc = "idle"
  /\ tpc = "idle" /\ pos = 0 /\ isFull = FALSE
  /\ pid = NoPid /\ upc = "off" /\ last_front = 0 /\ todo = 0 /\ front_dif = 0
  /\ notif = << >> /\ sent = NoFrame /\ lost = FALSE
  /\ ready = FALSE /\ frame = NoFrame

-----------------------------------------------------------------------------
(* The FPGA, as the driver sees it: GPIO_CLK stays high until the frame is *)
(* read, and the next frame comes when it likes.                           *)

FrameReady ==
  /\ ~ready
  /\ ready' = TRUE
  /\ frame' \in Frames
  /\ UNCHANGED <<ring, flags, irqVars, tlVars, usrVars, notif, sent, lost>>

-----------------------------------------------------------------------------
(* irq_handler *)

\* Mutant: the handler schedules the tasklet and leaves the interrupt unmasked.
Mut_NotMasked ==
  /\ ready /\ intEnabled /\ ipc = "idle"
  /\ IF full
       THEN ipc' = "park" /\ UNCHANGED scheduled
       ELSE scheduled' = TRUE /\ UNCHANGED ipc
  /\ UNCHANGED <<ring, flags, intEnabled, tlVars, usrVars, notif, sent, lost, fpga>>

\* The masked interrupt either starts the tasklet or, the stream being full,
\* goes on to be parked in data_stream.irq.
IrqEnter ==
  /\ ready /\ intEnabled /\ ipc = "idle"
  /\ intEnabled' = FALSE
  /\ IF full
       THEN ipc' = "park" /\ UNCHANGED scheduled
       ELSE scheduled' = TRUE /\ UNCHANGED ipc
  /\ UNCHANGED <<ring, flags, tlVars, usrVars, notif, sent, lost, fpga>>

IrqPark ==
  /\ ipc = "park"
  /\ irq' = TRUE
  /\ ipc' = "idle"
  /\ UNCHANGED <<ring, full, hasSend, send_pid, intEnabled, scheduled, tlVars,
                 usrVars, notif, sent, lost, fpga>>

Irq == IrqEnter \/ IrqPark

-----------------------------------------------------------------------------
(* tasklet_handler *)

\* netlink_send_signal: the result is -1 without a listener or without memory,
\* and the caller does not look at it.
Reachable == send_pid # NoPid /\ send_pid = pid

netlink_send_signal(signal) ==
  \/ Reachable /\ notif' = Append(notif, signal) /\ UNCHANGED lost
  \/ Reachable /\ AllocMayFail /\ lost' = TRUE /\ UNCHANGED notif
  \/ ~Reachable /\ UNCHANGED <<notif, lost>>

\* Mutant: the tasklet receives without asking whether there is room.
Mut_NoFullCheck ==
  /\ tpc = "idle" /\ scheduled /\ TaskletMayRun /\ LockFree
  /\ scheduled' = FALSE
  /\ pos' = rear
  /\ isFull' = Sequeue_Full
  /\ tpc' = "receive"
  /\ UNCHANGED <<ring, flags, intEnabled, ipc, usrVars, notif, sent, lost, fpga>>

\* First critical section: the slot, its index, and whether there is room.
TaskletBegin ==
  /\ tpc = "idle" /\ scheduled /\ TaskletMayRun /\ LockFree
  /\ scheduled' = FALSE
  /\ pos' = rear
  /\ isFull' = Sequeue_Full
  /\ tpc' = IF Sequeue_Full THEN "full" ELSE "receive"
  /\ UNCHANGED <<ring, flags, intEnabled, ipc, usrVars, notif, sent, lost, fpga>>

\* receive_data, outside the lock; without a frame it times out at once and
\* leaves a frame of no bytes.
TaskletReceive ==
  /\ tpc = "receive" /\ TaskletMayRun
  /\ dataspace' = [dataspace EXCEPT ![pos] = IF ready THEN frame ELSE NoFrame]
  /\ ready' = FALSE /\ frame' = NoFrame
  /\ tpc' = "commit"
  /\ UNCHANGED <<front, rear, len, flags, irqVars, pos, isFull, usrVars, notif,
                 sent, lost>>

TaskletCommit ==
  /\ tpc = "commit" /\ TaskletMayRun /\ LockFree
  /\ rear' = (pos + 1) % StreamLen
  /\ len' = len + 1
  /\ tpc' = "send"
  /\ UNCHANGED <<dataspace, front, flags, irqVars, pos, isFull, usrVars, notif,
                 sent, lost, fpga>>

\* data_stream.full is set outside the lock.
TaskletFull ==
  /\ tpc = "full" /\ TaskletMayRun
  /\ full' = TRUE
  /\ tpc' = "send"
  /\ UNCHANGED <<ring, irq, hasSend, send_pid, irqVars, pos, isFull, usrVars,
                 notif, sent, lost, fpga>>

\* Mutant: a tasklet that found the ring full has nothing to announce.
Mut_FullNotSignalled ==
  /\ tpc = "send" /\ TaskletMayRun /\ LockFree
  /\ IF hasSend \/ isFull
       THEN UNCHANGED <<hasSend, notif, lost>>
       ELSE hasSend' = TRUE /\ netlink_send_signal(pos)
  /\ tpc' = "enable"
  /\ UNCHANGED <<ring, full, irq, send_pid, irqVars, pos, isFull, usrVars, sent,
                 fpga>>

\* At most one signal per answer of the user; it carries the index the tasklet
\* read first, so that a frame just received is announced by a later signal.
TaskletSend ==
  /\ tpc = "send" /\ TaskletMayRun /\ LockFree
  /\ IF hasSend
       THEN UNCHANGED <<hasSend, notif, lost>>
       ELSE hasSend' = TRUE /\ netlink_send_signal(pos)
  /\ tpc' = "enable"
  /\ UNCHANGED <<ring, full, irq, send_pid, irqVars, pos, isFull, usrVars, sent,
                 fpga>>

TaskletEnable ==
  /\ tpc = "enable" /\ TaskletMayRun
  /\ intEnabled' = TRUE
  /\ tpc' = "idle"
  /\ pos' = 0 /\ isFull' = FALSE
  /\ UNCHANGED <<ring, flags, scheduled, ipc, usrVars, notif, sent, lost, fpga>>

Tasklet == TaskletBegin \/ TaskletReceive \/ TaskletCommit \/ TaskletFull
             \/ TaskletSend \/ TaskletEnable

-----------------------------------------------------------------------------
(* The user program: main, Udp_sendThread_t and, inside its sendmsg, the   *)
(* driver's netlink_recv_msg.                                              *)

\* main: mmap_init, netlink_init (which binds the socket), pthread_create.
Launch ==
  /\ upc = "off" /\ ProcessMayRun
  /\ pid' \in Pids
  /\ upc' = "boot"
  /\ UNCHANGED <<ring, flags, irqVars, tlVars, last_front, todo, front_dif,
                 notif, sent, lost, fpga>>

\* Mutant: a restarted program believes the ring starts at slot 0.
Mut_StartsAtZero ==
  /\ upc = "boot" /\ ProcessMayRun
  /\ last_front' = 0
  /\ upc' = "begin"
  /\ UNCHANGED <<ring, flags, irqVars, tlVars, pid, todo, front_dif, notif, sent,
                 lost, fpga>>

\* The thread starts from the driver's front.
ReadFront ==
  /\ upc = "boot" /\ ProcessMayRun
  /\ last_front' = front
  /\ upc' = "begin"
  /\ UNCHANGED <<ring, flags, irqVars, tlVars, pid, todo, front_dif, notif, sent,
                 lost, fpga>>

\* netlink_recv_msg up to its lock, for the code 0xffff.
StartEnter ==
  /\ upc = "begin" /\ ProcessMayRun
  /\ send_pid' = pid
  /\ upc' = "start_lock"
  /\ UNCHANGED <<ring, full, irq, hasSend, irqVars, tlVars, pid, last_front, todo,
                 front_dif, notif, sent, lost, fpga>>

\* Mutant: the start message does not forgive the signal a dead process owes.
Mut_StartKeepsHasSend ==
  /\ upc = "start_lock" /\ ProcessMayRun
  /\ full' = FALSE
  /\ lost' = FALSE
  /\ upc' = "start_irq"
  /\ UNCHANGED <<ring, irq, hasSend, send_pid, irqVars, tlVars, pid, last_front,
                 todo, front_dif, notif, sent, fpga>>

StartLock ==
  /\ upc = "start_lock" /\ ProcessMayRun
  /\ hasSend' = FALSE
  /\ full' = FALSE
  /\ lost' = FALSE
  /\ upc' = "start_irq"
  /\ UNCHANGED <<ring, irq, send_pid, irqVars, tlVars, pid, last_front, todo,
                 front_dif, notif, sent, fpga>>

\* Mutant: the answer restarts the tasklet but leaves the interrupt parked.
Mut_StaysParked ==
  /\ IF irq THEN scheduled' = TRUE ELSE UNCHANGED scheduled
  /\ UNCHANGED <<ring, full, irq, hasSend, send_pid, intEnabled, ipc, tlVars, pid,
                 last_front, todo, notif, sent, lost, fpga>>

\* Mutant: the answer clears `full' and does not look for a parked interrupt.
Mut_ForgetsParked ==
  UNCHANGED <<ring, full, irq, hasSend, send_pid, irqVars, tlVars, pid,
              last_front, todo, notif, sent, lost, fpga>>

\* An interrupt parked while the stream was full starts the tasklet now.
UnparkIrq ==
  /\ IF irq
       THEN irq' = FALSE /\ scheduled' = TRUE
       ELSE UNCHANGED <<irq, scheduled>>
  /\ UNCHANGED <<ring, full, hasSend, send_pid, intEnabled, ipc, tlVars, pid,
                 last_front, todo, notif, sent, lost, fpga>>

StartIrq ==
  /\ upc = "start_irq" /\ ProcessMayRun
  /\ UnparkIrq
  /\ upc' = "wait"
  /\ UNCHANGED front_dif

\* netlink_recv_signal, and the number of frames up to the index it carries.
Receive ==
  /\ upc = "wait" /\ notif # << >> /\ ProcessMayRun
  /\ todo' = Dist(last_front, Head(notif))
  /\ notif' = Tail(notif)
  /\ upc' = "loop"
  /\ UNCHANGED <<ring, flags, irqVars, tlVars, pid, last_front, front_dif, sent,
                 lost, fpga>>

\* The thread keeps a pointer to the slot while it sends from it.
TakeFrame ==
  /\ upc = "loop" /\ todo > 0 /\ ProcessMayRun
  /\ todo' = todo - 1
  /\ last_front' = (last_front + 1) % StreamLen
  /\ upc' = "hold"
  /\ UNCHANGED <<ring, flags, irqVars, tlVars, pid, front_dif, notif, sent, lost,
                 fpga>>

\* Mutant: the pointer is taken after the index has moved on.
Mut_HeldNext == last_front

\* The slot data_frame_t points to: the one just before last_front.
Held == (last_front + StreamLen - 1) % StreamLen

\* sendUdp_t sends to every client, and clears the frame's first byte in place: a
\* write to the shared slot that SlotExclusion keeps apart from the tasklet's.
Deliver ==
  /\ upc = "hold" /\ ProcessMayRun
  /\ sent' = dataspace[Held]
  /\ upc' = "loop"
  /\ UNCHANGED <<ring, flags, irqVars, tlVars, pid, last_front, todo, front_dif,
                 notif, lost, fpga>>

\* netlink_recv_msg up to its lock, for an index; front_dif is computed from the
\* shared front before the lock is taken.
CutEnter ==
  /\ upc = "loop" /\ todo = 0 /\ ProcessMayRun
  /\ send_pid' = pid
  /\ front_dif' = Dist(front, last_front)
  /\ upc' = "cut_lock"
  /\ UNCHANGED <<ring, full, irq, hasSend, irqVars, tlVars, pid, last_front, todo,
                 notif, sent, lost, fpga>>

\* Mutant: the length is left to the tasklet.
Mut_CutKeepsLen ==
  /\ upc = "cut_lock" /\ ProcessMayRun
  /\ hasSend' = FALSE
  /\ front' = last_front
  /\ full' = FALSE
  /\ lost' = FALSE
  /\ upc' = "cut_irq"
  /\ UNCHANGED <<dataspace, rear, len, irq, send_pid, irqVars, tlVars, pid,
                 last_front, todo, front_dif, notif, sent, fpga>>

CutLock ==
  /\ upc = "cut_lock" /\ ProcessMayRun
  /\ hasSend' = FALSE
  /\ front' = last_front
  /\ len' = len - front_dif
  /\ full' = FALSE
  /\ lost' = FALSE
  /\ upc' = "cut_irq"
  /\ UNCHANGED <<dataspace, rear, irq, send_pid, irqVars, tlVars, pid, last_front,
                 todo, front_dif, notif, sent, fpga>>

CutIrq ==
  /\ upc = "cut_irq" /\ ProcessMayRun
  /\ UnparkIrq
  /\ front_dif' = 0
  /\ upc' = "wait"

User == ReadFront \/ StartEnter \/ StartLock \/ StartIrq \/ Receive
          \/ TakeFrame \/ Deliver \/ CutEnter \/ CutLock \/ CutIrq

\* The process dies (killed, or exit(1) in another thread) outside a system
\* call; the kernel closes its socket and the driver is not told.
Crash ==
  /\ upc \in {"boot", "begin", "wait", "loop", "hold"} /\ ProcessMayRun
  /\ pid' = NoPid /\ upc' = "off" /\ last_front' = 0 /\ todo' = 0
  /\ notif' = << >> /\ lost' = FALSE
  /\ UNCHANGED <<ring, flags, irqVars, tlVars, front_dif, sent, fpga>>

-----------------------------------------------------------------------------
Next == FrameReady \/ Irq \/ Tasklet \/ Launch \/ User \/ Crash

Spec == Init /\ [][Next]_vars

\* Frames keep coming, an asserted interrupt is taken, a pending tasklet runs
\* and the user's thread is scheduled.  Nothing makes a dead program restart.
Fairness == WF_vars(FrameReady) /\ WF_vars(Irq) /\ WF_vars(Tasklet) /\ WF_vars(User)

FairSpec == Spec /\ Fairness

-----------------------------------------------------------------------------
(* Properties *)

RingType ==
  /\ dataspace \in [Slots -> Frames \cup {NoFrame}]
  /\ front \in Slots /\ rear \in Slots /\ len \in 0 .. StreamLen - 1
  /\ sent \in Frames \cup {NoFrame}
  /\ ready \in BOOLEAN /\ frame \in Frames \cup {NoFrame}

DriverType ==
  /\ full \in BOOLEAN /\ irq \in BOOLEAN /\ hasSend \in BOOLEAN
  /\ send_pid \in Pids \cup {NoPid}
  /\ intEnabled \in BOOLEAN /\ scheduled \in BOOLEAN
  /\ ipc \in {"idle", "park"}
  /\ tpc \in {"idle", "receive", "commit", "full", "send", "enable"}
  /\ pos \in Slots /\ isFull \in BOOLEAN

UserType ==
  /\ pid \in Pids \cup {NoPid}
  /\ upc \in {"off", "boot", "begin", "start_lock", "start_irq", "wait", "loop",
              "hold", "cut_lock", "cut_irq"}
  /\ last_front \in Slots /\ todo \in Slots /\ front_dif \in Slots
  /\ notif \in Seq(Slots) /\ lost \in BOOLEAN

\* Indices stay in the ring, its length below Stream_Len, and every variable in
\* the set the code gives it.
TypeOK == RingType /\ DriverType /\ UserType

\* The three words the driver and the user program keep about the ring agree:
\* rear is len frames after front.  The tasklet advances rear and len, the user's
\* answer advances front and takes from len what it computed before the lock.
RingConsistent == rear = (front + len) % StreamLen

\* Exactly one thing can start the device again: the interrupt is unmasked, or
\* the tasklet is pending or running, or the handler is about to park, or the
\* parked interrupt waits in data_stream.irq.  With none the device is dead,
\* with two the tasklet would read a frame that is not there.
WakeTokens == {t \in {"int", "tasklet", "running", "parking", "parked"} :
                 \/ t = "int" /\ intEnabled
                 \/ t = "tasklet" /\ scheduled
                 \/ t = "running" /\ tpc # "idle"
                 \/ t = "parking" /\ ipc = "park"
                 \/ t = "parked" /\ irq}

OneWakeToken == \E t \in WakeTokens : WakeTokens = {t}

\* receive_data is only entered while the FPGA offers a frame: otherwise it
\* would time out and commit an empty frame.
FrameThere == tpc = "receive" => ready

\* What the user program has read since the driver's front, in frames.
Consumed == IF upc \in {"off", "boot"} THEN 0 ELSE Dist(front, last_front)

\* However signals, answers, crashes and restarts interleave, the indices still
\* under way are in ring order: what the user has read, what it is reading,
\* the signals in its socket, oldest first, and the frames the ring holds.  A
\* signal out of this order would wrap the user's loop count around the ring.
SignalsInWindow ==
  /\ Consumed + todo <= len
  /\ \A i \in 1 .. Len(notif) :
       /\ Consumed + todo <= Dist(front, notif[i])
       /\ Dist(front, notif[i]) <= len
       /\ \A j \in 1 .. i : Dist(front, notif[j]) <= Dist(front, notif[i])

\* The slots Udp_sendThread_t may still read before it answers.
UserSlots == {(last_front + k) % StreamLen : k \in 0 .. todo - 1}
               \cup (IF upc = "hold" THEN {Held} ELSE {})

\* The tasklet never writes a slot from which the user program is sending or
\* about to send, although neither holds a lock while it does so.
SlotExclusion == tpc = "receive" => pos \notin UserSlots

\* hasSend limits the driver to one unanswered signal; the start message can
\* make it two (a signal sent between the write of send_pid and the reset of
\* hasSend), and never more.
Unanswered == Len(notif) + (IF upc \in {"loop", "hold", "cut_lock"} THEN 1 ELSE 0)
TwoSignals == Unanswered <= 2

\* A user program blocked on an empty socket is owed a signal that will come:
\* hasSend is clear, so the next run of the tasklet sends it (unless nlmsg_new
\* failed, and then nobody will ever send it).
WaiterWillBeSignalled ==
  upc = "wait" /\ notif = << >> /\ ~lost => ~hasSend

\* A parked interrupt is never forgotten: either `full' is still set, or the
\* answer that cleared it is about to look at data_stream.irq.
ParkedIsSeen == irq => full \/ ~LockFree

\* The start message that clears `full' and hasSend is yet to come or on its way.
StartAhead == upc \in {"off", "boot", "begin", "start_lock"}

\* ... and a full flag, with an interrupt parked behind it, is only ever left
\* standing while something is under way that clears it: a signal in the program's
\* socket or one it is answering, or the start message of a program that has not
\* begun.  (hasSend alone does not say so: it is set also when nothing was sent.  A
\* signal that nlmsg_new had no memory for leaves the flag to the next start.)
FullIsAnswered == full /\ tpc = "idle" /\ ~lost => Unanswered >= 1 \/ StartAhead

-----------------------------------------------------------------------------
(* The inductive invariant behind the properties above, part by part. *)

\* Where the tasklet stands, what it noted in its first critical section still
\* holds: its index is rear (one before it once the frame is committed), there
\* is room, and the indices of all signals sent before lie no further than it.
TaskletNoted ==
  /\ tpc \in {"receive", "commit"} => pos = rear /\ len < StreamLen - 1
  /\ tpc = "full" => pos = rear
  /\ tpc \in {"receive", "commit", "full", "send"} =>
       /\ Consumed + todo <= Dist(front, pos)
       /\ Dist(front, pos) <= len
       /\ \A i \in 1 .. Len(notif) : Dist(front, notif[i]) <= Dist(front, pos)

\* Where the user's thread stands, its index has moved from the driver's front
\* only inside a batch, and front_dif is still what it was when computed.
UserNoted ==
  /\ todo > 0 => upc \in {"loop", "hold"}
  /\ upc \in {"begin", "start_lock", "start_irq", "wait", "cut_irq"} =>
       last_front = front
  /\ upc = "hold" => Dist(front, last_front) >= 1
  /\ upc = "cut_lock" => front_dif = Dist(front, last_front)

\* A process the driver has heard from is the one it signals.
Attached == upc \in {"start_lock", "start_irq", "wait", "loop", "hold", "cut_lock",
                     "cut_irq"}
Addressed ==
  /\ pid = NoPid <=> upc = "off"
  /\ Attached => send_pid = pid
  /\ upc = "off" => notif = << >>

\* Signals under way and the permission to send another are conserved: one
\* before the start message is through, two afterwards.
Permission == IF hasSend THEN 0 ELSE 1
SignalsConserved ==
  /\ StartAhead => Len(notif) + Permission <= 1
  /\ Unanswered + Permission <= 2
  /\ ~StartAhead /\ hasSend /\ ~lost => Unanswered >= 1

\* A frame waits whenever something is set to fetch it.
FrameKept ==
  scheduled \/ tpc \in {"receive", "full"} \/ ipc = "park" \/ irq => ready

\* The full flag is only ever unanswered inside the tasklet that raised it.
FullNoted == full => hasSend \/ tpc = "send"

\* On one core the handler parks the interrupt before anyone can clear `full'.
ParkNoted == ~SMP /\ ipc = "park" => full

IInv ==
  /\ RingConsistent
  /\ OneWakeToken
  /\ FrameKept
  /\ TaskletNoted
  /\ UserNoted
  /\ SignalsInWindow
  /\ Addressed
  /\ SignalsConserved
  /\ FullNoted
  /\ ParkNoted
  /\ ~SMP => ParkedIsSeen

-----------------------------------------------------------------------------
(* What the driver and the user program do together, seen from outside. *)

\* When one frame is always followed by another, the user program stays alive
\* and its last signal was not lost for want of memory, frames keep reaching
\* sendUdp_t: no interleaving of interrupt, tasklet and answers leaves all of
\* them waiting on each other.
StreamFlows == <>[](upc # "off" /\ ~lost) => []<><<Deliver>>_vars

\* The driver drops a frame never and reorders none: see FrameStream.
Out == sent
Queue == [k \in 1 .. len |-> dataspace[(front + k - 1) % StreamLen]]
ReadCount == IF upc = "hold" THEN Consumed - 1 ELSE Consumed
Offered == IF tpc = "commit" THEN dataspace[pos] ELSE frame

Stream == INSTANCE FrameStream WITH
            Capacity <- StreamLen - 1, offered <- Offered, queue <- Queue,
            read <- ReadCount, out <- Out
FrameStreamSpec == Stream!Spec
=============================================================================
