-------------------------- MODULE DriverLifecycle --------------------------
(***************************************************************************)
(* Loading and unloading of the driver: gpio_interrupt_init and            *)
(* gpio_interrupt_exit, against everything that can reach the driver       *)
(* meanwhile: its interrupt and tasklet, and the user program, which opens *)
(* and maps the device, binds a netlink socket and sends messages.         *)
(*                                                                         *)
(* `step' names the last call made; the program may run between two calls, *)
(* because they sleep.  The AR9331 has one core, so that handler, tasklet  *)
(* and netlink_recv_msg are one action each; a tasklet may be left to      *)
(* ksoftirqd and so stay pending while a process runs.                     *)
(*                                                                         *)
(* A user's netlink socket holds a reference to the module, and rmmod is   *)
(* refused while it exists.  An open device holds none: test_fops has no   *)
(* owner.                                                                  *)
(***************************************************************************)
EXTENDS Naturals

CONSTANTS EarlyUser,    \* the program may start before insmod has returned
          MayUnload,    \* rmmod is used
          IrqMayFail    \* request_irq may fail

ASSUME ModeAssumption == {EarlyUser, MayUnload, IrqMayFail} \subseteq BOOLEAN

VARIABLES
  step,         \* where init or exit stands
  nl_sk,        \* the driver's netlink socket is there
  halted,       \* the kernel has taken a fault it does not survive
  full, irq,    \* data_stream
  send_pid,     \* whether a program has been heard from: it is not 0
  intEnabled,   \* the bit GPIO_CLK of the interrupt-enable register
  ready,        \* the FPGA drives GPIO_CLK high
  scheduled,    \* dso_tasklet is pending
  upc,          \* where the user program stands
  file,         \* its open device: of the module as loaded now, or of one gone
  mapping,      \* what it has mapped: the queue, or other memory
  signalled,    \* a signal waits in its socket
  misused       \* history: the queue was used where there was none

driver == <<step, nl_sk, halted, misused>>
stream == <<full, irq, send_pid>>
irqVars == <<intEnabled, ready, scheduled>>
user   == <<upc, file, mapping, signalled>>
vars   == <<driver, stream, irqVars, user>>

Loading   == {"device", "socket", "pages", "tasklet", "irq"}
Unloading == {"nodevice", "nosocket", "nopages", "closed", "freed"}

\* What is there at each step.
Registered   == step \in Loading \cup {"loaded", "stuck", "failed"}
QueueThere   == step \in {"pages", "tasklet", "irq", "loaded", "nodevice", "nosocket"}
TaskletThere == step \in {"tasklet", "irq", "loaded"} \cup Unloading
HandlerThere == step \in {"irq", "loaded"} \cup (Unloading \ {"freed"})
CodeThere    == step \notin {"unloaded", "failed"}

Bound == upc \in {"bound", "begin", "running"}

Init ==
  /\ step = "unloaded" /\ nl_sk = FALSE /\ halted = FALSE /\ misused = FALSE
  /\ full = FALSE /\ irq = FALSE /\ send_pid = FALSE
  /\ intEnabled = FALSE /\ ready = FALSE /\ scheduled = FALSE
  /\ upc = "off" /\ file = "none" /\ mapping = "none" /\ signalled = FALSE

Goes(from, to) == step = from /\ step' = to

-----------------------------------------------------------------------------
(* gpio_interrupt_init *)

\* register_chrdev, class_create, device_create; the variables of a module
\* just loaded are zero.
RegisterDevice ==
  /\ Goes("unloaded", "device")
  /\ full' = FALSE /\ irq' = FALSE /\ send_pid' = FALSE
  /\ UNCHANGED <<nl_sk, halted, misused, irqVars, user>>

\* Its result is not looked at.
netlink_init ==
  /\ Goes("device", "socket")
  /\ nl_sk' \in BOOLEAN
  /\ UNCHANGED <<halted, misused, stream, irqVars, user>>

\* The pages are set up without a look at whether there are any: without, the
\* write to the null pointer kills insmod, and the module stays half loaded.
mmap_page_init ==
  /\ step = "socket"
  /\ step' \in {"pages", "stuck"}
  /\ UNCHANGED <<nl_sk, halted, misused, stream, irqVars, user>>

\* Gpio_Data_Stream_Init, ioremap, tasklet_init.
StreamInit ==
  /\ Goes("pages", "tasklet")
  /\ full' = FALSE /\ irq' = FALSE
  /\ UNCHANGED <<nl_sk, halted, misused, send_pid, irqVars, user>>

\* When request_irq fails, init returns -1 and undoes nothing: the module's
\* memory is freed, its device and its socket stay.
request_irq ==
  /\ \/ Goes("tasklet", "irq")
     \/ IrqMayFail /\ Goes("tasklet", "failed")
  /\ UNCHANGED <<nl_sk, halted, misused, stream, irqVars, user>>

interrupt_open ==
  /\ Goes("irq", "loaded")
  /\ intEnabled' = TRUE
  /\ UNCHANGED <<nl_sk, halted, misused, stream, ready, scheduled, user>>

gpio_interrupt_init ==
  RegisterDevice \/ netlink_init \/ mmap_page_init \/ StreamInit \/ request_irq
    \/ interrupt_open

-----------------------------------------------------------------------------
(* gpio_interrupt_exit; data_stream's list of frames is always empty here. *)

\* device_destroy, class_destroy, unregister_chrdev.
RemoveDevice ==
  /\ MayUnload /\ ~Bound
  /\ Goes("loaded", "nodevice")
  /\ UNCHANGED <<nl_sk, halted, misused, stream, irqVars, user>>

netlink_exit ==
  /\ Goes("nodevice", "nosocket")
  /\ nl_sk' = FALSE
  /\ UNCHANGED <<halted, misused, stream, irqVars, user>>

\* The pages are freed under a program that has them mapped.
mmap_page_exit ==
  /\ Goes("nosocket", "nopages")
  /\ mapping' = IF mapping = "queue" THEN "other" ELSE mapping
  /\ UNCHANGED <<nl_sk, halted, misused, stream, irqVars, upc, file, signalled>>

\* Mutant: the interrupt is left enabled.
Mut_LeftEnabled ==
  /\ Goes("nopages", "closed")
  /\ UNCHANGED <<nl_sk, halted, misused, stream, irqVars, user>>

interrupt_close ==
  /\ Goes("nopages", "closed")
  /\ intEnabled' = FALSE
  /\ UNCHANGED <<nl_sk, halted, misused, stream, ready, scheduled, user>>

free_irq ==
  /\ Goes("closed", "freed")
  /\ UNCHANGED <<nl_sk, halted, misused, stream, irqVars, user>>

\* Mutant: the module goes without waiting for a pending tasklet.
Mut_NotKilled ==
  /\ Goes("freed", "unloaded")
  /\ file' = IF file = "live" THEN "stale" ELSE file
  /\ UNCHANGED <<nl_sk, halted, misused, stream, irqVars, upc, mapping, signalled>>

\* tasklet_kill waits for a pending tasklet to run; then the module is gone.
tasklet_kill ==
  /\ Goes("freed", "unloaded") /\ ~scheduled
  /\ file' = IF file = "live" THEN "stale" ELSE file
  /\ UNCHANGED <<nl_sk, halted, misused, stream, irqVars, upc, mapping, signalled>>

gpio_interrupt_exit ==
  RemoveDevice \/ netlink_exit \/ mmap_page_exit \/ interrupt_close \/ free_irq
    \/ tasklet_kill

-----------------------------------------------------------------------------
(* The interrupt and the tasklet, as in DsoRing without the frames. *)

FrameReady ==
  /\ ~ready /\ ready' = TRUE
  /\ UNCHANGED <<driver, stream, intEnabled, scheduled, user>>

irq_handler ==
  /\ ready /\ intEnabled /\ HandlerThere
  /\ intEnabled' = FALSE
  /\ IF full
       THEN irq' = TRUE /\ UNCHANGED scheduled
       ELSE scheduled' = TRUE /\ UNCHANGED irq
  /\ UNCHANGED <<driver, full, send_pid, ready, user>>

\* The tasklet takes the frame or finds the ring full, may signal, and unmasks.
\* netlink_exit does not clear nl_sk or send_pid: a signal after it goes through a
\* socket that has been freed, which may still look like one or take the kernel down.
\* Once the ring is gone the tasklet reads it through a null pointer.
tasklet_handler ==
  /\ scheduled /\ scheduled' = FALSE
  /\ \/ /\ QueueThere
        /\ \/ ready' = FALSE /\ UNCHANGED full
           \/ full' = TRUE /\ UNCHANGED ready
        /\ signalled' \in {signalled, upc = "running"}
        /\ intEnabled' = TRUE
        /\ UNCHANGED <<halted, misused>>
     \/ /\ QueueThere /\ send_pid /\ ~nl_sk
        /\ halted' = TRUE
        /\ UNCHANGED <<misused, full, ready, signalled, intEnabled>>
     \/ /\ ~QueueThere
        /\ halted' = TRUE /\ misused' = TRUE
        /\ UNCHANGED <<full, ready, signalled, intEnabled>>
  /\ UNCHANGED <<step, nl_sk, irq, send_pid, upc, file, mapping>>

-----------------------------------------------------------------------------
(* The user program: main, mmap_init, netlink_init and Udp_sendThread_t.   *)

\* mmap_init: open ...
Open ==
  /\ upc = "off" /\ Registered /\ (EarlyUser \/ step = "loaded")
  /\ upc' = "opened" /\ file' = "live"
  /\ halted' = ~CodeThere
  /\ UNCHANGED <<step, nl_sk, misused, stream, irqVars, mapping, signalled>>

\* A call through the operations of an open device whose module is gone.
NoCode == file = "stale" \/ ~CodeThere

\* ... and mmap: mem_mmap maps whatever share_memory points to.
mem_mmap ==
  /\ upc = "opened"
  /\ upc' = "mapped"
  /\ halted' = NoCode
  /\ mapping' = IF QueueThere /\ ~NoCode THEN "queue" ELSE "other"
  /\ UNCHANGED <<step, nl_sk, misused, stream, irqVars, file, signalled>>

\* The user's netlink_init returns early without a socket, and nobody looks.  A
\* module that is going away takes no new references.
Bind ==
  /\ upc = "mapped"
  /\ upc' = IF nl_sk /\ step \notin Unloading THEN "bound" ELSE "unbound"
  /\ UNCHANGED <<driver, stream, irqVars, file, mapping, signalled>>

\* Udp_sendThread_t reads the ring's front; without a socket its first message
\* then goes through a null pointer and ends the program (Die).
ReadFront ==
  /\ upc \in {"bound", "unbound"}
  /\ upc' = IF upc = "bound" THEN "begin" ELSE "dying"
  /\ misused' = (misused \/ mapping # "queue")
  /\ UNCHANGED <<step, nl_sk, halted, stream, irqVars, file, mapping, signalled>>

\* Either message clears `full' and starts the tasklet for a parked interrupt.
netlink_recv_msg ==
  /\ full' = FALSE /\ irq' = FALSE /\ send_pid' = TRUE
  /\ scheduled' = (scheduled \/ irq)
  /\ halted' = ~CodeThere
  /\ UNCHANGED <<step, nl_sk, misused, intEnabled, ready>>

Start ==
  /\ upc = "begin" /\ upc' = "running"
  /\ netlink_recv_msg
  /\ UNCHANGED <<file, mapping, signalled>>

Answer ==
  /\ upc = "running" /\ signalled
  /\ signalled' = FALSE
  /\ netlink_recv_msg
  /\ UNCHANGED <<upc, file, mapping>>

\* The program ends and its file is released, by test_close.
Die ==
  /\ upc # "off" /\ upc' = "off"
  /\ file' = "none" /\ mapping' = "none" /\ signalled' = FALSE
  /\ halted' = NoCode
  /\ UNCHANGED <<step, nl_sk, misused, stream, irqVars>>

User == Open \/ mem_mmap \/ Bind \/ ReadFront \/ Start \/ Answer \/ Die

Interrupt == FrameReady \/ irq_handler \/ tasklet_handler

Next ==
  \/ ~halted /\ gpio_interrupt_init
  \/ ~halted /\ gpio_interrupt_exit
  \/ ~halted /\ Interrupt
  \/ ~halted /\ User

Spec == Init /\ [][Next]_vars

-----------------------------------------------------------------------------
(* Properties *)

\* Whenever the tasklet is pending, tasklet_init is behind it and tasklet_kill
\* before it.  A program that comes while the driver loads sends its start message
\* to a half-made driver, and an interrupt comes at any point of the unloading.
TaskletMeetsDriver == scheduled => TaskletThere

\* The tasklet re-enables the interrupt whenever it runs, and exit disables it
\* before it waits for the tasklet: still, a driver that is gone has left the
\* interrupt disabled and nothing pending.
QuietAfterUnload == step = "unloaded" => ~intEnabled /\ ~scheduled

\* Sequeue.h asks that a queue be initialised before it is used.  The tasklet
\* uses it when it runs, the program when it reads front.
InitialisedBeforeUse == ~misused
=============================================================================
