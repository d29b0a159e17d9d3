---------------------------- MODULE NetlinkTest ----------------------------
(***************************************************************************)
(* The driver netlink_test.c and the program test_netlink.c, with which    *)
(* shared pages and netlink messages were tried out: the program maps the  *)
(* driver's pages, prints and unmaps them, and then sends ten messages and *)
(* waits for the answer to each.  Several processes may run it.            *)
(*                                                                         *)
(* netlink_recv_msg runs in the sender's system call, does not sleep, and  *)
(* answers to the static send_pid; on the one core of the AR9331 it is one *)
(* step.                                                                   *)
(***************************************************************************)
EXTENDS Naturals

CONSTANTS Users, NoUser,  \* processes, and send_pid = 0
          Messages,       \* messages a process sends: ten
          AllocMayFail    \* nlmsg_new may return NULL

ASSUME UsersAssumption == NoUser \notin Users
ASSUME MessagesAssumption == Messages \in Nat \ {0}
ASSUME ModeAssumption == AllocMayFail \in BOOLEAN

VARIABLES
  step,         \* where hello_init stands
  share_memory, \* there are pages
  send_pid,
  upc,          \* where each process stands
  mapping,      \* what it has mapped: "pages", "other" or nothing
  count,        \* the messages it has sent and had answered
  inbox,        \* the answers in its socket
  missed        \* history: processes whose answer found no memory

driver == <<step, share_memory, send_pid>>
vars == <<driver, upc, mapping, count, inbox, missed>>

Init ==
  /\ step = "unloaded" /\ share_memory = FALSE /\ send_pid = NoUser
  /\ upc = [u \in Users |-> "off"] /\ mapping = [u \in Users |-> "none"]
  /\ count = [u \in Users |-> 0] /\ inbox = [u \in Users |-> 0]
  /\ missed = {}

-----------------------------------------------------------------------------
(* The driver *)

\* hello_init: register_chrdev, which may fail without hello_init noticing; then
\* no pages are taken.
RegisterDevice ==
  /\ step = "unloaded"
  /\ step' \in {"device", "nodevice"}
  /\ send_pid' = NoUser
  /\ UNCHANGED <<share_memory, upc, mapping, count, inbox, missed>>

\* Without pages insmod dies in the attempt to mark them.
TakePages ==
  /\ step = "device" /\ step' \in {"pages", "failed"}
  /\ share_memory' = (step' = "pages")
  /\ UNCHANGED <<send_pid, upc, mapping, count, inbox, missed>>

\* netlink_kernel_create; when it fails the module is thrown out and leaves its
\* device behind.  What an open does after a load that failed is not modelled.
CreateSocket ==
  /\ \/ step = "pages" /\ step' \in {"loaded", "failed"}
     \/ step = "nodevice" /\ step' \in {"loaded_nodevice", "unloaded"}
  /\ UNCHANGED <<share_memory, send_pid, upc, mapping, count, inbox, missed>>

HasDevice == step \in {"device", "pages", "loaded"}
HasSocket == step \in {"loaded", "loaded_nodevice"}

\* A process with a netlink socket of this driver's protocol.
Bound(u) == upc[u] \in {"send", "wait"}

\* Mutant: an open device holds no reference (the operations have no owner).
Mut_NoOwner(u) == Bound(u)

\* mmapnopage_fops has an owner: an open or mapped device holds a reference to the
\* module, as a netlink socket does.
HoldsModule(u) == upc[u] \in {"opened", "mapped"} \/ Bound(u)

\* rmmod, refused while there are references; once it has begun nobody gets a new
\* one, so that hello_exit as a whole is out of the processes' sight.
hello_exit ==
  /\ HasSocket /\ ~\E u \in Users : HoldsModule(u)
  /\ step' = "unloaded" /\ share_memory' = FALSE
  /\ UNCHANGED <<send_pid, upc, mapping, count, inbox, missed>>

Driver == RegisterDevice \/ TakePages \/ CreateSocket \/ hello_exit

-----------------------------------------------------------------------------
(* The program: test_mmap ... *)

Moves(u, from, to) == upc[u] = from /\ upc' = [upc EXCEPT ![u] = to]

\* Without a device test_mmap returns at once.
Open(u) ==
  /\ step # "failed"
  /\ Moves(u, "off", IF HasDevice THEN "opened" ELSE "unmapped")
  /\ UNCHANGED <<driver, mapping, count, inbox, missed>>

\* mem_mmap maps whatever share_memory points to.
mem_mmap(u) ==
  /\ Moves(u, "opened", "mapped")
  /\ mapping' = [mapping EXCEPT ![u] = IF share_memory THEN "pages" ELSE "other"]
  /\ UNCHANGED <<driver, count, inbox, missed>>

Unmap(u) ==
  /\ Moves(u, "mapped", "unmapped")
  /\ mapping' = [mapping EXCEPT ![u] = "none"]
  /\ UNCHANGED <<driver, count, inbox, missed>>

\* ... and main.
Socket(u) ==
  /\ Moves(u, "unmapped", IF HasSocket THEN "send" ELSE "off")
  /\ UNCHANGED <<driver, mapping, count, inbox, missed>>

\* netlink_send_msg: nothing is sent without memory, or to nobody.
netlink_send_msg(u, pid) ==
  \/ /\ inbox' = IF Bound(pid) THEN [inbox EXCEPT ![pid] = @ + 1] ELSE inbox
     /\ UNCHANGED missed
  \/ /\ AllocMayFail
     /\ missed' = missed \cup {u}
     /\ UNCHANGED inbox

\* Mutant: the answer goes to whoever was noted before.
Mut_AnswersLast(u) ==
  /\ Moves(u, "send", "wait")
  /\ send_pid' = u
  /\ IF send_pid = NoUser THEN UNCHANGED <<inbox, missed>>
                          ELSE netlink_send_msg(u, send_pid)
  /\ UNCHANGED <<step, share_memory, mapping, count>>

\* sendmsg, and in it netlink_recv_msg, which notes the sender in send_pid and answers
\* whomever that names by then: the sender, as nothing comes between on one core.
Send(u) ==
  /\ Moves(u, "send", "wait")
  /\ send_pid' = u
  /\ netlink_send_msg(u, send_pid')
  /\ UNCHANGED <<step, share_memory, mapping, count>>

\* recvmsg returns the answer; after the last one the socket is closed.
Receive(u) ==
  /\ inbox[u] > 0
  /\ Moves(u, "wait", IF count[u] + 1 = Messages THEN "off" ELSE "send")
  /\ inbox' = [inbox EXCEPT ![u] = @ - 1]
  /\ count' = [count EXCEPT ![u] = (@ + 1) % Messages]
  /\ UNCHANGED <<driver, mapping, missed>>

\* The process ends: killed, or at a failed mmap (too many pages asked for).
Die(u) ==
  /\ upc[u] # "off"
  /\ upc' = [upc EXCEPT ![u] = "off"]
  /\ mapping' = [mapping EXCEPT ![u] = "none"]
  /\ count' = [count EXCEPT ![u] = 0] /\ inbox' = [inbox EXCEPT ![u] = 0]
  /\ missed' = missed \ {u}
  /\ UNCHANGED driver

User(u) ==
  \/ Open(u) \/ mem_mmap(u) \/ Unmap(u) \/ Socket(u) \/ Send(u)
  \/ Receive(u)

Next == Driver \/ \E u \in Users : User(u) \/ Die(u)

Spec == Init /\ [][Next]_vars

-----------------------------------------------------------------------------
(* Properties *)

\* However the processes' messages, deaths and restarts interleave, a process that
\* waits has its one answer, unless there was no memory for it: then no message of
\* another process wakes it.  One that does not wait has none left over for a later
\* message.
AnswerToSender ==
  \A u \in Users : inbox[u] = IF upc[u] = "wait" /\ u \notin missed THEN 1 ELSE 0

\* The pages are not freed while a process has them mapped.
MappedPagesStay == \A u \in Users : mapping[u] = "pages" => share_memory
=============================================================================
