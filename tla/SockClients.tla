---------------------------- MODULE SockClients ----------------------------
(***************************************************************************)
(* The clients of the user program: mthread.c and Linklist.c.              *)
(*                                                                         *)
(* Udp_recvThread hears a host announce itself and starts a Tcp_sendThread *)
(* for it, which connects, adds a node to the list socks_temp, waits for   *)
(* the host to close, and removes a node with its address.  Meanwhile      *)
(* Udp_sendThread_t walks the list for every frame (Socksfd_RunFuc) under  *)
(* the read lock.                                                          *)
(*                                                                         *)
(* Each connection opens one UDP socket, which is never closed, and adds   *)
(* one node: a node is named by its socket.  A writer holds the list for   *)
(* one action; the walk keeps its read lock from one action to the next.   *)
(***************************************************************************)
EXTENDS Naturals, FiniteSets, SequencesExt

CONSTANTS Hosts,      \* addresses that announce themselves
          Threads,    \* threads that can be alive at a time
          Fds,        \* UDP sockets the process may open
          NoHost, NoFd

ASSUME NoHostAssumption == NoHost \notin Hosts
ASSUME NoFdAssumption == NoFd \notin Fds
ASSUME ThreadsAssumption == IsFiniteSet(Threads)

VARIABLES
  receiving,   \* Udp_recvThread is in its loop
  temp,        \* its local, whose address every thread is started with
  tpc,         \* where each Tcp_sendThread stands
  addr,        \* its parameter
  udp_sock,    \* its local
  list,        \* socks_temp: the nodes from `begin' on
  address,     \* the address in each node
  open,        \* UDP sockets not closed
  spc,         \* where Socksfd_RunFuc stands
  pos,         \* the node it is at, or NoFd for NULL
  visited      \* history: the nodes this walk has sent to

threadVars == <<tpc, addr, udp_sock>>
listVars   == <<list, address, open>>
walkVars   == <<spc, pos, visited>>
vars       == <<receiving, temp, threadVars, listVars, walkVars>>

Init ==
  /\ receiving = TRUE /\ temp = NoHost
  /\ tpc = [t \in Threads |-> "none"] /\ addr = [t \in Threads |-> NoHost]
  /\ udp_sock = [t \in Threads |-> NoFd]
  /\ list = << >> /\ address = [f \in Fds |-> NoHost] /\ open = {}
  /\ spc = "idle" /\ pos = NoFd /\ visited = {}

\* The lock's writers wait for the walk.
Writable == spc = "idle"

\* exit(1) ends every thread; the program is launched again.
Exit ==
  /\ receiving' = TRUE /\ temp' = NoHost
  /\ tpc' = [t \in Threads |-> "none"] /\ addr' = [t \in Threads |-> NoHost]
  /\ udp_sock' = [t \in Threads |-> NoFd]
  /\ list' = << >> /\ address' = [f \in Fds |-> NoHost] /\ open' = {}
  /\ spc' = "idle" /\ pos' = NoFd /\ visited' = {}

-----------------------------------------------------------------------------
(* Udp_recvThread *)

\* A host's announcement goes into temp and a thread is started with &temp.
Announce(h, t) ==
  /\ receiving /\ tpc[t] = "none"
  /\ temp' = h
  /\ tpc' = [tpc EXCEPT ![t] = "started"]
  /\ UNCHANGED <<receiving, addr, udp_sock, listVars, walkVars>>

\* recvfrom fails or gets an empty datagram, and the thread returns.
StopReceiving ==
  /\ receiving
  /\ receiving' = FALSE
  /\ UNCHANGED <<temp, threadVars, listVars, walkVars>>

-----------------------------------------------------------------------------
(* Tcp_sendThread and connectTcp *)

\* The thread reads temp when it first runs: another announcement may have
\* overwritten it, and once Udp_recvThread has returned it may hold anything.
ReadAddr(t) ==
  /\ tpc[t] = "started"
  /\ \E h \in Hosts :
       /\ receiving => h = temp
       /\ addr' = [addr EXCEPT ![t] = h]
  /\ tpc' = [tpc EXCEPT ![t] = "connect"]
  /\ UNCHANGED <<receiving, temp, udp_sock, listVars, walkVars>>

\* connect, then createUdp, or exit(1) if either fails.
Connect(t) ==
  /\ tpc[t] = "connect"
  /\ \E f \in Fds \ open :
       /\ udp_sock' = [udp_sock EXCEPT ![t] = f]
       /\ open' = open \cup {f}
  /\ tpc' = [tpc EXCEPT ![t] = "add"]
  /\ UNCHANGED <<receiving, temp, addr, list, address, walkVars>>

ConnectFails(t) == tpc[t] = "connect" /\ Exit

\* Mutant: the node is appended without the write lock.
Mut_AddUnlocked(t) ==
  /\ tpc[t] = "add"
  /\ list' = Append(list, udp_sock[t])
  /\ address' = [address EXCEPT ![udp_sock[t]] = addr[t]]
  /\ tpc' = [tpc EXCEPT ![t] = "recv"]
  /\ UNCHANGED <<receiving, temp, addr, udp_sock, open, walkVars>>

Socksfd_Add(t) ==
  /\ tpc[t] = "add" /\ Writable
  /\ list' = Append(list, udp_sock[t])
  /\ address' = [address EXCEPT ![udp_sock[t]] = addr[t]]
  /\ tpc' = [tpc EXCEPT ![t] = "recv"]
  /\ UNCHANGED <<receiving, temp, addr, udp_sock, open, walkVars>>

\* recv returns 0 or an error: the host is gone.
HostGone(t) ==
  /\ tpc[t] = "recv"
  /\ tpc' = [tpc EXCEPT ![t] = "delete"]
  /\ UNCHANGED <<receiving, temp, addr, udp_sock, listVars, walkVars>>

\* Mutant: the walk that deletes does not stop at the first node.
Mut_DeleteAll(t) ==
  /\ tpc[t] = "delete" /\ Writable
  /\ list' = SelectSeq(list, LAMBDA f : address[f] # addr[t])
  /\ tpc' = [tpc EXCEPT ![t] = "close"]
  /\ UNCHANGED <<receiving, temp, addr, udp_sock, address, open, walkVars>>

\* The first node with the thread's address goes, be it the thread's own or not.
Socksfd_Delete(t) ==
  /\ tpc[t] = "delete" /\ Writable
  /\ LET i == SelectInSeq(list, LAMBDA f : address[f] = addr[t]) IN
     list' = IF i = 0 THEN list ELSE RemoveAt(list, i)
  /\ tpc' = [tpc EXCEPT ![t] = "close"]
  /\ UNCHANGED <<receiving, temp, addr, udp_sock, address, open, walkVars>>

\* Mutant: the thread closes the UDP socket it opened, too.
Mut_ClosesUdp(t) ==
  /\ tpc[t] = "close"
  /\ open' = open \ {udp_sock[t]}
  /\ tpc' = [tpc EXCEPT ![t] = "none"]
  /\ addr' = [addr EXCEPT ![t] = NoHost]
  /\ udp_sock' = [udp_sock EXCEPT ![t] = NoFd]
  /\ UNCHANGED <<receiving, temp, list, address, walkVars>>

\* close(sock_fd): only the TCP socket, which nobody else uses.
Close(t) ==
  /\ tpc[t] = "close"
  /\ tpc' = [tpc EXCEPT ![t] = "none"]
  /\ addr' = [addr EXCEPT ![t] = NoHost]
  /\ udp_sock' = [udp_sock EXCEPT ![t] = NoFd]
  /\ UNCHANGED <<receiving, temp, listVars, walkVars>>

Client(t) ==
  \/ ReadAddr(t) \/ Connect(t) \/ ConnectFails(t) \/ Socksfd_Add(t)
  \/ HostGone(t) \/ Socksfd_Delete(t) \/ Close(t)

-----------------------------------------------------------------------------
(* Socksfd_RunFuc(&socks_temp, sendUdp_t), once for every frame. *)

WalkBegin ==
  /\ spc = "idle"
  /\ spc' = "walk"
  /\ pos' = IF list = << >> THEN NoFd ELSE Head(list)
  /\ UNCHANGED <<receiving, temp, threadVars, listVars, visited>>

\* The node after f; what a freed node points to is anything.
NextOf(f) ==
  LET i == SelectInSeq(list, LAMBDA g : g = f) IN
  IF i = 0 THEN Fds \cup {NoFd}
  ELSE IF i = Len(list) THEN {NoFd} ELSE {list[i + 1]}

WalkStep ==
  /\ spc = "walk" /\ pos # NoFd
  /\ visited' = visited \cup {pos}
  /\ pos' \in NextOf(pos)
  /\ UNCHANGED <<receiving, temp, threadVars, listVars, spc>>

WalkEnd ==
  /\ spc = "walk" /\ pos = NoFd
  /\ spc' = "idle" /\ visited' = {}
  /\ UNCHANGED <<receiving, temp, threadVars, listVars, pos>>

Walk == WalkBegin \/ WalkStep \/ WalkEnd

-----------------------------------------------------------------------------
Next ==
  \/ \E h \in Hosts, t \in Threads : Announce(h, t)
  \/ StopReceiving
  \/ \E t \in Threads : Client(t)
  \/ Walk

Spec == Init /\ [][Next]_vars

-----------------------------------------------------------------------------
(* Properties *)

Nodes == {list[i] : i \in 1 .. Len(list)}

\* A host is in the list as many times as it has connections, although threads
\* of the same host remove each other's nodes, and a thread may have been started
\* with another host's address.
ListedOncePerConnection ==
  \A h \in Hosts :
    Cardinality({f \in Nodes : address[f] = h})
      = Cardinality({t \in Threads : tpc[t] \in {"recv", "delete"} /\ addr[t] = h})

\* Socksfd_Delete looks at the first node before asking whether there is one: it
\* is only called when a node with its address is there.
DeleteFinds ==
  \A t \in Threads :
    tpc[t] = "delete" => \E f \in Nodes : address[f] = addr[t]

\* The walk is always at a node that is still in the list, and sends on a socket
\* that is still open, even when the node belongs to a thread that has ended.
SendsOnOpenSocket ==
  spc = "walk" /\ pos # NoFd => pos \in Nodes /\ pos \in open

\* Every frame goes to every client: a walk that is over has been to every node.
FrameToEveryClient ==
  spc = "walk" /\ pos = NoFd => visited = Nodes
=============================================================================
