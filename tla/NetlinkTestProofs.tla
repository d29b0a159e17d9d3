------------------------- MODULE NetlinkTestProofs -------------------------
(***************************************************************************)
(* Proofs about NetlinkTest for every number of processes and messages.    *)
(***************************************************************************)
EXTENDS NetlinkTest, TLAPS

TypeInv ==
  /\ upc \in [Users -> {"off", "opened", "mapped", "unmapped", "send", "wait"}]
  /\ mapping \in [Users -> {"none", "pages", "other"}]
  /\ count \in [Users -> Nat]
  /\ inbox \in [Users -> Nat]
  /\ missed \subseteq Users

\* Whose answer found no memory is still waiting for it.
MissedWaits == \A u \in missed : upc[u] = "wait" /\ inbox[u] = 0

\* A mapping is there only while the device is open, and pages only while the module
\* is, which the open device keeps.
MappedHolds == \A u \in Users : mapping[u] = "pages" => upc[u] = "mapped"
PagesThere == share_memory => step \in {"pages", "loaded", "failed"}

NetInv ==
  /\ TypeInv /\ MissedWaits /\ AnswerToSender
  /\ MappedHolds /\ PagesThere /\ MappedPagesStay

\* Nobody runs and nothing is loaded.
LEMMA NetInit == Init => NetInv
  BY DEF Init, NetInv, TypeInv, MissedWaits, AnswerToSender, MappedHolds, PagesThere,
         MappedPagesStay

\* Loading and unloading the driver.
LEMMA DriverStep ==
  ASSUME NetInv, Driver
  PROVE  NetInv'
  <1> USE DEF NetInv, TypeInv, MissedWaits, AnswerToSender, MappedHolds, PagesThere,
              MappedPagesStay
  <1>1. CASE RegisterDevice
    BY <1>1 DEF RegisterDevice
  <1>2. CASE TakePages
    BY <1>2 DEF TakePages
  <1>3. CASE CreateSocket
    BY <1>3 DEF CreateSocket
  <1>4. CASE hello_exit
    BY <1>4 DEF hello_exit, HoldsModule, HasSocket
  <1> QED BY <1>1, <1>2, <1>3, <1>4 DEF Driver

\* A process opens, maps and unmaps the device and gets its socket.
LEMMA MapStep ==
  ASSUME NetInv, NEW u \in Users, Open(u) \/ mem_mmap(u) \/ Unmap(u) \/ Socket(u)
  PROVE  NetInv'
  <1> USE DEF NetInv, TypeInv, MissedWaits, AnswerToSender, MappedHolds, PagesThere,
              MappedPagesStay, Moves, driver
  <1>1. CASE Open(u)
    BY <1>1 DEF Open
  <1>2. CASE mem_mmap(u)
    BY <1>2 DEF mem_mmap
  <1>3. CASE Unmap(u)
    BY <1>3 DEF Unmap
  <1>4. CASE Socket(u)
    BY <1>4 DEF Socket
  <1> QED BY <1>1, <1>2, <1>3, <1>4

\* A message and its answer: the sender, bound and with an empty socket, gets one
\* answer, or is noted as having missed it.
LEMMA SendStep ==
  ASSUME NetInv, NEW u \in Users, Send(u)
  PROVE  NetInv'
  <1> USE DEF NetInv, TypeInv
  <1>1. /\ upc[u] = "send" /\ upc' = [upc EXCEPT ![u] = "wait"]
        /\ UNCHANGED <<step, share_memory, mapping, count>>
        /\ Bound(u) /\ u \notin missed /\ inbox[u] = 0
    BY DEF Send, Moves, Bound, MissedWaits, AnswerToSender
  <1>2. \/ inbox' = [inbox EXCEPT ![u] = @ + 1] /\ missed' = missed
        \/ inbox' = inbox /\ missed' = missed \cup {u}
    BY <1>1 DEF Send, netlink_send_msg
  <1>3. TypeInv' /\ MissedWaits'
    BY <1>1, <1>2 DEF MissedWaits
  <1>4. AnswerToSender'
    BY <1>1, <1>2 DEF AnswerToSender
  <1>5. MappedHolds' /\ PagesThere' /\ MappedPagesStay'
    BY <1>1 DEF MappedHolds, PagesThere, MappedPagesStay
  <1> QED BY <1>3, <1>4, <1>5

\* The answer is received.
LEMMA ReceiveStep ==
  ASSUME NetInv, NEW u \in Users, Receive(u)
  PROVE  NetInv'
  <1> USE DEF NetInv, TypeInv
  <1>1. /\ upc[u] = "wait"
        /\ upc' \in [Users -> {"off", "opened", "mapped", "unmapped", "send", "wait"}]
        /\ upc'[u] \in {"off", "send"}
        /\ \A v \in Users \ {u} : upc'[v] = upc[v]
        /\ UNCHANGED <<step, share_memory, mapping, missed>>
        /\ u \notin missed /\ inbox[u] = 1
        /\ inbox' = [inbox EXCEPT ![u] = @ - 1]
    BY DEF Receive, Moves, MissedWaits, AnswerToSender, driver
  <1>2. count' \in [Users -> Nat]
    BY MessagesAssumption DEF Receive
  <1>3. TypeInv' /\ MissedWaits'
    <2>1. inbox' = [inbox EXCEPT ![u] = 0]
      BY <1>1
    <2>2. inbox' \in [Users -> Nat]
      BY <2>1
    <2>3. \A v \in missed : v \in Users /\ v # u /\ inbox'[v] = inbox[v]
      BY <1>1, <2>1
    <2>4. TypeInv'
      BY <1>1, <1>2, <2>2
    <2>5. MissedWaits'
      BY <1>1, <2>3 DEF MissedWaits
    <2> QED BY <2>4, <2>5
  <1>4. AnswerToSender'
    BY <1>1 DEF AnswerToSender
  <1>5. MappedHolds' /\ PagesThere' /\ MappedPagesStay'
    BY <1>1 DEF MappedHolds, PagesThere, MappedPagesStay
  <1> QED BY <1>3, <1>4, <1>5

\* A process ends, with its socket and its mapping.
LEMMA DieStep ==
  ASSUME NetInv, NEW u \in Users, Die(u)
  PROVE  NetInv'
  BY DEF Die, NetInv, TypeInv, MissedWaits, AnswerToSender, MappedHolds, PagesThere,
         MappedPagesStay, driver

\* Every step of driver and processes keeps the invariant.
LEMMA NetStep == NetInv /\ [Next]_vars => NetInv'
  <1> SUFFICES ASSUME NetInv, [Next]_vars PROVE NetInv'
    OBVIOUS
  <1>1. CASE Driver
    BY <1>1, DriverStep
  <1>2. ASSUME NEW u \in Users, User(u) PROVE NetInv'
    BY <1>2, MapStep, SendStep, ReceiveStep DEF User
  <1>3. ASSUME NEW u \in Users, Die(u) PROVE NetInv'
    BY <1>3, DieStep
  <1>4. CASE UNCHANGED vars
    BY <1>4 DEF vars, driver, NetInv, TypeInv, MissedWaits, AnswerToSender,
                MappedHolds, PagesThere, MappedPagesStay
  <1> QED BY <1>1, <1>2, <1>3, <1>4 DEF Next

\* The invariant holds in every reachable state.
THEOREM NetInvariance == Spec => []NetInv
  <1> QED BY NetInit, NetStep, PTL DEF Spec

\* Every process gets its own answers and no others, however many there are.
THEOREM AnswersReachSenders == Spec => []AnswerToSender
  <1>1. NetInv => AnswerToSender
    BY DEF NetInv
  <1> QED BY <1>1, NetInvariance, PTL

\* Pages are not freed while a process has them mapped.
THEOREM MappedPagesAlwaysStay == Spec => []MappedPagesStay
  <1>1. NetInv => MappedPagesStay
    BY DEF NetInv
  <1> QED BY <1>1, NetInvariance, PTL
=============================================================================
