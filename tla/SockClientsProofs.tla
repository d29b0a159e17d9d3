------------------------- MODULE SockClientsProofs -------------------------
(***************************************************************************)
(* Proofs about the client list, for any hosts, threads and sockets.       *)
(***************************************************************************)
EXTENDS SockClients, TLAPS, FiniteSetTheorems, SequenceTheorems

-----------------------------------------------------------------------------
(* The invariant *)

ClientType ==
  /\ receiving \in BOOLEAN /\ temp \in Hosts \cup {NoHost}
  /\ tpc \in [Threads -> {"none", "started", "connect", "add", "recv", "delete",
                          "close"}]
  /\ addr \in [Threads -> Hosts \cup {NoHost}]
  /\ udp_sock \in [Threads -> Fds \cup {NoFd}]
  /\ list \in Seq(Fds) /\ address \in [Fds -> Hosts \cup {NoHost}]
  /\ open \in SUBSET Fds
  /\ spc \in {"idle", "walk"} /\ pos \in Fds \cup {NoFd} /\ visited \in SUBSET Fds

\* A thread that has a connection has the address of a host.
Addressed ==
  \A t \in Threads :
    tpc[t] \in {"connect", "add", "recv", "delete"} => addr[t] \in Hosts

\* The sockets of threads that have yet to add theirs are in no node, nor each
\* other's.
Fresh ==
  /\ \A t \in Threads : tpc[t] = "add" => udp_sock[t] \in open \ Nodes
  /\ \A t, u \in Threads :
       tpc[t] = "add" /\ tpc[u] = "add" /\ t # u => udp_sock[t] # udp_sock[u]

\* A node is in the list once, and its socket is open.
Listed ==
  /\ \A i, j \in 1 .. Len(list) : list[i] = list[j] => i = j
  /\ Nodes \subseteq open

\* The walk is at a node, and has been to those before it.
Walked ==
  /\ spc = "idle" => visited = {}
  /\ spc = "walk" =>
       IF pos = NoFd
         THEN visited = Nodes
         ELSE \E i \in 1 .. Len(list) :
                pos = list[i] /\ visited = {list[j] : j \in 1 .. i - 1}

ClientInv ==
  ClientType /\ Addressed /\ Fresh /\ Listed /\ Walked /\ ListedOncePerConnection

\* What ListedOncePerConnection counts.
NodesOf(h)     == {f \in Nodes : address[f] = h}
Connections(h) == {t \in Threads : tpc[t] \in {"recv", "delete"} /\ addr[t] = h}

-----------------------------------------------------------------------------
(* Sequences and sets *)

\* A set of numbers has a least.
LEMMA LeastOf ==
  ASSUME NEW I \in SUBSET Nat, I # {}
  PROVE  Min(I) \in I
  <1>1. \E x \in I : \A y \in I : ~(<<y, x>> \in OpToRel(<, Nat))
    BY NatLessThanWellFounded, WFMin
  <1>2. PICK x \in I : \A y \in I : ~(y < x)
    BY <1>1 DEF OpToRel
  <1>3. \A y \in I : x <= y
    BY <1>2
  <1> QED BY <1>3 DEF Min

\* What is left when a place is removed.
LEMMA Removed ==
  ASSUME NEW s \in Seq(Fds), NEW i \in 1 .. Len(s)
  PROVE  /\ RemoveAt(s, i) \in Seq(Fds)
         /\ Len(RemoveAt(s, i)) = Len(s) - 1
         /\ \A k \in 1 .. Len(s) - 1 :
              RemoveAt(s, i)[k] = s[IF k < i THEN k ELSE k + 1]
  <1> DEFINE a == SubSeq(s, 1, i - 1)
             b == SubSeq(s, i + 1, Len(s))
  <1>1. Len(s) \in Nat /\ i \in Int
    OBVIOUS
  <1>2. a \in Seq(Fds) /\ Len(a) = i - 1 /\ \A k \in 1 .. i - 1 : a[k] = s[k]
    BY <1>1, SubSeqProperties
  <1>3. /\ b \in Seq(Fds) /\ Len(b) = Len(s) - i
        /\ \A k \in 1 .. Len(s) - i : b[k] = s[i + k]
    BY <1>1, SubSeqProperties
  <1> HIDE DEF a, b
  <1>4. /\ a \o b \in Seq(Fds) /\ Len(a \o b) = Len(s) - 1
        /\ \A k \in 1 .. Len(s) - 1 :
             (a \o b)[k] = IF k < i THEN a[k] ELSE b[k - (i - 1)]
    <2>1. /\ a \o b \in Seq(Fds) /\ Len(a \o b) = Len(a) + Len(b)
          /\ \A k \in 1 .. Len(a) + Len(b) :
               (a \o b)[k] = IF k <= Len(a) THEN a[k] ELSE b[k - Len(a)]
      <3>1. a \in Seq(Fds) /\ b \in Seq(Fds)
        BY <1>2, <1>3
      <3> QED BY <3>1, ConcatProperties, Zenon
    <2>2. Len(a) + Len(b) = Len(s) - 1
      BY <1>1, <1>2, <1>3
    <2>3. \A k \in 1 .. Len(s) - 1 : k <= Len(a) <=> k < i
      BY <1>1, <1>2
    <2> QED BY <1>2, <2>1, <2>2, <2>3
  <1>5. \A k \in 1 .. Len(s) - 1 :
          (a \o b)[k] = s[IF k < i THEN k ELSE k + 1]
    <2> TAKE k \in 1 .. Len(s) - 1
    <2>1. CASE k < i
      BY <1>2, <1>4, <2>1
    <2>2. CASE ~(k < i)
      <3>1. k - (i - 1) \in 1 .. Len(s) - i /\ i + (k - (i - 1)) = k + 1
        BY <1>1, <2>2
      <3> QED BY <1>3, <1>4, <2>2, <3>1
    <2> QED BY <2>1, <2>2
  <1> QED BY <1>4, <1>5 DEF RemoveAt, a, b

\* The nodes are finitely many, and so are the connections.
LEMMA Finite ==
  ASSUME ClientType
  PROVE  /\ IsFiniteSet(Nodes)
         /\ \A h : IsFiniteSet(NodesOf(h)) /\ IsFiniteSet(Connections(h))
  <1>1. Len(list) \in Nat
    BY DEF ClientType
  <1>2. IsFiniteSet(1 .. Len(list))
    BY <1>1, FS_Interval
  <1> DEFINE f == [i \in 1 .. Len(list) |-> list[i]]
  <1>3. f \in Surjection(1 .. Len(list), Nodes)
    BY DEF Surjection, Nodes
  <1>4. IsFiniteSet(Nodes)
    BY <1>2, <1>3, FS_Surjection
  <1>5. \A h : NodesOf(h) \in SUBSET Nodes /\ Connections(h) \in SUBSET Threads
    BY DEF NodesOf, Connections
  <1> QED BY <1>4, <1>5, FS_Subset, ThreadsAssumption

\* A thread about to delete finds a node with its address.
LEMMA Finds ==
  ASSUME ClientInv, NEW t \in Threads, tpc[t] \in {"recv", "delete"}
  PROVE  \E i \in 1 .. Len(list) : address[list[i]] = addr[t]
  <1> DEFINE h == addr[t]
  <1>1. h \in Hosts
    BY DEF ClientInv, Addressed
  <1>2. Connections(h) # {}
    BY DEF Connections
  <1>3. IsFiniteSet(Connections(h)) /\ IsFiniteSet(NodesOf(h))
    BY Finite DEF ClientInv
  <1>4. Cardinality(NodesOf(h)) = Cardinality(Connections(h))
    BY <1>1 DEF ClientInv, ListedOncePerConnection, NodesOf, Connections
  <1>5. NodesOf(h) # {}
    BY <1>2, <1>3, <1>4, FS_EmptySet
  <1> QED BY <1>5 DEF NodesOf, Nodes

-----------------------------------------------------------------------------
(* The invariant is inductive *)

\* Nothing is listed, and nobody connected, when the program starts.
LEMMA Starts == Init => ClientInv
  <1> SUFFICES ASSUME Init PROVE ClientInv
    OBVIOUS
  <1>1. list = << >> /\ Len(list) = 0 /\ Nodes = {}
    BY DEF Init, Nodes
  <1>2. \A h : {f \in Nodes : address[f] = h} = {}
    BY <1>1
  <1>3. \A h : {t \in Threads : tpc[t] \in {"recv", "delete"} /\ addr[t] = h} = {}
    BY DEF Init
  <1>4. ListedOncePerConnection
    BY <1>2, <1>3 DEF ListedOncePerConnection
  <1>5. ClientType
    BY DEF Init, ClientType
  <1>6. Addressed /\ Fresh
    BY DEF Init, Addressed, Fresh
  <1>7. Listed /\ Walked
    BY <1>1 DEF Init, Listed, Walked
  <1> QED BY <1>4, <1>5, <1>6, <1>7 DEF ClientInv

\* exit(1) leads back to the start.
LEMMA ExitKeeps == Exit => ClientInv'
  <1>1. Exit => Init'
    BY DEF Exit, Init
  <1> QED BY <1>1, Starts, PTL

\* A step that leaves the list alone leaves its nodes alone.
LEMMA SameNodes ==
  ASSUME list' = list, address' = address
  PROVE  Nodes' = Nodes /\ \A h : NodesOf(h)' = NodesOf(h)
  BY DEF Nodes, NodesOf

\* A step that ends or starts no connection keeps the count.
LEMMA SameCount ==
  ASSUME ListedOncePerConnection, list' = list, address' = address,
         \A h \in Hosts : Connections(h)' = Connections(h)
  PROVE  ListedOncePerConnection'
  <1>1. \A h \in Hosts : Cardinality(NodesOf(h)') = Cardinality(Connections(h)')
    BY SameNodes DEF ListedOncePerConnection, NodesOf, Connections
  <1> QED BY <1>1 DEF ListedOncePerConnection, NodesOf, Connections

LEMMA AnnounceKeeps ==
  ASSUME ClientInv, NEW h \in Hosts, NEW t \in Threads, Announce(h, t)
  PROVE  ClientInv'
  <1> USE DEF ClientInv
  <1>1. ClientType'
    BY DEF ClientType, Announce, listVars, walkVars
  <1>2. Addressed'
    BY DEF ClientType, Addressed, Announce
  <1>3. Nodes' = Nodes
    BY SameNodes DEF Announce, listVars
  <1>4. Fresh'
    BY <1>3 DEF ClientType, Fresh, Announce, listVars
  <1>5. Listed' /\ Walked'
    BY <1>3 DEF Listed, Walked, Announce, listVars, walkVars
  <1>6. \A g \in Hosts : Connections(g)' = Connections(g)
    BY DEF ClientType, Connections, Announce
  <1>7. ListedOncePerConnection'
    BY <1>6, SameCount DEF Announce, listVars
  <1> QED BY <1>1, <1>2, <1>4, <1>5, <1>7

LEMMA StopReceivingKeeps ==
  ASSUME ClientInv, StopReceiving
  PROVE  ClientInv'
  <1> USE DEF ClientInv
  <1>1. ClientType'
    BY DEF ClientType, StopReceiving, threadVars, listVars, walkVars
  <1>2. Nodes' = Nodes
    BY SameNodes DEF StopReceiving, listVars
  <1>3. Addressed' /\ Fresh'
    BY <1>2 DEF Addressed, Fresh, StopReceiving, threadVars, listVars
  <1>4. Listed' /\ Walked'
    BY <1>2 DEF Listed, Walked, StopReceiving, listVars, walkVars
  <1>5. \A g \in Hosts : Connections(g)' = Connections(g)
    BY DEF Connections, StopReceiving, threadVars
  <1>6. ListedOncePerConnection'
    BY <1>5, SameCount DEF StopReceiving, listVars
  <1> QED BY <1>1, <1>3, <1>4, <1>6

LEMMA ReadAddrKeeps ==
  ASSUME ClientInv, NEW t \in Threads, ReadAddr(t)
  PROVE  ClientInv'
  <1> USE DEF ClientInv
  <1>1. PICK h \in Hosts : addr' = [addr EXCEPT ![t] = h]
    BY DEF ReadAddr
  <1>2. ClientType'
    BY <1>1 DEF ClientType, ReadAddr, listVars, walkVars
  <1>3. Addressed'
    BY <1>1 DEF ClientType, Addressed, ReadAddr
  <1>4. Nodes' = Nodes
    BY SameNodes DEF ReadAddr, listVars
  <1>5. Fresh'
    BY <1>4 DEF ClientType, Fresh, ReadAddr, listVars
  <1>6. Listed' /\ Walked'
    BY <1>4 DEF Listed, Walked, ReadAddr, listVars, walkVars
  <1>7. \A g \in Hosts : Connections(g)' = Connections(g)
    BY <1>1 DEF ClientType, Connections, ReadAddr
  <1>8. ListedOncePerConnection'
    BY <1>7, SameCount DEF ReadAddr, listVars
  <1> QED BY <1>2, <1>3, <1>5, <1>6, <1>8

\* The new socket is none of those that are open.
LEMMA ConnectKeeps ==
  ASSUME ClientInv, NEW t \in Threads, Connect(t)
  PROVE  ClientInv'
  <1> USE DEF ClientInv
  <1>1. PICK f \in Fds \ open : /\ udp_sock' = [udp_sock EXCEPT ![t] = f]
                               /\ open' = open \cup {f}
    BY DEF Connect
  <1>2. ClientType'
    BY <1>1 DEF ClientType, Connect, walkVars
  <1>3. Addressed'
    BY DEF ClientType, Addressed, Connect
  <1>4. Nodes' = Nodes
    BY SameNodes DEF Connect
  <1>5. Fresh'
    <2>1. \A u \in Threads : tpc'[u] = "add" =>
            \/ u = t /\ udp_sock'[u] = f
            \/ u # t /\ tpc[u] = "add" /\ udp_sock'[u] = udp_sock[u]
      BY <1>1 DEF ClientType, Connect
    <2>2. f \notin Nodes
      BY DEF Listed
    <2>3. \A u \in Threads : tpc'[u] = "add" => udp_sock'[u] \in open' \ Nodes'
      BY <1>1, <1>4, <2>1, <2>2 DEF Fresh
    <2>4. \A u, v \in Threads :
            tpc'[u] = "add" /\ tpc'[v] = "add" /\ u # v
              => udp_sock'[u] # udp_sock'[v]
      BY <2>1 DEF Fresh
    <2> QED BY <2>3, <2>4 DEF Fresh
  <1>6. Listed' /\ Walked'
    BY <1>1, <1>4 DEF Listed, Walked, Connect, walkVars
  <1>7. \A g \in Hosts : Connections(g)' = Connections(g)
    BY DEF ClientType, Connections, Connect
  <1>8. ListedOncePerConnection'
    BY <1>7, SameCount DEF Connect
  <1> QED BY <1>2, <1>3, <1>5, <1>6, <1>8

\* One node more, and one connection more, of the same host.
LEMMA AddKeeps ==
  ASSUME ClientInv, NEW t \in Threads, Socksfd_Add(t)
  PROVE  ClientInv'
  <1> USE DEF ClientInv
  <1> DEFINE f == udp_sock[t]
  <1>1. f \in Fds /\ f \in open /\ f \notin Nodes
    BY DEF Fresh, ClientType, Socksfd_Add
  <1>2. addr[t] \in Hosts
    BY DEF Addressed, Socksfd_Add
  <1>3. /\ Len(list) \in Nat /\ list' \in Seq(Fds) /\ Len(list') = Len(list) + 1
        /\ \A i \in 1 .. Len(list) : list'[i] = list[i]
        /\ list'[Len(list) + 1] = f
    BY <1>1 DEF ClientType, Socksfd_Add
  <1>4. Nodes' = Nodes \cup {f}
    BY <1>3 DEF Nodes
  <1>5. /\ address' \in [Fds -> Hosts \cup {NoHost}] /\ address'[f] = addr[t]
        /\ \A g \in Nodes : address'[g] = address[g]
    BY <1>1, <1>2 DEF ClientType, Socksfd_Add
  <1>6. ClientType'
    BY <1>3, <1>5 DEF ClientType, Socksfd_Add, walkVars
  <1>7. Addressed'
    BY DEF ClientType, Addressed, Socksfd_Add
  <1>8. Fresh'
    <2>1. \A u \in Threads : tpc'[u] = "add" =>
            u # t /\ tpc[u] = "add" /\ udp_sock'[u] = udp_sock[u]
      BY DEF ClientType, Socksfd_Add
    <2>2. tpc[t] = "add" /\ open' = open
      BY DEF Socksfd_Add
    <2> QED BY <1>4, <2>1, <2>2 DEF Fresh
  <1>9. Listed'
    <2>1. \A i, j \in 1 .. Len(list') : list'[i] = list'[j] => i = j
      <3> TAKE i, j \in 1 .. Len(list')
      <3>1. \A k \in 1 .. Len(list) : list[k] # f
        BY <1>1 DEF Nodes
      <3>2. \A k \in 1 .. Len(list') : k \in 1 .. Len(list) \/ k = Len(list) + 1
        BY <1>3
      <3> QED BY <1>3, <3>1, <3>2 DEF Listed
    <2> QED BY <1>1, <1>4, <2>1 DEF Listed, Socksfd_Add
  <1>10. Walked'
    BY DEF Walked, Socksfd_Add, Writable, walkVars
  <1>11. ASSUME NEW h \in Hosts
         PROVE  Cardinality(NodesOf(h)') = Cardinality(Connections(h)')
    <2>1. Cardinality(NodesOf(h)) = Cardinality(Connections(h))
      BY DEF ListedOncePerConnection, NodesOf, Connections
    <2>2. CASE h # addr[t]
      <3>1. NodesOf(h)' = NodesOf(h)
        BY <1>4, <1>5, <2>2 DEF NodesOf
      <3>2. Connections(h)' = Connections(h)
        BY <2>2 DEF ClientType, Connections, Socksfd_Add
      <3> QED BY <2>1, <3>1, <3>2
    <2>3. CASE h = addr[t]
      <3>1. NodesOf(h)' = NodesOf(h) \cup {f} /\ f \notin NodesOf(h)
        BY <1>1, <1>4, <1>5, <2>3 DEF NodesOf
      <3>2. Connections(h)' = Connections(h) \cup {t} /\ t \notin Connections(h)
        BY <2>3 DEF ClientType, Connections, Socksfd_Add
      <3>3. IsFiniteSet(NodesOf(h)) /\ IsFiniteSet(Connections(h))
        BY Finite
      <3>4. Cardinality(NodesOf(h) \cup {f}) = Cardinality(NodesOf(h)) + 1
        BY <3>1, <3>3, FS_AddElement
      <3>5. Cardinality(Connections(h) \cup {t}) = Cardinality(Connections(h)) + 1
        BY <3>2, <3>3, FS_AddElement
      <3> QED BY <2>1, <3>1, <3>2, <3>4, <3>5
    <2> QED BY <2>2, <2>3
  <1>12. ListedOncePerConnection'
    BY <1>11 DEF ListedOncePerConnection, NodesOf, Connections
  <1> QED BY <1>6, <1>7, <1>8, <1>9, <1>10, <1>12

LEMMA HostGoneKeeps ==
  ASSUME ClientInv, NEW t \in Threads, HostGone(t)
  PROVE  ClientInv'
  <1> USE DEF ClientInv
  <1>1. ClientType'
    BY DEF ClientType, HostGone, listVars, walkVars
  <1>2. Nodes' = Nodes
    BY SameNodes DEF HostGone, listVars
  <1>3. Addressed'
    BY DEF ClientType, Addressed, HostGone
  <1>4. Fresh'
    BY <1>2 DEF ClientType, Fresh, HostGone, listVars
  <1>5. Listed' /\ Walked'
    BY <1>2 DEF Listed, Walked, HostGone, listVars, walkVars
  <1>6. \A g \in Hosts : Connections(g)' = Connections(g)
    BY DEF ClientType, Connections, HostGone
  <1>7. ListedOncePerConnection'
    BY <1>6, SameCount DEF HostGone, listVars
  <1> QED BY <1>1, <1>3, <1>4, <1>5, <1>7

\* One node less, and one connection less, of the same host.
LEMMA DeleteKeeps ==
  ASSUME ClientInv, NEW t \in Threads, Socksfd_Delete(t)
  PROVE  ClientInv'
  <1> USE DEF ClientInv
  <1> DEFINE i == SelectInSeq(list, LAMBDA f : address[f] = addr[t])
             f == list[i]
  <1>1. list \in Seq(Fds) /\ Len(list) \in Nat
    BY DEF ClientType
  <1>2. \E k \in 1 .. Len(list) : address[list[k]] = addr[t]
    BY Finds DEF Socksfd_Delete
  <1>3. i \in 1 .. Len(list) /\ address[f] = addr[t]
    <2> DEFINE I == {k \in 1 .. Len(list) : address[list[k]] = addr[t]}
    <2>1. I \in SUBSET Nat /\ I # {}
      BY <1>1, <1>2
    <2>2. Min(I) \in I
      BY <2>1, LeastOf
    <2>3. i = Min(I)
      BY <2>1 DEF SelectInSeq
    <2> QED BY <2>2, <2>3
  <1>4. list' = RemoveAt(list, i)
    BY <1>3 DEF Socksfd_Delete
  <1> HIDE DEF i
  <1>5. f \in Nodes
    BY <1>3 DEF Nodes
  <1>6. /\ list' \in Seq(Fds) /\ Len(list') = Len(list) - 1
        /\ \A k \in 1 .. Len(list) - 1 :
             list'[k] = list[IF k < i THEN k ELSE k + 1]
    BY <1>1, <1>3, <1>4, Removed
  <1>7. Nodes' = Nodes \ {f}
    <2>1. \A k \in 1 .. Len(list') : list'[k] \in Nodes /\ list'[k] # f
      BY <1>1, <1>3, <1>6 DEF Nodes, Listed
    <2>2. ASSUME NEW k \in 1 .. Len(list), list[k] # f
          PROVE  \E j \in 1 .. Len(list') : list'[j] = list[k]
      <3>1. CASE k < i
        <4>1. k \in 1 .. Len(list') /\ list'[k] = list[k]
          BY <1>1, <1>3, <1>6, <3>1
        <4> QED BY <4>1
      <3>2. CASE k > i
        <4>1. k - 1 \in 1 .. Len(list') /\ list'[k - 1] = list[k]
          BY <1>1, <1>3, <1>6, <3>2
        <4> QED BY <4>1
      <3> QED BY <1>1, <1>3, <2>2, <3>1, <3>2
    <2> QED BY <2>1, <2>2 DEF Nodes
  <1>8. ClientType'
    BY <1>6 DEF ClientType, Socksfd_Delete, walkVars
  <1>9. Addressed'
    BY DEF ClientType, Addressed, Socksfd_Delete
  <1>10. Fresh'
    BY <1>7 DEF ClientType, Fresh, Socksfd_Delete
  <1>11. Listed'
    <2>1. ASSUME NEW j \in 1 .. Len(list'), NEW k \in 1 .. Len(list'),
                 list'[j] = list'[k]
          PROVE  j = k
      <3> DEFINE jj == IF j < i THEN j ELSE j + 1
                 kk == IF k < i THEN k ELSE k + 1
      <3>1. jj \in 1 .. Len(list) /\ kk \in 1 .. Len(list)
        BY <1>1, <1>3, <1>6
      <3>2. list[jj] = list[kk]
        BY <1>1, <1>6, <2>1
      <3>3. jj = kk
        BY <3>1, <3>2 DEF Listed
      <3> QED BY <1>1, <1>3, <1>6, <3>3
    <2> QED BY <1>7, <2>1 DEF Listed, Socksfd_Delete
  <1>12. Walked'
    BY DEF Walked, Socksfd_Delete, Writable, walkVars
  <1>13. ASSUME NEW h \in Hosts
         PROVE  Cardinality(NodesOf(h)') = Cardinality(Connections(h)')
    <2>1. Cardinality(NodesOf(h)) = Cardinality(Connections(h))
      BY DEF ListedOncePerConnection, NodesOf, Connections
    <2>2. address' = address
      BY DEF Socksfd_Delete
    <2>3. CASE h # addr[t]
      <3>1. NodesOf(h)' = NodesOf(h)
        BY <1>3, <1>7, <2>2, <2>3 DEF NodesOf
      <3>2. Connections(h)' = Connections(h)
        BY <2>3 DEF ClientType, Connections, Socksfd_Delete
      <3> QED BY <2>1, <3>1, <3>2
    <2>4. CASE h = addr[t]
      <3>1. NodesOf(h)' = NodesOf(h) \ {f} /\ f \in NodesOf(h)
        BY <1>3, <1>5, <1>7, <2>2, <2>4 DEF NodesOf
      <3>2. Connections(h)' = Connections(h) \ {t} /\ t \in Connections(h)
        BY <2>4 DEF ClientType, Connections, Socksfd_Delete
      <3>3. IsFiniteSet(NodesOf(h)) /\ IsFiniteSet(Connections(h))
        BY Finite
      <3>4. Cardinality(NodesOf(h) \ {f}) = Cardinality(NodesOf(h)) - 1
        BY <3>1, <3>3, FS_RemoveElement
      <3>5. Cardinality(Connections(h) \ {t}) = Cardinality(Connections(h)) - 1
        BY <3>2, <3>3, FS_RemoveElement
      <3> QED BY <2>1, <3>1, <3>2, <3>4, <3>5
    <2> QED BY <2>3, <2>4
  <1>14. ListedOncePerConnection'
    BY <1>13 DEF ListedOncePerConnection, NodesOf, Connections
  <1> QED BY <1>8, <1>9, <1>10, <1>11, <1>12, <1>14

LEMMA CloseKeeps ==
  ASSUME ClientInv, NEW t \in Threads, Close(t)
  PROVE  ClientInv'
  <1> USE DEF ClientInv
  <1>1. ClientType'
    BY DEF ClientType, Close, listVars, walkVars
  <1>2. Nodes' = Nodes
    BY SameNodes DEF Close, listVars
  <1>3. Addressed'
    BY DEF ClientType, Addressed, Close
  <1>4. Fresh'
    BY <1>2 DEF ClientType, Fresh, Close, listVars
  <1>5. Listed' /\ Walked'
    BY <1>2 DEF Listed, Walked, Close, listVars, walkVars
  <1>6. \A g \in Hosts : Connections(g)' = Connections(g)
    BY DEF ClientType, Connections, Close
  <1>7. ListedOncePerConnection'
    BY <1>6, SameCount DEF Close, listVars
  <1> QED BY <1>1, <1>3, <1>4, <1>5, <1>7

\* The walk starts at the first node and goes from each to the next.
LEMMA WalkKeeps ==
  ASSUME ClientInv, Walk
  PROVE  ClientInv'
  <1> USE DEF ClientInv
  <1>1. UNCHANGED <<receiving, temp, threadVars, listVars>>
    BY DEF Walk, WalkBegin, WalkStep, WalkEnd
  <1>2. list \in Seq(Fds) /\ Len(list) \in Nat /\ NoFd \notin Fds
    BY NoFdAssumption DEF ClientType
  <1>3. Nodes' = Nodes
    BY <1>1, SameNodes DEF listVars
  <1>4. Addressed' /\ Fresh' /\ Listed'
    BY <1>1, <1>3 DEF Addressed, Fresh, Listed, threadVars, listVars
  <1>5. \A g \in Hosts : Connections(g)' = Connections(g)
    BY <1>1 DEF Connections, threadVars
  <1>6. ListedOncePerConnection'
    BY <1>1, <1>5, SameCount DEF listVars
  <1>7. CASE WalkBegin
    <2>1. CASE list = << >>
      <3>1. Nodes = {}
        BY <2>1 DEF Nodes
      <3> QED BY <1>1, <1>3, <1>4, <1>6, <1>7, <2>1, <3>1
              DEF ClientType, Walked, WalkBegin, threadVars, listVars
    <2>2. CASE list # << >>
      <3>1. 1 \in 1 .. Len(list) /\ Head(list) = list[1] /\ list[1] \in Fds
        BY <1>2, <2>2
      <3>2. ClientType'
        BY <1>1, <1>7, <2>2, <3>1 DEF ClientType, WalkBegin, threadVars, listVars
      <3>3. visited' = {list[j] : j \in 1 .. 1 - 1}
        BY <1>7 DEF Walked, WalkBegin
      <3>4. Walked'
        BY <1>1, <1>2, <1>7, <2>2, <3>1, <3>3 DEF Walked, WalkBegin, listVars
      <3> QED BY <1>4, <1>6, <3>2, <3>4
    <2> QED BY <2>1, <2>2
  <1>8. CASE WalkStep
    <2>1. PICK i \in 1 .. Len(list) :
            pos = list[i] /\ visited = {list[j] : j \in 1 .. i - 1}
      BY <1>8 DEF Walked, WalkStep
    <2>2. SelectInSeq(list, LAMBDA g : g = pos) = i
      <3> DEFINE I == {k \in 1 .. Len(list) : list[k] = pos}
      <3>1. I = {i} /\ I \in SUBSET Nat
        BY <1>2, <2>1 DEF Listed
      <3>2. Min(I) \in I
        BY <3>1, LeastOf
      <3> QED BY <3>1, <3>2 DEF SelectInSeq
    <2>3. pos' \in IF i = Len(list) THEN {NoFd} ELSE {list[i + 1]}
      BY <1>8, <2>2 DEF WalkStep, NextOf
    <2>4. visited' = {list[j] : j \in 1 .. i}
      BY <1>2, <1>8, <2>1 DEF WalkStep
    <2>5. spc' = "walk"
      BY <1>8 DEF WalkStep
    <2>6. CASE i = Len(list)
      <3>1. pos' = NoFd /\ visited' = Nodes
        BY <2>3, <2>4, <2>6 DEF Nodes
      <3> QED BY <1>1, <1>3, <1>4, <1>6, <2>5, <3>1
              DEF ClientType, Walked, Nodes, threadVars, listVars
    <2>7. CASE i # Len(list)
      <3>1. /\ i + 1 \in 1 .. Len(list) /\ pos' = list[i + 1] /\ pos' \in Fds
            /\ (i + 1) - 1 = i
        BY <1>2, <2>3, <2>7
      <3>2. visited' \in SUBSET Fds
        BY <1>2, <2>4
      <3>3. ClientType'
        BY <1>1, <2>5, <3>1, <3>2 DEF ClientType, threadVars, listVars
      <3>4. Walked'
        BY <1>1, <1>2, <2>4, <2>5, <3>1 DEF Walked, listVars
      <3> QED BY <1>4, <1>6, <3>3, <3>4
    <2> QED BY <2>6, <2>7
  <1>9. CASE WalkEnd
    BY <1>1, <1>4, <1>6, <1>9
       DEF ClientType, Walked, WalkEnd, threadVars, listVars
  <1> QED BY <1>7, <1>8, <1>9 DEF Walk

\* Every step of the threads keeps the invariant.
THEOREM ClientStep == ClientInv /\ [Next]_vars => ClientInv'
  <1> SUFFICES ASSUME ClientInv, [Next]_vars PROVE ClientInv'
    OBVIOUS
  <1>1. CASE \E h \in Hosts, t \in Threads : Announce(h, t)
    BY <1>1, AnnounceKeeps
  <1>2. CASE StopReceiving
    BY <1>2, StopReceivingKeeps
  <1>3. ASSUME NEW t \in Threads, Client(t) PROVE ClientInv'
    <2>1. CASE ReadAddr(t)
      BY <2>1, ReadAddrKeeps
    <2>2. CASE Connect(t)
      BY <2>2, ConnectKeeps
    <2>3. CASE ConnectFails(t)
      BY <2>3, ExitKeeps DEF ConnectFails
    <2>4. CASE Socksfd_Add(t)
      BY <2>4, AddKeeps
    <2>5. CASE HostGone(t)
      BY <2>5, HostGoneKeeps
    <2>6. CASE Socksfd_Delete(t)
      BY <2>6, DeleteKeeps
    <2>7. CASE Close(t)
      BY <2>7, CloseKeeps
    <2> QED BY <1>3, <2>1, <2>2, <2>3, <2>4, <2>5, <2>6, <2>7 DEF Client
  <1>4. CASE Walk
    BY <1>4, WalkKeeps
  <1>5. CASE UNCHANGED vars
    <2>1. Nodes' = Nodes
      BY <1>5, SameNodes DEF vars, listVars
    <2>2. \A g \in Hosts : Connections(g)' = Connections(g)
      BY <1>5 DEF Connections, vars, threadVars
    <2>3. ListedOncePerConnection'
      BY <1>5, <2>2, SameCount DEF ClientInv, vars, listVars
    <2> QED BY <1>5, <2>1, <2>3
            DEF ClientInv, ClientType, Addressed, Fresh, Listed, Walked, vars,
                threadVars, listVars, walkVars
  <1> QED BY <1>1, <1>2, <1>3, <1>4, <1>5 DEF Next

-----------------------------------------------------------------------------
(* What the specification guarantees *)

\* The invariant holds in every state the program reaches.
THEOREM ClientInvariance == Spec => []ClientInv
  <1> QED BY Starts, ClientStep, PTL DEF Spec

\* A host is listed once for each of its connections, whatever order the threads
\* delete each other's nodes in and whichever address they read
\* (Linklist.c, Socksfd_Add and Socksfd_Delete).
THEOREM AlwaysListed == Spec => []ListedOncePerConnection
  <1>1. ClientInv => ListedOncePerConnection
    BY DEF ClientInv
  <1> QED BY <1>1, ClientInvariance, PTL

\* Socksfd_Delete, which looks at the first node without asking whether there is
\* one, always finds the node it is called for.
THEOREM AlwaysFinds == Spec => []DeleteFinds
  <1>1. ClientInv => DeleteFinds
    BY Finds DEF DeleteFinds, Nodes
  <1> QED BY <1>1, ClientInvariance, PTL

\* Socksfd_RunFuc never stands at a freed node nor sends on a closed socket.
THEOREM AlwaysOpen == Spec => []SendsOnOpenSocket
  <1>1. ClientInv => SendsOnOpenSocket
    BY DEF ClientInv, Walked, Listed, Nodes, SendsOnOpenSocket
  <1> QED BY <1>1, ClientInvariance, PTL

\* A walk that is over has sent the frame to every node of the list.
THEOREM AlwaysEveryClient == Spec => []FrameToEveryClient
  <1>1. ClientInv => FrameToEveryClient
    BY DEF ClientInv, Walked, FrameToEveryClient
  <1> QED BY <1>1, ClientInvariance, PTL
=============================================================================
