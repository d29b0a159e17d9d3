\* Two hosts, three connections at a time, four sockets until the process has none.
CONSTANTS
  hA = hA
  hB = hB
  t1 = t1
  t2 = t2
  t3 = t3
  f1 = f1
  f2 = f2
  f3 = f3
  f4 = f4
  noHost = noHost
  noFd = noFd
  Hosts <- MCHosts
  Threads <- MCThreads
  Fds <- MCFds
  NoHost <- noHost
  NoFd <- noFd
SPECIFICATION Spec
INVARIANTS
  ListedOncePerConnection
  DeleteFinds
  SendsOnOpenSocket
  FrameToEveryClient
SYMMETRY MCSymmetry
