--------------------------- MODULE MCSockClients ----------------------------
(* Instances of SockClients for TLC. *)
EXTENDS SockClients, TLC

CONSTANTS hA, hB, t1, t2, t3, f1, f2, f3, f4, noHost, noFd

MCHosts == {hA, hB}
MCThreads == {t1, t2, t3}
MCFds == {f1, f2, f3, f4}
MCSymmetry == Permutations(MCHosts) \cup Permutations(MCThreads) \cup Permutations(MCFds)
=============================================================================
