--------------------------- MODULE MCNetlinkTest ---------------------------
(* Instances of NetlinkTest for TLC. *)
EXTENDS NetlinkTest, TLC

CONSTANTS pA, pB, pC, pid0

MCUsers == {pA, pB, pC}
MCSymmetry == Permutations(MCUsers)
=============================================================================
