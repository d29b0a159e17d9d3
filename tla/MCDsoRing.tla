----------------------------- MODULE MCDsoRing -----------------------------
(* Instances of DsoRing for TLC: model values for the contents of frames   *)
(* and for process ids.                                                    *)
EXTENDS DsoRing

CONSTANTS fA, fB, none, pA, pB, pid0

MCFrames == {fA, fB}
MCPids == {pA, pB}
=============================================================================
