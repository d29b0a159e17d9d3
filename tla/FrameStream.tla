---------------------------- MODULE FrameStream ----------------------------
(***************************************************************************)
(* What the driver's ring, its signals and the user program promise        *)
(* together: a bounded first-in first-out stream of frames.  Every frame   *)
(* the FPGA offers and the driver takes is delivered in order, whole, and  *)
(* at least once: frames delivered but not acknowledged are delivered      *)
(* again after the user program restarts.                                  *)
(***************************************************************************)
EXTENDS Naturals, Sequences

CONSTANTS Frames, NoFrame,
          Capacity      \* frames the stream can hold

VARIABLES offered,      \* the frame the FPGA holds out, or NoFrame
          queue,        \* frames taken and not acknowledged, oldest first
          read,         \* how many of them the running user has delivered
          out           \* the frame delivered last

vars == <<offered, queue, read, out>>

Init == offered = NoFrame /\ queue = << >> /\ read = 0 /\ out = NoFrame

\* The FPGA holds out a frame until it is taken.
Offer ==
  /\ offered = NoFrame
  /\ offered' \in Frames
  /\ UNCHANGED <<queue, read, out>>

\* A frame is taken; the next one may be on offer already.
Accept ==
  /\ offered # NoFrame
  /\ Len(queue) < Capacity
  /\ queue' = Append(queue, offered)
  /\ offered' \in Frames \cup {NoFrame}
  /\ UNCHANGED <<read, out>>

Deliver ==
  /\ read < Len(queue)
  /\ out' = queue[read + 1]
  /\ read' = read + 1
  /\ UNCHANGED <<offered, queue>>

\* What has been delivered is acknowledged, and only that.
Acknowledge ==
  /\ queue' = SubSeq(queue, read + 1, Len(queue))
  /\ read' = 0
  /\ UNCHANGED <<offered, out>>

\* The user program restarts at the oldest frame not acknowledged.
Restart ==
  /\ read' = 0
  /\ UNCHANGED <<offered, queue, out>>

Next == Offer \/ Accept \/ Deliver \/ Acknowledge \/ Restart

Spec == Init /\ [][Next]_vars
=============================================================================
