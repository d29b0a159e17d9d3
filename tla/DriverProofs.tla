---------------------------- MODULE DriverProofs ----------------------------
(***************************************************************************)
(* Proofs about DriverLifecycle, whenever the program comes, whether or    *)
(* not the driver is unloaded and request_irq fails.                       *)
(***************************************************************************)
EXTENDS DriverLifecycle, TLAPS

\* The interrupt is enabled, and the tasklet pending, only between interrupt_open
\* and tasklet_kill.
RunsBetween ==
  step \notin {"loaded"} \cup Unloading => ~intEnabled /\ ~scheduled

\* An interrupt is parked only by a driver that was loaded; the flag may stay
\* behind in the memory of a module that is gone.
ParkedBetween == irq => step \in {"loaded", "unloaded"} \cup Unloading

\* The socket, and whoever is bound to it, keep the module.
SocketThere ==
  nl_sk => step \notin {"unloaded", "device"} \cup (Unloading \ {"nodevice"})
BoundHolds == Bound => step \notin {"unloaded"} \cup Unloading

\* Once the interrupt is closed the tasklet, which has no queue any more, does not
\* open it again.
StaysClosed == step \in {"closed", "freed"} => ~intEnabled

LifeInv == RunsBetween /\ ParkedBetween /\ SocketThere /\ BoundHolds /\ StaysClosed

\* Nothing is there before the driver is loaded.
LEMMA LifeInit == Init => LifeInv
  BY DEF Init, LifeInv, RunsBetween, ParkedBetween, SocketThere, BoundHolds,
         StaysClosed, Bound, Unloading

\* Every call of init and exit, every interrupt and every step of the program keeps
\* the invariant.
LEMMA LifeStep == LifeInv /\ [Next]_vars => LifeInv'
  <1> SUFFICES ASSUME LifeInv, [Next]_vars PROVE LifeInv'
    OBVIOUS
  <1> USE DEF LifeInv, RunsBetween, ParkedBetween, SocketThere, BoundHolds, StaysClosed,
              Bound, Unloading, Goes, stream, irqVars, user
  <1>1. CASE RegisterDevice
    BY <1>1 DEF RegisterDevice
  <1>2. CASE netlink_init
    BY <1>2 DEF netlink_init
  <1>3. CASE mmap_page_init
    BY <1>3 DEF mmap_page_init
  <1>4. CASE StreamInit
    BY <1>4 DEF StreamInit
  <1>5. CASE request_irq
    BY <1>5 DEF request_irq
  <1>6. CASE interrupt_open
    BY <1>6 DEF interrupt_open
  <1>7. CASE RemoveDevice
    BY <1>7 DEF RemoveDevice
  <1>8. CASE netlink_exit
    BY <1>8 DEF netlink_exit
  <1>9. CASE mmap_page_exit
    BY <1>9 DEF mmap_page_exit
  <1>10. CASE interrupt_close
    BY <1>10 DEF interrupt_close
  <1>11. CASE free_irq
    BY <1>11 DEF free_irq
  <1>12. CASE tasklet_kill
    BY <1>12 DEF tasklet_kill
  <1>13. CASE FrameReady
    BY <1>13 DEF FrameReady, driver
  <1>14. CASE irq_handler
    BY <1>14 DEF irq_handler, HandlerThere, driver
  <1>15. CASE tasklet_handler
    BY <1>15 DEF tasklet_handler, QueueThere
  <1>16. CASE Open \/ mem_mmap \/ Bind \/ ReadFront \/ Die
    BY <1>16 DEF Open, mem_mmap, Bind, ReadFront, Die,
                 driver
  <1>17. CASE Start \/ Answer
    <2>1. Bound /\ netlink_recv_msg /\ Bound'
      BY <1>17 DEF Start, Answer
    <2>2. step \notin {"unloaded"} \cup Unloading
      BY <2>1
    <2>3. irq => step = "loaded"
      BY <2>2
    <2> QED BY <2>1, <2>2, <2>3 DEF netlink_recv_msg
  <1>18. CASE UNCHANGED vars
    BY <1>18 DEF vars, driver
  <1> QED
    BY <1>1, <1>2, <1>3, <1>4, <1>5, <1>6, <1>7, <1>8, <1>9, <1>10, <1>11, <1>12,
       <1>13, <1>14, <1>15, <1>16, <1>17, <1>18
    DEF Next, gpio_interrupt_init, gpio_interrupt_exit, Interrupt,
        User

\* The invariant holds in every reachable state.
THEOREM LifeInvariance == Spec => []LifeInv
  <1> QED BY LifeInit, LifeStep, PTL DEF Spec

\* The tasklet is never pending before tasklet_init or after tasklet_kill, although
\* messages are taken from the moment netlink_init returns.
THEOREM TaskletAlwaysMeetsDriver == Spec => []TaskletMeetsDriver
  <1>1. LifeInv => TaskletMeetsDriver
    BY DEF LifeInv, RunsBetween, TaskletMeetsDriver, TaskletThere,
           Unloading
  <1> QED BY <1>1, LifeInvariance, PTL

\* An unloaded driver leaves the interrupt disabled and nothing pending.
THEOREM AlwaysQuietAfterUnload == Spec => []QuietAfterUnload
  <1>1. LifeInv => QuietAfterUnload
    BY DEF LifeInv, RunsBetween, QuietAfterUnload, Unloading
  <1> QED BY <1>1, LifeInvariance, PTL
=============================================================================
