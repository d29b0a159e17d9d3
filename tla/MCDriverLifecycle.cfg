\* The program may come at any time, the driver may be unloaded and loaded again.
\* A machine that has taken a fatal fault stops.
CONSTANTS
  EarlyUser = TRUE
  MayUnload = TRUE
  IrqMayFail = TRUE
SPECIFICATION Spec
INVARIANTS
  TaskletMeetsDriver
  QuietAfterUnload
CHECK_DEADLOCK FALSE
