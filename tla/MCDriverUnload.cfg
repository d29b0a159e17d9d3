\* The program starts only once the driver is loaded; the driver is unloaded.
CONSTANTS
  EarlyUser = FALSE
  MayUnload = TRUE
  IrqMayFail = FALSE
SPECIFICATION Spec
INVARIANTS
  InitialisedBeforeUse
CHECK_DEADLOCK FALSE
