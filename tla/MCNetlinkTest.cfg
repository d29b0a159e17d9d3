\* Three processes, two messages each, memory may run out.
\* A load that fails and leaves its device behind is the end of the model.
CONSTANTS
  pA = pA
  pB = pB
  pC = pC
  pid0 = pid0
  Users <- MCUsers
  NoUser <- pid0
  Messages = 2
  AllocMayFail = TRUE
SPECIFICATION Spec
INVARIANTS
  AnswerToSender
  MappedPagesStay
SYMMETRY MCSymmetry
CHECK_DEADLOCK FALSE
