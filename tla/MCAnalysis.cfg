SPECIFICATION Spec
CONSTANT Sources <- MCSources
INVARIANTS
  OrderIgnored
  AcceptedIsTyped
  TypedIsAccepted
PROPERTY LeavesNoTrace
CHECK_DEADLOCK FALSE
