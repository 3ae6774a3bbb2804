SPECIFICATION Spec
CONSTANT
  Programs <- BreakPrograms
INVARIANT
  BreakContextValid
CHECK_DEADLOCK FALSE
