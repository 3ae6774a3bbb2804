SPECIFICATION FairE2ESpec
CONSTANTS
  Programs <- MCPrograms
  Width = 8
  StartValues <- MCInputs
  StackSize = 1000
  MaxCode = 40
  Fuel = 5000
  OptLevels = {0, 1}
INVARIANTS
  ComputesItsMeaning
  FramesIntact
  ReadsOnlyItsOwn
PROPERTIES
  EndsLikeItsSource
  ReturnsToCaller
CHECK_DEADLOCK FALSE
