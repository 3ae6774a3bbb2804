SPECIFICATION E2ESpec
CONSTANTS
  Programs <- Shadowing
  Width = 8
  StartValues <- MCInputs
  StackSize = 1000
  MaxCode = 40
  Fuel = 2000
  OptLevels = {0}
INVARIANT
  ComputesItsMeaning
CHECK_DEADLOCK FALSE
