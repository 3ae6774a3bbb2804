SPECIFICATION Spec
CONSTANTS
  Registers <- MCRegisters
  Requests <- MCRequests
  MaxCalls = 2
  Temps = {0, 1, 2}
  Points = {1, 2, 3}
INVARIANTS
  TypeOK
  RegistersConserved
  FirstFunctionUsesAllRegisters
PROPERTY
  NoSharedLocation
CHECK_DEADLOCK FALSE
