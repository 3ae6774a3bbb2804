SPECIFICATION FairCompSpec
CONSTANTS
  Programs <- MCConstant
  Width = 4
  Arguments <- MCArguments
  Fuel = 60
PROPERTY OptimizerEnds
CHECK_DEADLOCK FALSE
