SPECIFICATION FairCompSpec
CONSTANTS
  Programs <- MCPrograms
  Width = 4
  Arguments <- MCArguments
  Fuel = 60
INVARIANTS
  OptimizedCodeIsWellFormed
  FixedPointReached
PROPERTIES
  RewritesKeepMeaning
  DeadCodeKeepsMeaning
  OptimizerEnds
CHECK_DEADLOCK FALSE
