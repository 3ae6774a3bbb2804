SPECIFICATION FairSpec
CONSTANT
  Programs <- MCPrograms
INVARIANTS
  TypeOK
  LabelsExist
  FinishedBlocksTerminated
  EdgesMatchTerminators
  LoopStackMatchesVisits
  SlotsStoredOnEveryPath
  TempsWrittenOnce
  DefsPrecedeUses
  TempsDefinedOnEveryPath
PROPERTIES
  RefinesBlockDiscipline
  LoweringEnds
CHECK_DEADLOCK FALSE
