SPECIFICATION Spec
CONSTANTS
  Joined <- MCJoined
  Dashed <- MCDashed
  Runs = {"first", "second"}
  CommandLines <- MCCommandLines
  Crowd <- MCCrowd
  PathOf <- MCPathOf
  Sources <- MCSources
  Writable = {"here", "there"}
  MaxKills = 1
INVARIANTS
  GoodSourceCompiles
  SourcesKept
  NoForeignExecutable
PROPERTIES
  DeliversWhatWasAsked
  LeavesNothingElse
CHECK_DEADLOCK FALSE
