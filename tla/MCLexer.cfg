SPECIFICATION Spec
CONSTANTS
  Sources <- MCSources
  Letters <- MCLetters
  MaxLiteral = 99
INVARIANTS
  TrueLocations
  ReadAsWritten
PROPERTY EventuallyLexed
CHECK_DEADLOCK FALSE
