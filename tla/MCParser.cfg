SPECIFICATION Spec
CONSTANT SourceTexts <- MCSourceTexts
INVARIANTS
  RoundTrip
  NothingDropped
PROPERTY EventuallyParsed
CHECK_DEADLOCK FALSE
