SPECIFICATION FairSpec
CONSTANTS
  LineCount = 2
  BatchSize = 2
  ChanCap = 1
  MaxCrashes = 1
  Unknown = Unknown
  Torn = Torn
INVARIANTS
  TypeOK
  SkipsExcused
  RepeatsBounded
PROPERTIES
  EventuallyEmitted
CHECK_DEADLOCK FALSE
