SPECIFICATION FairSpec
CONSTANTS
  LineCount = 4
  Long = {1}
  ChanCap = 1
  MaxCrashes = 1
  Torn = Torn
INVARIANTS
  TypeOK
  SkipsExcused
  RepeatsBounded
PROPERTIES
  EventuallySent
CHECK_DEADLOCK FALSE
