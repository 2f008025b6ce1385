SPECIFICATION FairSpec
CONSTANTS
  Kinds <- MCKinds
  Requests <- MCRequests
  KindOf <- MCKindOf
  Capacity <- MCCapacity
  BatchSize = 2
  NoKind = NoKind
INVARIANTS
  TypeOK
  Accounted
PROPERTIES
  RefinesLossyLog
  EventuallySettled
CHECK_DEADLOCK FALSE
