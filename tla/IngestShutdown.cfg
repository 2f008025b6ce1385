SPECIFICATION Spec
CONSTANTS
  Kinds <- MCKinds
  Requests <- MCRequests
  KindOf <- MCKindOf
  Capacity <- MCCapacity
  BatchSize = 2
  NoKind = NoKind
INVARIANT ShutdownFlushes
CHECK_DEADLOCK FALSE
