SPECIFICATION FairSpec
CONSTANTS
  Messages <- MCMessages
  KindOf <- MCKindOf
  Kinds <- MCKinds
  KindOrder <- MCKindOrder
  RowLimit <- MCRowLimit
  PerAgent = {"workspace"}
  AgentOf <- MCAgentOf
  BufCap = 1
  ViewCap = 5
  MaxBreaks = 1
CONSTRAINT BreakOrThird
INVARIANTS
  TypeOK
  ServesItsClients
  ShownTwiceAtMost
  MissingExcused
PROPERTIES
  DeadClientsLeave
CHECK_DEADLOCK FALSE
