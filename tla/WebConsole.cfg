SPECIFICATION FairSpec
CONSTANTS
  a = a
  b = b
  e1 = e1
  e2 = e2
  Events = {e1, e2}
  Sessions = {a, b}
  AgentOf <- MCAgentOf
  SessionOf <- MCSessionOf
  LookOf <- MCLookOf
  WholeSecond = {e1}
  Lists <- MCLists
  NoOne = NoOne
  MaxAsks = 2
  MaxTurns = 2
  main = main
  child = child
  grandchild = grandchild
  MaxRun = 3
  ListLimit = 2
  Data <- MCData
  NoKey = NoKey
  MaxSelects = 2
  MaxVersion = 2
  MaxPolls = 3
  MaxLines = 1
INVARIANTS
  TypeOK
  ShownIsSelected
  RepeatsExplained
  LiveEventsShown
  FamilyRelated
  FlameExplained
PROPERTIES
  PollsForward
  PagesSettle
CHECK_DEADLOCK FALSE
