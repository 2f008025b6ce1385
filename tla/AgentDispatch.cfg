SPECIFICATION FairSpec
CONSTANTS
  Kinds = {"cron", "sessions", "workspace"}
  MaxChanges <- MCMaxChanges
  ChanCap = 1
  Others = {o1}
  Concurrency = 2
  Retries = 1
  MaxFaults <- MCMaxFaults
  None = None
  Torn = Torn
INVARIANTS
  TypeOK
  NewestTold
  OvertakesInFlightOnly
PROPERTIES
  EventuallyTold
CHECK_DEADLOCK FALSE
