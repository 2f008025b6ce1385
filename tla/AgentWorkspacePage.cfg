SPECIFICATION Spec
CONSTANTS
  Kinds = {"workspace"}
  MaxChanges <- MCMaxChanges
  ChanCap = 1
  Others = {o1}
  Concurrency = 1
  Retries = 1
  MaxFaults <- NoFaults
  None = None
  Torn = Torn
INVARIANTS
  WorkspaceShowsLatest
CHECK_DEADLOCK FALSE
