SPECIFICATION FairSpec
CONSTANTS
  spans = spans
  logs = logs
  bad = bad
  s1 = s1
  s2 = s2
  s3 = s3
  l1 = l1
  Payloads <- MCPayloads
  ItemsOf <- MCItemsOf
  SignalOf <- MCSignalOf
  Signals <- MCSignals
  Unique = {"traces"}
  Poison = {bad}
  ProxyCap = 1
  ServerCap = 1
  BatchSize = 2
  MaxFaults = 1
  NoPayload = NoPayload
INVARIANTS
  TypeOK
  ForwardedInOrder
  OfferedAccounted
  ResendsExplained
PROPERTIES
  EventuallyForwarded
CHECK_DEADLOCK FALSE
