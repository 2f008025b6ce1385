SPECIFICATION PolledSpec
CONSTANTS
  MaxVersion = 1
  MaxPolls = 2
  MaxLines = 1
INVARIANT LogsStream
CHECK_DEADLOCK FALSE
