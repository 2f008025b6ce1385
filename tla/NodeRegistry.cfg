SPECIFICATION RegistrySpec
CONSTANTS
  a1 = a1
  a2 = a2
  Agents <- MCAgents
  Attempts = 2
  MaxLives <- MCMaxLives
  MaxErrors = 2
  NoRow = NoRow
INVARIANTS
  AnswersExplained
CHECK_DEADLOCK FALSE
