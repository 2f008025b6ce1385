SPECIFICATION Spec
CONSTANTS
  key = key
  id = id
  sub = sub
  bare = bare
  Keys <- MCKeys
  AliasesOf <- MCAliasesOf
  Names <- MCNames
  Children <- MCChildren
  Tools = {"call"}
  MaxSpans = 4
  MaxRuns = 3
  None = None
INVARIANTS
  TypeOK
  RootsAgree
  EveryNameFindsRoot
  SpansAccounted
  LineagesAgree
