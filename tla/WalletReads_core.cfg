SPECIFICATION Spec
CONSTANTS
  sol = sol
  tok = tok
  odd = odd
  Assets = {sol, tok, odd}
  Sol = sol
  Configured = {tok}
  Usable = {tok}
  Worlds <- AllWorlds
  Shapes <- SomeShapes
  Spends <- SomeSpends
  SdkCap = 3
  MaxTrees = 2
  MaxAmount = 10
  MaxSlot = 2
  TimeReads = 1
  RetryFirst = 1
  RetryMax = 3
INVARIANTS TypeOK ReadyIsComplete LimitIsExact
PROPERTIES TimesStay
CHECK_DEADLOCK FALSE
