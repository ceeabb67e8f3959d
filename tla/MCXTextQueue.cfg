SPECIFICATION Spec
CONSTANTS
  thread = thread
  split = split
  Cycles = {c1, c2}
  Articles = {thread, split}
  Parts <- PartsOfArticle
  Plan <- PlanOfArticle
  MaxPerDay = 2
  PerCycle = 2
  PerDigest = 1
  FreshAge = 1
  StaleAge = 2
  Window = 2
  MaxDisturbances = 1
CHECK_DEADLOCK FALSE
INVARIANTS RowCap ChainFits ThreadsIntact DeliveredOnce
