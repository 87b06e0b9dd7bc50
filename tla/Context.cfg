\* Concurrent Runs and stale workers.
CONSTANTS
  MaxTurns = 3
  MaxOpen = 3
  StaleWorkers = TRUE
  Size = {0, 2, 9}
  MemoryTokens = {0, 4}
  InputBudget = 12
  RecentLimit = 2
  SummaryMax = 3
  SummaryFloor = 2
  MinRecent = 3
SPECIFICATION Spec
INVARIANTS
  NothingVanishes
  HistoryFits
  PromisesInOrder
