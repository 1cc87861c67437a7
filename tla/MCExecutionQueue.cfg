SPECIFICATION BatchFairSpec
CONSTANTS
  Tasks = {t1, t2, t3, t4}
  NoTask = NoTask
  Parallel = 2
  MaxWorkers = 2
  NumWorkers <- PoolSize
  MaxSize = 0
  InnerGet = TRUE
  Sizes = {}
  ResizeStopped = FALSE
  MaxStops = 1
INVARIANT EveryJobAccounted
PROPERTIES IsBatch RunJobsReturns
CHECK_DEADLOCK FALSE
