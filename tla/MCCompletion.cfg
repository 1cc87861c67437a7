SPECIFICATION BatchFairSpec
CONSTANTS
  Tasks = {t1, t2, t3, t4}
  NoTask = NoTask
  Parallel = 2
  MaxWorkers = 2
  NumWorkers <- PoolSize
  MaxSize = 0
  InnerGet = TRUE
  Sizes = {}
  ResizeStopped = FALSE
  MaxStops = 1

PROPERTY CompletionMeansDone
CHECK_DEADLOCK FALSE
