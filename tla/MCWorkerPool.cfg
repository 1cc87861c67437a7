SPECIFICATION FairSpec
CONSTANTS
  Tasks = {t1, t2, t3}
  NoTask = NoTask
  MaxWorkers = 3
  NumWorkers = 1
  MaxSize = 1
  InnerGet = TRUE
  Sizes = {1, 2}
  ResizeStopped = FALSE
  MaxStops = 1
INVARIANTS TasksHandled StopStopsAll
PROPERTIES AdminComesBack EveryTaskFinishes
CHECK_DEADLOCK FALSE
