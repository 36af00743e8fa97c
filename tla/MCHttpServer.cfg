CONSTANTS
  Tasks <- MCTasks
  NoTask = "listen"
  NumThreads = 2
  queue_size = 2
  Plans <- MCPlans
  Files <- MCFiles
  stoi <- MCstoi
  HasGET <- MCHasGET
  HasPOST <- MCHasPOST
  HasVersion <- MCHasVersion
  TIMER_TIME_OUT = 1
  MaxNow = 1
SPECIFICATION Spec
INVARIANTS
  PoolKeepsTasks
  RequestUnderstood
PROPERTIES
  TasksInOrder
  DeletedInTime
  PoolServes
CHECK_DEADLOCK FALSE
