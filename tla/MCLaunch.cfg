CONSTANTS
  t1 = t1
  t2 = t2
  t3 = t3
  Tasks <- MCTasks
  Jobs = 2
  MayCrash = TRUE
  MaxLaunches = 2
SPECIFICATION LaunchFairSpec
INVARIANTS
  VerdictIsRight
  QueueIsLive
  NobodyIsLeftBehind
  ObjectsOutliveTasks
PROPERTIES
  NothingLeft
  LaunchEnds
CHECK_DEADLOCK FALSE
