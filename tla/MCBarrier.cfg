CONSTANTS
  t1 = t1
  t2 = t2
  t3 = t3
  Tasks <- MCTasks
  Width = 6
  MaxLaunches = 3
SPECIFICATION BarrierFairSpec
INVARIANTS
  NobodyLeavesEarly
  OneBarrier
PROPERTIES
  NameBelongsToLaunch
  LaunchEnds
CHECK_DEADLOCK FALSE
