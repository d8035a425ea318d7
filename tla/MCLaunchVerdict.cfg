CONSTANTS
  t1 = t1
  t2 = t2
  t3 = t3
  Tasks <- MCPair
  Jobs = 2
  MayCrash = FALSE
  MaxLaunches = 1
SPECIFICATION LaunchSpec
INVARIANT
  SchedulableHasRun
CHECK_DEADLOCK FALSE
