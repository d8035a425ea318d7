CONSTANTS
  Tasks <- MCTasks
  Resources <- MCResources
  TaskSets <- MCTaskSets
  LongMod = 1000000
  DivByZero = 0
  M = 7
  CostMax = 100
  MaxTries = 2
  FirstCore = 0
  LastCores <- MCLastCores
SPECIFICATION PartitionFairSpec
INVARIANTS
  VerdictSupported
  AllocationIsRight
PROPERTIES
  Terminates
CHECK_DEADLOCK TRUE
