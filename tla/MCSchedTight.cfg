CONSTANTS
  Tasks <- MCTasks
  Resources <- MCResources
  TaskSets <- MCTightSets
  LongMod = 1000000
  DivByZero = 0
  M = 8
  CostMax = 100
  MaxTries = 2
  FirstCore = 0
  LastCores <- MCLastCores
SPECIFICATION PartitionSpec
INVARIANT
  SchedulableMeetsDeadline
CHECK_DEADLOCK TRUE
