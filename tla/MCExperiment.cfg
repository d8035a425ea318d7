CONSTANTS
  Versions <- MCVersions
  TotalUtil <- MCTotalUtil
  MinUtil = 5
  MaxUtil = 10
  UtilUnit = 4
  TaskCounts = {1, 2, 3}
  Periods = {8, 16}
  Shares = {2}
  Lengths = {3, 5}
  Requests = 1
  RequestCounts <- MCOneFour
  Resources = 1
  ResourceCounts <- MCOneTwo
  SectionLengths = {2}
  Distance = 2
  PerSecond = 10
  HyperPeriods = 100
  Scripts <- MCScripts
  NumTasksets = 2
  Contents <- MCContents
  SubtaskLists <- MCSubtaskLists
  NameRank <- MCNameRank
  TotalTime = 50
  Second = 10
  TaskPrograms <- MCTaskPrograms
  NumThreads <- MCNumThreads
  NumJobs = 2
  ResourcesNum = 2
  MaxEvents = 5
  LongMod = 1000
SPECIFICATION Spec
INVARIANTS WorkFollowsUtil RequestsArePlaced LogIsExact OutputsAreRight
