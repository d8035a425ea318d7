CONSTANTS
  CoreNum = 9
  SocketCores = 3
  Hyper = 24
  Programs <- MCBalance
  Inputs <- MCInputs
  Periods = {6, 12}
  Parts = {6}
  Lengths = {1, 2}
  Counts = {9, 30}
  TotalUtil = 216
  Tolerance = 100
  MinPart = 6
SPECIFICATION ClusterSpec
INVARIANT GuaranteedMeetsDeadlines
