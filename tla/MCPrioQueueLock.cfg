CONSTANTS
  h1 = h1
  m1 = m1
  m2 = m2
  l1 = l1
  NULL = NULL
  Procs <- MCProcs
  Prios <- MCPrios
  Prio <- MCPrio
SPECIFICATION FairSpec
INVARIANTS
  MutualExclusion
  OvertakenOncePerTask
PROPERTIES
  ListsAreFifo
  HighestIsServed
