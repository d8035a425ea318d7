CONSTANTS
  h1 = h1
  h2 = h2
  l1 = l1
  l2 = l2
  NULL = NULL
  Procs <- MCProcs
  Prios <- MCPrios
  Prio <- MCPrio
  LocalFifo = TRUE
SPECIFICATION FairSpec
INVARIANTS
  MutualExclusion
  AnnouncedIsVisible
  NoStaleBit
  OvertakenOncePerTask
PROPERTIES
  LocalLocksAreFifo
  HighestIsServed
