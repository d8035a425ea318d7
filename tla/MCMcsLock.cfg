CONSTANTS
  p1 = p1
  p2 = p2
  p3 = p3
  NULL = NULL
  Procs <- MCProcs
SPECIFICATION FairSpec
INVARIANTS
  ListInv
PROPERTIES
  IdleNodeUntouched
  ImplementsFifo
  StarvationFree
