CONSTANTS
  p1 = p1
  p2 = p2
  p3 = p3
  Procs <- MCProcs
  W = 4
SPECIFICATION FairSpec
INVARIANTS
  LockableIffFree
  QueueInv
PROPERTIES
  ImplementsFifo
  StarvationFree
CHECK_DEADLOCK TRUE
