SPECIFICATION FairSpec
CONSTANTS
  Size = 4
  BufSize = 2
  Faults = {"read", "write", "pull", "start", "short", "cancel"}
  ForeignUnlock = {"nothing", "releases"}
INVARIANTS TypeOK WokenForAReason InOrder
PROPERTIES KeepsPromise Returns
\* a thread can be Stuck
CHECK_DEADLOCK FALSE
