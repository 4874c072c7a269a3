SPECIFICATION FairSpec
CONSTANTS
  NcaSize = 4
  BufSize = 2
  Slots = 2
  Ratio = 2
  FlushSize = 3
  Faults = {"read", "decompress", "write", "start", "short", "cancel"}
INVARIANTS TypeOK VerifiedIsComplete
PROPERTIES KeepsPromise Returns
\* a thread can be Stuck
CHECK_DEADLOCK FALSE
