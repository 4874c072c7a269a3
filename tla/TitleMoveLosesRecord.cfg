SPECIFICATION Spec
CONSTANTS
  Keys <- MCKeys
  Contents <- MCContents
  Holds <- MCHolds
  Locked = {"s"}
  Batches <- MCBatches
  MaxJobs = 1
INVARIANT RolledBackLaunches
CHECK_DEADLOCK FALSE
