SPECIFICATION Spec
CONSTANTS
  Keys <- MCKeys
  Contents <- MCContents
  Holds <- MCHolds
  Locked = {"s"}
  Batches <- MCBatches
  MaxJobs = 2
INVARIANTS TypeOK KeysWhole OneVersion RecordTrue InstalledIsWhole LaunchReset
\* the last job is over
CHECK_DEADLOCK FALSE
