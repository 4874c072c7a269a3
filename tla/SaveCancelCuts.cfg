SPECIFICATION FairSpec
CONSTANTS
  Saves = 1
  Faults = {}
  BoxFaults = {"cancel"}
INVARIANT CancelWaits
