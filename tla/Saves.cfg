SPECIFICATION FairSpec
CONSTANTS
  Saves = 2
  Faults = {"io", "crash"}
  BoxFaults = {"cancel", "exit", "start"}
INVARIANTS TypeOK NothingLost ReportIsTrue StopsBeforeNext CancelApplied
PROPERTY BoxCloses
