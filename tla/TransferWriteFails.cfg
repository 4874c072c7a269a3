SPECIFICATION FairSpec
CONSTANTS
  Size = 5
  BufSize = 1
  Faults = {"write"}
  ForeignUnlock = {"nothing"}
PROPERTY FailureEndsTransfer
