SPECIFICATION Spec
CONSTANTS
  Settings <- OneOrTwo
  Length = 2
  Needed = 1
  MaxBuffer = 1
INVARIANTS TypeOK OneInstallAtATime OwnChunksAlone MarkedOwn
PROPERTIES InstallsEnd
\* every file is closed, or a transport and the main thread are Stuck
CHECK_DEADLOCK FALSE
