SPECIFICATION Spec
CONSTANTS
  Settings <- SixSettings
  MAX_THREADS = 2
  DOWNLOAD_MAX_ATTEMPTS = 3
  Length = 2
  Versions = 2
INVARIANTS TypeOK InOneHand FileWhole
PROPERTIES NobodyWaits
\* the application has ended
CHECK_DEADLOCK FALSE
