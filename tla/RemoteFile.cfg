SPECIFICATION Spec
CONSTANTS
  Settings <- FourSettings
  Length = 4
  MAX_BUFFER_SIZE = 2
  Chunk = 2
  Request = 3
  Attempts = 2
INVARIANTS TypeOK BytesInOrder ResultTrue
PROPERTY CallsReturn
