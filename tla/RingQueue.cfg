SPECIFICATION RingSpec
CONSTANTS
  v1 = v1
  v2 = v2
  v3 = v3
  v4 = v4
  v5 = v5
  v6 = v6
  Capacity = 4
  Vectors <- MCVectors
INVARIANTS NoVectorShared
PROPERTY IsQueue
