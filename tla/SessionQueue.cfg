SPECIFICATION Spec
CONSTANTS
  Packages = {p, q}
  Compressed = {q}
  MaxQueue = 3
  MaxLinkRetries = 1
INVARIANTS CancelledByUser SkipsAreAsked
PROPERTIES NoRetryLoop SessionEnds
\* the session is over
CHECK_DEADLOCK FALSE
