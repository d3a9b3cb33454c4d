CONSTANTS
  LongMax = 15
  BufSize = 10
  Streams <- Forms
SPECIFICATION Spec
INVARIANTS BadDotReported
CHECK_DEADLOCK FALSE
