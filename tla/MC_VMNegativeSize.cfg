CONSTANTS
  MaxObj = 9
  LongMax = 127
  Programs <- AllSessions
  Codes <- AllCodes
SPECIFICATION Spec
INVARIANTS NegativeSizeReported
CHECK_DEADLOCK FALSE
