CONSTANTS
  MaxObj = 9
  LongMax = 127
  Programs <- AllSessions
  Codes <- AllCodes
SPECIFICATION Spec
INVARIANTS FirstCollectionHarmless
CHECK_DEADLOCK FALSE
