CONSTANTS
  MaxObj = 9
  LongMax = 127
  Programs <- AllSessions
  Codes <- AllCodes
SPECIFICATION FairSpec
INVARIANTS TypeOK RefsValid ErrorsNeverStored Operands ResultsCorrect
PROPERTIES Answered
CHECK_DEADLOCK FALSE
