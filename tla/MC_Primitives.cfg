CONSTANTS
  LongMax = 3
  Families <- AllFamilies
SPECIFICATION Spec
INVARIANTS ArithmeticExact EqualIsStructural CrashesExplained ContractKept
CHECK_DEADLOCK FALSE
