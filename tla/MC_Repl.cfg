CONSTANTS
  LongMax = 15
  BufSize = 10
  Streams <- AllStreams
SPECIFICATION FairSpec
INVARIANTS TypeOK PendingIsOpen HeldAlive UndefinedExplained ParenStaysInside TokensAreLexemes FormIsOneDatum ReadsTree
PROPERTIES FreedUntouched LeaksExplained InputEnds
CHECK_DEADLOCK FALSE
