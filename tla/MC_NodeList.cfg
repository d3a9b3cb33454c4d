CONSTANTS
  Node = {n1, n2, n3, n4}
  MainHead = MainHead
  MarkedHead = MarkedHead
  NULL = NULL
  FREED = FREED
SPECIFICATION FairSpec
INVARIANTS TypeOK LinksAgree NoLeak
PROPERTIES ImplementsSets
