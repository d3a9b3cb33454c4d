CONSTANTS
  Extent = 2
  NIL = NIL
  UNDEF = UNDEF
  Atom = {}
  NULL = NULL
  Global = {g1}
  PSlot = {}
  Env = {e1, e2}
  Code = {c1, c2}
  c1 = c1
  c2 = c2
  Str = {s1}
  Vec = {}
  VecLen = 1
  LeafTag = {"STRING"}
  SubCode <- Nested
SPECIFICATION FairSpec
INVARIANTS SurvivorsExact
PROPERTIES CollectionEnds
CHECK_DEADLOCK FALSE
