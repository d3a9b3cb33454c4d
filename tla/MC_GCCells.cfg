CONSTANTS
  Extent = 3
  NIL = NIL
  UNDEF = UNDEF
  Atom = {}
  NULL = NULL
  Global = {g1}
  PSlot = {p1}
  Env = {}
  Code = {}
  c1 = c1
  c2 = c2
  Str = {}
  Vec = {}
  VecLen = 1
  LeafTag = {"INTEGER"}
  SubCode <- NoSub
SPECIFICATION Spec
INVARIANTS TypeOK NoInternalError SurvivorsExact ShortageIsReal CollectionMakesRoom NoRefBehindScan
CHECK_DEADLOCK FALSE
