CONSTANTS
  Extent = 3
  NIL = NIL
  UNDEF = UNDEF
  Atom = {}
  NULL = NULL
  Global = {g1}
  PSlot = {}
  Env = {}
  Code = {}
  c1 = c1
  c2 = c2
  Str = {}
  Vec = {v1}
  VecLen = 2
  LeafTag = {"VECTOR"}
  SubCode <- NoSub
SPECIFICATION Spec
PROPERTIES GraphPreserved ImplementsGraph
CHECK_DEADLOCK FALSE
