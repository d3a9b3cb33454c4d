CONSTANTS
  car = car
  x = x
  y = y
  z = z
  o1 = o1
  carObj = carObj
  NULL = NULL
  Name = {car, x, y, z}
  Obj = {o1}
  Static = {carObj, NULL}
  PrimObj <- OnePrimitive
  Hash <- Collisions
  Size = 2
  MaxSymbol = 4
SPECIFICATION Spec
INVARIANTS TypeOK OneSymbolPerName NoCrash FreedOnce
PROPERTIES ImplementsMap
CHECK_DEADLOCK FALSE
