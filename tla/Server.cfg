SPECIFICATION Spec
CONSTANTS
  Original = orig
  Clones = {copy}
  Starters = {g}
  Stoppers = {p, q}
  Hooks = {h1}
  Capacity = 1
  MaxCalls = 2
  MaxRequests = 1
CHECK_DEADLOCK FALSE
INVARIANTS
  TypeOK
  OneStart
  StartedIsBuilt
  StopIsFinal
  StopsOnlyItsOwn
PROPERTY
  StopEndsServe
