SPECIFICATION Spec
CONSTANTS
  Original = orig
  Clones = {}
  Starters = {g1, g2}
  Stoppers = {p}
  Hooks = {}
  Capacity = 0
  MaxCalls = 2
  MaxRequests = 1
CHECK_DEADLOCK FALSE
INVARIANT
  OneStart
