SPECIFICATION Spec
CONSTANTS
  Original = orig
  Clones = {copy}
  Muxes = {m}
  i1 = i1
  i2 = i2
  k1 = k1
  k2 = k2
  Interceptors = {i1, i2}
  Configs = {k1, k2}
  Match <- MCMatch
  Passed <- MCPassed
  PassedToDefault <- MCPassedToDefault
  Handlers = {h1}
  Patterns = {p, bad}
  BadPatterns = {bad}
  Methods = {get}
  Requests = {r}
  Capacity = 2
  Nil = Nil
CHECK_DEADLOCK FALSE
INVARIANTS
  RequestsPassAll
  RegistrationSticks
  RequestSeesOneDevMode
