SPECIFICATION Spec
CONSTANTS
  Loads <- MCLoads
  Disables = {{}, {"csp"}, {"xsrf"}}
  Muxes <- MCMuxes
  Requests = {1, 2}
  NoName = NoName
INVARIANTS
  PageIsOwn
  PagesSurvive
CHECK_DEADLOCK FALSE
