SPECIFICATION Spec
CONSTANTS
  N = 2
  Names <- MCNames
  Values <- MCValues
  ValueLists <- MCLists
  Shares <- MCShares
  MaxCookies = 2
  MaxValues = 1
  Recovers = TRUE
  InitialHeaders <- MCInitialHeaders
INVARIANTS
  TypeOK
  AnsweredOnce
  CommitsBeforeDispatch
  ClaimsHonoured
  CrashLeavesNoHeaders
  BodyTyped
PROPERTIES
  RequestEnds
  NothingRunsAfterWrite
  CookiesOnlyGrow
