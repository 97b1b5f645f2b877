SPECIFICATION StackSpec
CONSTANTS
  N = 12
  Names <- MCNames
  Values <- MCValues
  ValueLists <- MCLists
  Shares <- MCShares
  MaxCookies = 3
  MaxValues = 3
  Recovers = FALSE
  InitialHeaders <- MCInitialHeaders
  Stacks <- MCStacks
  Requests <- MCRequests
INVARIANTS
  AnswerProtected
  HandlerGuarded
  CorsHonest
  PagesBound
  CommitsGoThrough
  CookieOnce
  FileOrError
PROPERTY
  ImplementsFlight
