SPECIFICATION Spec
CONSTANTS
  N = 2
  Names <- CookieOnly
  Values <- OneValue
  ValueLists <- OneList
  Shares <- NoShares
  MaxCookies = 2
  MaxValues = 1
  Recovers = FALSE
  InitialHeaders <- NoInitial
INVARIANT
  BeforePanicAnswered
