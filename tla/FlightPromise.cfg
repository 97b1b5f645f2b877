SPECIFICATION Spec
CONSTANTS
  N = 3
  Names <- CookieOnly
  Values <- OneValue
  ValueLists <- OneList
  Shares <- NoShares
  MaxCookies = 2
  MaxValues = 2
  Recovers = FALSE
  InitialHeaders <- NoInitial
PROPERTIES
  ImplementsOneResponse
  WrittenIsDispatched
