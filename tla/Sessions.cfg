SPECIFICATION Spec
CONSTANTS
  ann = ann
  bob = bob
  p = p
  q = q
  b1 = b1
  b2 = b2
  s1 = s1
  s2 = s2
  Users = {ann, bob}
  Passwords = {p, q}
  Browsers = {b1, b2}
  Slots = {s1, s2}
  MaxTokens = 2
  Nobody = Nobody
SYMMETRY Symmetric
INVARIANTS
  SessionsMatch
  LogoutFinal
  NotesPrivate
PROPERTY
  OnlyOwnLogoutEnds
CHECK_DEADLOCK FALSE
