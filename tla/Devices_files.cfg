SPECIFICATION DevicesSpec
CONSTANTS
  h1 = h1
  h2 = h2
  s1 = s1
  s2 = s2
  Handles = {h1, h2, s1, s2}
  Sockets = {s1, s2}
  Top = 2
  MaxOpens = 3
  MaxRefs = 3
INVARIANTS
  NothingElseLeaks
  HandlesCounted
  NumbersTrue
  FieldsAsAsked
  CachedIsTrue
CHECK_DEADLOCK FALSE
