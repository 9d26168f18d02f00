SPECIFICATION Spec
CONSTANTS
  Handlers = {h1, h2}
  Orgs = {o1, o2}
  Users = {u1, u2}
  Pairs = {p1, p2}
  Keys = {k1}
  Roles = {"owner", "viewer"}
  AccessTTL = 1
  RefreshTTL = 2
  MaxTime = 2
  None = None
SYMMETRY Symmetry
CONSTRAINT Small
INVARIANTS
  TypeOK
  ClaimsFollowRow
  RevokedIsRefused
  FoundedEmpty
  RequestsStayHome
PROPERTIES
  StrandedForGood
  EndingsAreFinal
CHECK_DEADLOCK FALSE
