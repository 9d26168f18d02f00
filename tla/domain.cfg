SPECIFICATION FairSpec
CONSTANTS
  Handlers = {h1, h2}
  Names = {n1}
  Orgs = {o1, o2}
  Ids = {i1, i2}
  CacheFails = TRUE
  None = None
INVARIANTS
  ResolvedIsProven
PROPERTIES
  StaleEntriesGo
