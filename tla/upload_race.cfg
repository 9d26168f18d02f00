SPECIFICATION Spec
CONSTANTS
  Handlers = {h1, h2}
  Orgs = {o1}
  Assets = {a1, a2, a3}
  Sizes = {1, 2}
  BodyLimit = 2
  Quota <- MCQuota
  FileLimits = {0, 1}
  MaxFiles = 2
  None = None
SYMMETRY Symmetry
INVARIANTS
  AcknowledgedIsStored
  RowsAreBacked
  NeverOvercounted
  BoundedOvershoot
PROPERTIES
  UsageNeverLost
  ImplementsLedger
