SPECIFICATION Spec
CONSTANTS
  Handlers = {h1, h2}
  Orgs = {o1}
  Assets = {a1, a2}
  Sizes = {2}
  BodyLimit = 2
  Quota <- MCQuota
  FileLimits = {0}
  MaxFiles = 1
  None = None
INVARIANTS
  QuotaRespected
