SPECIFICATION FairSpec
CONSTANTS
  Handlers = {h1}
  Dispatches = {e1}
  Orgs = {o1}
  Hooks = {i1, i2}
  Deliveries = {d1, d2}
  MaxCrashes = 1
  None = None
INVARIANTS
  DeliveredIsTrue
  RecordsHaveHooks
  PendingIsOwned
PROPERTIES
  Settles
CHECK_DEADLOCK FALSE
