SPECIFICATION SpecListing
CONSTANTS
  MaxAssets = 3
  MaxKey = 3
  Limits = {1}
  DefaultLimit = 2
  Null = Null
INVARIANTS
  WalkIsComplete
CHECK_DEADLOCK FALSE
