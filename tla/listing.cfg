SPECIFICATION FairListing
CONSTANTS
  MaxAssets = 3
  MaxKey = 3
  Limits = {0, 1}
  DefaultLimit = 2
  Null = Null
INVARIANTS
  ListingTypeOK
  NothingSkipped
  NothingRepeated
  TotalIsShown
PROPERTIES
  WalkEnds
CHECK_DEADLOCK FALSE
