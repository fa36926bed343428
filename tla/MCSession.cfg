CONSTANTS
  LastDay = 2
  Weekdays = {0, 1, 2}
  Bundled = {}
  Published <- MCPublished
  CacheTTL = 0
  OrderIds = {o1}
  Punctual = TRUE
  Reloads = TRUE
  Nobody = Nobody
  ChangeSlots = {"night", "regular"}
SPECIFICATION MCSpec
INVARIANTS
  DayOrdersDie
  AmosAreTried
  NextOpenIsNext
PROPERTIES
  AuctionComesFirst
