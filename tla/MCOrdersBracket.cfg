CONSTANTS
  OrderIds = {1, 2, 3, 4}
  Watchers = {w1}
  Requests <- BracketRequests
  Quantities = {1, 2, 3}
  Prices = {1, 2}
  Fee <- MCFee
  Capitals = {20}
  Ratios = {}
  NoOrder = NoOrder
  NoPrice = NoPrice
  FeedFails = TRUE
SPECIFICATION FairSpec
INVARIANTS
  FillsMatchTrades
  StatusMatchesFill
  ExitsCovered
  StopCoversRest
PROPERTIES
  LimitsComplete
  ExitsComplete
ACTION_CONSTRAINT InOrder
