CONSTANTS
  Prices = {1, 2, 3}
  Sizes = {1, 2}
  References = {2}
  MaxOrders = 4
SPECIFICATION AuctionSpec
INVARIANTS
  EquilibriumFollowsRules
  MatchIsFair
  TradesFollowMatch
CHECK_DEADLOCK FALSE
