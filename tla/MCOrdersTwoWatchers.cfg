CONSTANTS
  OrderIds = {o1}
  Watchers = {w1, w2}
  Requests <- PlainRequests
  Quantities = {1, 2}
  Prices = {1, 2}
  Fee <- MCFee
  Capitals = {6}
  Ratios = {}
  NoOrder = NoOrder
  NoPrice = NoPrice
  FeedFails = TRUE
SPECIFICATION Spec
PROPERTIES
  StaleFillRollsBack
