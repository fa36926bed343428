CONSTANTS
  OrderIds = {o1, o2, o3}
  Watchers = {w1, w2}
  Requests <- SharedRequests
  Quantities = {1, 2}
  Prices = {1, 2}
  Fee <- MCFee
  Capitals = {8}
  Ratios = {}
  NoOrder = NoOrder
  NoPrice = NoPrice
  FeedFails = TRUE
SPECIFICATION Spec
INVARIANTS
  SharesMatchTrades
  OneExit
  NoOrphans
  ExitsWait
PROPERTIES
  TerminalFrozen
  LimitRespected
  ImplementsAccount
SYMMETRY Symmetry
