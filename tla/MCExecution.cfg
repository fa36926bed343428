CONSTANTS
  Quantities = {1}
  Prices = {1}
  Fee <- MCFee
  Capitals = {30}
  Ratios <- MCRatios
  NoValue = NoValue
  Down = Down
  Scale = 100
  SlippageBps = 20
  Levels = 3
  Decay <- MCDecay
  DepthPct = 10
  SpreadBps = 40
  DefaultAdv = 30
  FeeDefault <- MCFeeDefault
  FeeFrom <- MCFeeFrom
  Slicing = TRUE
  MaxPerTick = 2
  MaxPctPerTick = 50
  MinFill = 1
  Clients = {c1, c2}
  BookClients = {c1}
  SlipLimits = {c2}
  Requests <- MCRequests
  Lasts = {4, 5}
  Quotes <- MCQuotes
  Rows <- MCRows
  Defaults <- MCDefaults
  Strict = FALSE
  MaxOrder = 12
  MaxPosition = 14
  MaxEquityPct = NoValue
  Days = {2}
  MaxShares = 3
  MaxBought = 12
  MaxSold = 5
  MaxPaid = 1
SPECIFICATION MCSpec
INVARIANTS
  CashIsLedger
  PnlAddsUp
  BasisIffShares
  WalkIsBest
  NoFreeRoundTrip
PROPERTIES
  CapHoldsUnlessRaced
