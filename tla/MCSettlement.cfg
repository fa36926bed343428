CONSTANTS
  Clients = {c1, c2}
  Quantities = {1}
  RestingIds = {o1}
  SlicedIds = {s1}
  FirstWeekday = 4
  LastDate = 3
  MaxShares = 2
SPECIFICATION MCSpec
INVARIANTS
  ChecksKeepUndelivered
  SquareOffCloses
SYMMETRY Symmetry
