CONSTANTS
  Keys = {k1}
  Hashed = {h1, h2}
  Unhashed = {u1}
  OrderIds = {o1, o2, o3}
  Clients = {c1, c2}
  TTL = 1
  Skew = 0
  Crashes = TRUE
  MaxTime = 3
  None = None
SPECIFICATION Spec
INVARIANTS
  KeyNamesItsOrder
  AnswersAgree
SYMMETRY Symmetry
