CONSTANTS
  Brokers = {b1, b2}
  Clis = {m1}
  Packages = {1, 2, 4}
  Files <- MCFiles
SPECIFICATION Spec
INVARIANTS
  SchemaIsStamped
  FailureMeansDone
PROPERTIES
  OrdersSurvive
SYMMETRY Symmetry
