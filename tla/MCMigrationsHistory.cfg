CONSTANTS
  Brokers = {b1}
  Clis = {m1}
  Packages = {4}
  Files <- LegacyFiles
SPECIFICATION Spec
PROPERTIES
  HistorySurvives
