SPECIFICATION Spec
CONSTANTS
  Ids = {i1, i2}
  Targets = {t1}
  Clients = {c1, c2}
  None = None
  HistoryLimit = 2
  QueueTimeout = 1
  StaleAfter = 1
  MaxAccepted = 1
  Faults = {}
PROPERTIES
  QueuedOnValidMeasurements
