SPECIFICATION FairSpec
CONSTANTS
  Ids = {i1, i2}
  Targets = {t1}
  Clients = {c1}
  None = None
  HistoryLimit = 1
  QueueTimeout = 0
  StaleAfter = 0
  MaxAccepted = 2
  Faults = {"audit", "cycle", "crash"}
INVARIANTS
  InFlightRetained
  OutcomeTruthful
  ReadyMeansCollectedSince
  AttemptsJournaled
PROPERTIES
  ImplementsLifecycle
  RequestsSettle
