SPECIFICATION ClientsSpec
CONSTANTS
  Ids = {a, b}
  Targets = {t}
  None = None
  Fresh = 0
  Filters = {f1, f2}
  Correlations = {k1}
  NoQuery = NoQuery
  LastPage = 2
  MaxSnapshots = 3
  MaxAborted = 1
  StaleAfter = 1
  MaxSignals = 1
  MaxJournal = 4
  MaxRetained = 3
  MaxRuns = 3
  Notifications = {n1, n2}
  Malformed = {n2}
  Attempts = {a1, a2, a3}
INVARIANTS PollingArmed TerminalTruthful ForwardedInOrder DeliveryHonest JournalCoherent
PROPERTIES SettledBeforeNext
SYMMETRY Symmetry
\* The terminal interface ends, and so does a run of audit-send.
CHECK_DEADLOCK FALSE
