SPECIFICATION FairSpec
CONSTANTS
  Execs = {e1, e2}
  Clients = {c1, c2, c3}
  None = None
INVARIANTS
  ClosedOnceAfterUse
  OneCallAtATime
  OutcomeHonest
PROPERTIES
  CallsSettle
\* the number of connections is bounded
CHECK_DEADLOCK FALSE
