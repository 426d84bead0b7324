SPECIFICATION Spec
CONSTANTS
  Execs = {e1}
  Clients = {c1}
  None = None
INVARIANTS
  FailureIsKnown
\* the number of connections is bounded
CHECK_DEADLOCK FALSE
