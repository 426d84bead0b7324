SPECIFICATION InvocationsSpec
CONSTANTS
  Unset = Unset
  s1 = s1
  s2 = s2
  Secrets = {s1, s2}
  Codes = {42, 116}
  Results = {0, 10}
  Invocations <- MCInvocations
  Offered <- MCOffered
  Operators = {m1, m2}
  Dirs = {d1}
  Files = 2
  Journals <- MCJournals
  Absent = Absent
  Invalid = Invalid
  Agent = Agent
  Nobody = Nobody
  MaxEvents = 2
  MaxEdits = 1
  Faults = {"io", "power"}
INVARIANTS
  JobsValid
  ObservationNeverActs
  CredentialsSeparate
  MarkedIsComplete
PROPERTIES
  CopiesOneInstant
  ImplementsArchive
SYMMETRY Symmetry
\* an invocation ends
CHECK_DEADLOCK FALSE
