SPECIFICATION Spec
CONSTANTS
  Writers = {w1, w2}
  Readers = {}
  Inodes = {i1, i2, i3}
  None = None
  Files = 3
  MaxBytes = 2
  MaxRecord = 2
  NumEvents = 5
  Length <- Alternating
  MaxBatch = 2
  Faults = {"io", "crash"}
INVARIANTS
  RetainedIsRecent
  PromisesJournaled
SYMMETRY Symmetry
\* the number of events is bounded
CHECK_DEADLOCK FALSE
