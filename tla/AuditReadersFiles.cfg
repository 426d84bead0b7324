SPECIFICATION CastSpec
CONSTANTS
  Writers = {w1}
  q1 = q1
  q2 = q2
  q3 = q3
  Readers = {q1, q2, q3}
  Exporters = {q2}
  Pagers = {q1, q3}
  Inodes = {i1, i2, i3, i4}
  None = None
  Files = 2
  MaxBytes = 2
  MaxRecord = 2
  NumEvents = 5
  Length <- FirstLong
  MaxBatch = 1
  Matching = {1, 2, 4, 5}
  PageLimit = 2
  PageSlots = 1
  Faults = {"io", "crash"}
INVARIANTS
  ReadersFaithful
  SlotsReturned
SYMMETRY Symmetry
\* the number of events is bounded
CHECK_DEADLOCK FALSE
