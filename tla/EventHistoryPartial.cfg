SPECIFICATION Spec
CONSTANTS
  None = None
  Containers = {c1}
  Self = c1
  Rules <- ThreeRules
  Conditions <- TheirConditions
  HistoryLimit = 2
  Window = 1
  Second = 1
  MaxClock = 3
  MaxEvents = 3
  Stamps = {1, 2}
  MaxSamples = 2
  MaxChunks = 2
INVARIANTS
  PartialCountsFail
