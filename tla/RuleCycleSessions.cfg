SPECIFICATION FairSpec
CONSTANTS
  Containers = {c1}
  Procs = {p1, p2}
  None = None
  Jobs = {"cycle", "dry", "manual", "rearm", "maint"}
  NumRules = 2
  NumStateRules = 1
  Conditional <- StateThenMetric
  Acts <- OtherThenRestarts
  Cooldown = 1
  ActionCooldown = 1
  TriggerAfter = 1
  MaxGap = 1
  MaxRestarts = 3
  Durations = {0, 1}
  MaxTime = 3
  ClockStepsBack = FALSE
  Faults = {"save", "raise", "docker", "crash"}
INVARIANTS
  MemMatchesDisk
  FileCarriesItsData
  DecisionStands
PROPERTIES
  ImplementsBudget
  NoLostUpdate
  SessionsEnd
