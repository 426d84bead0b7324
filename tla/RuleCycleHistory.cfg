SPECIFICATION HSpec
CONSTANTS
  Containers = {c1}
  Procs = {p1}
  None = None
  Jobs = {"cycle", "dry", "manual", "maint"}
  NumRules = 1
  NumStateRules = 0
  Conditional <- OneConditional
  Acts <- OneOther
  Cooldown = 2
  ActionCooldown = 1
  TriggerAfter = 2
  MaxGap = 1
  MaxRestarts = 1
  Durations = {0, 1}
  MaxTime = 5
  ClockStepsBack = TRUE
  Faults = {"save", "raise", "docker", "crash"}
  MaxPasses = 4
INVARIANTS
  TriggerSound
  TriggerComplete
PROPERTIES
  CooldownSpacing
\* the bounds on time and passes end every history
CHECK_DEADLOCK FALSE
