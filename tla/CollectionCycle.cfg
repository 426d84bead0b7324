SPECIFICATION MeasurementsSpec
CONSTANTS
  None = None
  Containers = {c1}
  Self = c1
  Rules <- ThreeRules
  Conditions <- TheirConditions
  HistoryLimit = 2
  Window = 1
  Second = 1
  MaxClock = 3
  MaxEvents = 3
  Stamps = {1, 2}
  MaxSamples = 2
  MaxChunks = 2
  Groups <- TheirPaths
  Identities <- TheirIdentities
  NoIdentity = NoIdentity
  Settings <- MCSettings
  Readings <- MCReadings
  Missing = Missing
  Pieces = 2
  Budget = 2
  p1 = p1
  p2 = p2
  i1 = i1
  i2 = i2
INVARIANTS
  VerdictSound
  SocketOwned
  VerdictOnProbes
  AcceptedEvaluates
PROPERTIES
  MeasurementsEnd
