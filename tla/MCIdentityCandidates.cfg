CONSTANTS
  Procs = {p1}
  Candidates = {c1, c2}
  c1 = c1
  Devices = {d1}
  d1 = d1
  NoDevice = NoDevice
  Claims <- MCClaims
  Keys = {k1}
  k1 = k1
  NoKey = NoKey
  Shows <- MCShows
  Torn = Torn
SPECIFICATION Spec
INVARIANTS
  UnblockedWasVerified
  HistoryAgrees
PROPERTY
  ImplementsPolicy
