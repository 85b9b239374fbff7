CONSTANTS
  Procs = {p1, p2}
  Devices = {d1, d2}
  Keys = {k1, k2}
  NoKey = NoKey
  Torn = Torn
SPECIFICATION Spec
SYMMETRY Symmetry
CONSTRAINT UpdatesApart
INVARIANT
  HistoryMatches
PROPERTIES
  RevokedBlocks
  StrictSendsAccepted
  ImplementsPolicy
