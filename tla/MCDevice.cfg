SPECIFICATION DeviceSpec
CONSTANTS
  p1 = p1
  p2 = p2
  p3 = p3
  k1 = k1
  w1 = w1
  w2 = w2
  flow = flow
  other = other
  Parts = {"state", "space", "identity", "recovery", "inspection", "binding", "candidate"}
  Writers = {p1, p2}
  Servers = {v1, local}
  DefaultServer = local
  Accounts = {a1, a2}
  OwnDevices = {d1}
  Creators = {p1}
  Readers = {p2, p3}
  SignerKeys = {key1, key2, key3}
  Classifiers = {p1}
  Inputs <- SomeInputs
  Inspectors = {p1}
  KeyPackages = {k1}
  Welcomes = {w1, w2}
  Workflows = {flow, other}
  Foreign <- ForeignSome
  Requests <- Inspections
  Values = {x, y}
  Events = {e1}
  Nothing = Nothing
  Absent = Absent
  Empty = Empty
  TornFile = TornFile
ACTION_CONSTRAINT Distinct
INVARIANTS
  StateIsSound
  IdentityIsWhole
  RecoveryIsSound
  InspectionIsSound
  LocalTrustIsSound
PROPERTY
  IdentityStays
