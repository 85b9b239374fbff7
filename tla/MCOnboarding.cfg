SPECIFICATION DeviceSpec
CONSTANTS
  p1 = p1
  p2 = p2
  p3 = p3
  k1 = k1
  w1 = w1
  w2 = w2
  flow = flow
  other = other
  Parts = {"inspection"}
  Writers = {}
  Servers = {local}
  DefaultServer = local
  Accounts = {}
  OwnDevices = {}
  Creators = {}
  Readers = {}
  SignerKeys = {}
  Classifiers = {}
  Inputs = {}
  Inspectors = {p1, p2}
  KeyPackages = {k1}
  Welcomes = {w1}
  Workflows = {flow, other}
  Foreign <- ForeignNone
  Requests <- WorkflowRequests
  Values = {}
  Events = {}
  Nothing = Nothing
  Absent = Absent
  Empty = Empty
  TornFile = TornFile
SYMMETRY Symmetry
INVARIANT
  ReadyStaysTrue
PROPERTY
  AnswersOwnWorkflow
