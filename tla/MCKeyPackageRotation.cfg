CONSTANTS
  Procs = {p1, p2}
  Requests = {r1, r2}
  LegacyRequest = legacy_import
  Keys = {k1, k2, k3}
  MaxSequence = 3
  Absent = Absent
  Torn = Torn
  NoGeneration = NoGeneration
SPECIFICATION FairSpec
INVARIANTS
  PublishedKeysStored
  RepliesAgree
PROPERTIES
  ImplementsLedger
  CommandsReturn
