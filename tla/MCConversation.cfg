CONSTANTS
  Procs = {p1}
  Labels = {l1, l2, l3}
  e1 = e1
  e2 = e2
  m1 = m1
  m2 = m2
  Epochs = {e1, e2, e3}
  MaxSent = 2
  PeerMessages = {m1, m2}
  EpochOf <- EpochOfMessage
  Absent = Absent
  Torn = Torn
  Empty = Empty
  NoEpoch = NoEpoch
SPECIFICATION Spec
INVARIANTS
  AnswersKept
  KeysUsedOnce
PROPERTIES
  ReplayRefused
  TornIsFinal
