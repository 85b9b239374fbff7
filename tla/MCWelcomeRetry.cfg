CONSTANTS
  Procs = {p1}
  Kinds = {"consume"}
  e1 = e1
  e2 = e2
  d1 = d1
  d2 = d2
  Envelopes = {e1, e2}
  Conversations = {c1, c2}
  Directories = {d1}
  Directory <- SharedDirectory
  NoEnvelope = NoEnvelope
  NoReceipt = NoReceipt
SPECIFICATION FairSpec
INVARIANT
  JoinedOnce
PROPERTY
  JoinedGetsAcked
