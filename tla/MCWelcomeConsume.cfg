CONSTANTS
  Procs = {p1, p2}
  Kinds = {"consume", "join"}
  e1 = e1
  e2 = e2
  d1 = d1
  d2 = d2
  Envelopes = {e1, e2}
  Conversations = {c1, c2}
  Directories = {d1, d2}
  Directory <- OwnDirectories
  NoEnvelope = NoEnvelope
  NoReceipt = NoReceipt
SPECIFICATION Spec
SYMMETRY OwnSymmetry
INVARIANT
  ReceiptsTruthful
PROPERTIES
  ReceiptsAdvance
  ImplementsDelivery
