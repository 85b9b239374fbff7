CONSTANTS
  Procs = {p1, p2}
  e1 = e1
  e2 = e2
  d1 = d1
  Envelopes = {e1, e2, e3}
  Directories = {d1, d2}
  Directory <- MCDirectory
  NoEnvelope = NoEnvelope
  NoReceipt = NoReceipt
SPECIFICATION FairSpec
INVARIANT
  ReceiptsTruthful
PROPERTIES
  ConsumedStays
  ImplementsDelivery
  ReceiptGetsAcked
