SPECIFICATION FairSpec
CONSTANTS
  e1 = e1
  e2 = e2
  l1 = l1
  l2 = l2
  p1 = p1
  p2 = p2
  Procs = {p1, p2}
  Labels = {l1, l2}
  MaxSent = 2
  Envelopes = {e1, e2}
  Limits = {1, 2}
  Absent = Absent
  Empty = Empty
  Torn = Torn
  Nothing = Nothing
ACTION_CONSTRAINT Distinct
INVARIANTS
  DeliveredOnce
  SubmittedOnce
PROPERTIES
  ImplementsDelivery
  EveryMessageOpened
