SPECIFICATION Spec
CONSTANTS
  alice = alice
  bob = bob
  g1 = g1
  g2 = g2
  b1 = b1
  b2 = b2
  p1 = p1
  p2 = p2
  c1 = c1
  Procs = {p1, p2}
  Devices = {alice, bob}
  Generations = {g1, g2}
  Bundles = {b1, b2}
  Owner <- MCOwner
  Conversations = {c1}
  Nothing = Nothing
SYMMETRY Symmetry
CONSTRAINT Bounds
INVARIANT
  WelcomeIsForMember
  QueuedOnce
PROPERTY
  ImplementsAdmission
