SPECIFICATION Spec
CONSTANTS
  Ssids = {s1, s2, s3, s4}
  Pws = {p1, p2}
  NoNet = NoNet
  NoPw = NoPw
  NoTable = NoTable
  Slots = 3
  MaxOps = 5
  MaxTroubles = 2
SYMMETRY Interchangeable
INVARIANTS TableSound ForgottenStays KnownStays
PROPERTIES ImplementsStore
CHECK_DEADLOCK FALSE
