SPECIFICATION Spec
CONSTANTS
  Cmd = Cmd
  Lep = Lep
  Rsp = Rsp
  None = None
  Attempts = 2
  MaxOps = 2
  MaxViewers = 1
  MaxInside = 2
  MaxTroubles = 1
INVARIANTS VerifiedSticks ParkAgrees ConfigAgrees StatusIsOwn
PROPERTIES CallsEnd
CHECK_DEADLOCK FALSE
