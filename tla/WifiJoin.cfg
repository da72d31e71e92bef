SPECIFICATION Spec
CONSTANTS
  Nets = {n1}
  NoNet = NoNet
  MaxRetry = 1
  MaxReinits = 1
  MaxScans = 1
  MaxEdits = 1
  MaxMoves = 1
INVARIANTS UpIsTrue HoldRespected HotspotStays
PROPERTIES JoinsEventually HotspotOrHome
CHECK_DEADLOCK FALSE
