SPECIFICATION Spec
CONSTANTS
  Nets = {n1}
  NoNet = NoNet
  MaxRetry = 1
  MaxReinits = 0
  MaxScans = 0
  MaxEdits = 1
  MaxMoves = 1
PROPERTIES HotspotRaised
CHECK_DEADLOCK FALSE
