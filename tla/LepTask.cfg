SPECIFICATION FairSpec
CONSTANTS
  ImageWithin = 2
  ResyncVsyncs = 3
  SyncFailLimit = 2
  TimeoutLimit = 2
  RetrySecs = 2
INVARIANTS
  FaultSettles
PROPERTIES
  NoImageNoSilence
  FramesFlow
CHECK_DEADLOCK FALSE
