SPECIFICATION FairSpec
CONSTANTS
  Streams <- MCStreams
  MaxRsps = 1
  MaxSessions = 2
  MaxCmds = 2
INVARIANTS
  NothingInherited
  LastCommandCounts
  OvershootBounded
PROPERTIES
  ImageOwed
  StreamFlows
