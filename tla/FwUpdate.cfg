SPECIFICATION FairSpec
CONSTANTS
  Images <- MCImages
  NoImage = NoImage
  MaxAttempts = 2
  MaxGets = 1
  MaxRequests = 2
  MaxDrops = 1
  MaxPresses = 2
  MaxEvents = 4
INVARIANTS
  ReadyToWrite
  ImageInOrder
  OnePressOneUpdate
PROPERTIES
  UpdateEnds
