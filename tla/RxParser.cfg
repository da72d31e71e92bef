SPECIFICATION RxFairSpec
CONSTANTS
  RingLen = 6
  MaxChunk = 2
  Texts <- MCTexts
  MaxWire = 6
  MaxNoise = 2
INVARIANTS
  ExactlyOnce
PROPERTIES
  ParseEnds
