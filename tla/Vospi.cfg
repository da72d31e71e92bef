SPECIFICATION VospiSpec
CONSTANTS
  Gap = 8
INVARIANTS
  ImageSoon
PROPERTIES
  WholeImage
