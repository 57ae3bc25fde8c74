SPECIFICATION Spec
CONSTANTS
  TotalFrames = 8
  WordBits = 4
  Reserved = {0, 5}
  DirectLimit = 6
  MaxCount = 3
PROPERTY
  ZeroInitialized
