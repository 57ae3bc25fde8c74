SPECIFICATION Spec
CONSTANTS
  TotalFrames = 8
  WordBits = 4
  Reserved = {0, 5}
  DirectLimit = 9
  MaxCount = 3
INVARIANT
  RunsFound
