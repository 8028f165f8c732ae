SPECIFICATION Spec
CONSTANTS
  Writers = {w1, w2}
  Readers = {r1}
  WriteSizes <- FitSizes
  ReadSizes <- Reads
  Capacity <- PipeSize
  Platforms = {"unix"}
  None = None
INVARIANT SizeNotNegative
CHECK_DEADLOCK FALSE
