SPECIFICATION PollingSpec
CONSTANTS
  Writers = {w1}
  Readers = {r1}
  WriteSizes <- AnySize
  ReadSizes <- Reads
  Capacity <- PipeSize
  Platforms = {"unix", "win32"}
  None = None
INVARIANT SizeNotNegative
INVARIANT ReadWouldNotBlock
INVARIANT PromiseKept
INVARIANT SizeIsExact
PROPERTY PolledWriteDrains
CHECK_DEADLOCK FALSE
