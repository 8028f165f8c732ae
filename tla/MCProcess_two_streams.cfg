SPECIFICATION FairSpec
CONSTANTS
  Streams <- Both
  StdIn = TRUE
  Output = {0, 3}
  Input = {2}
  Chunk = 1
  PipeSize = 1
  MaxBuf = 3
  MaxLaunches = 1
  Habits = {}
  None = None
PROPERTY ShutdownReturns
CHECK_DEADLOCK FALSE
