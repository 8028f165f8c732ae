SPECIFICATION FairSpec
CONSTANTS
  Streams <- JustOut
  StdIn = TRUE
  Output = {3}
  Input = {2}
  Chunk = 1
  PipeSize = 1
  MaxBuf = 1
  MaxLaunches = 1
  Habits = {}
  None = None
PROPERTY FinalReadReturns
CHECK_DEADLOCK FALSE
