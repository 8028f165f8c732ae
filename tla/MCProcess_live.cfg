SPECIFICATION FairSpec
CONSTANTS
  Streams <- JustOut
  StdIn = TRUE
  Output = {0, 3}
  Input = {2}
  Chunk = 1
  PipeSize = 1
  MaxBuf = 3
  MaxLaunches = 1
  Habits = {"nofork"}
  None = None
PROPERTY LaunchComesUp
PROPERTY ShutdownReturns
PROPERTY FinalReadReturns
PROPERTY WriteReturns
CHECK_DEADLOCK FALSE
