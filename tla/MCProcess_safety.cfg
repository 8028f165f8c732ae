SPECIFICATION Spec
CONSTANTS
  Streams <- Both
  StdIn = TRUE
  Output = {2}
  Input = {1}
  Chunk = 1
  PipeSize = 1
  MaxBuf = 0
  MaxLaunches = 2
  Habits = {"nofork", "nopipe", "relaunch", "signal"}
  None = None
INVARIANT ThreadsAccountedFor
INVARIANT ReadsOpenEnd
INVARIANT ObjectOutlivesThreads
INVARIANT BufferBounded
INVARIANT FinalReadComplete
CHECK_DEADLOCK FALSE
