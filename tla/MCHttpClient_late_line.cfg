SPECIFICATION Spec
CONSTANTS
  Plans <- OneChunk
  Rooms <- Buffers
  SizeLimit <- Width
INVARIANT ErrorMeansLost
CHECK_DEADLOCK FALSE
