SPECIFICATION Spec
CONSTANTS
  Plans <- AfterChunks
  Rooms <- Buffers
  SizeLimit <- Width
INVARIANT HeadersAsSent
CHECK_DEADLOCK FALSE
