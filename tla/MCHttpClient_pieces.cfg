SPECIFICATION Spec
CONSTANTS
  Plans <- EndsWithFeed
  Rooms <- Buffers
  SizeLimit <- Width
INVARIANT BodyAsSent
CHECK_DEADLOCK FALSE
