SPECIFICATION Spec
CONSTANTS
  Plans <- InAllOrders
  Rooms <- Buffers
  SizeLimit <- Width
INVARIANT HeadersAsSent
INVARIANT BodyAsSent
PROPERTY ResponseReceived
CHECK_DEADLOCK FALSE
