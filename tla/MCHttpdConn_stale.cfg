SPECIFICATION Spec
CONSTANTS
  Kinds <- StaleKinds
  Lengths = {1, 2}
  MaxRequests = 2
  ReadMax = 6
  MaxSend = 2
  Habits = {}
  None = None
INVARIANT LengthIsOwn
CHECK_DEADLOCK FALSE
