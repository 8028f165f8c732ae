SPECIFICATION Spec
CONSTANTS
  Kinds <- EmptyPost
  Lengths = {1, 2}
  MaxRequests = 2
  ReadMax = 6
  MaxSend = 2
  Habits = {}
  None = None
INVARIANT ReadBodyMovesOn
CHECK_DEADLOCK FALSE
