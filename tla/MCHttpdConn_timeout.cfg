SPECIFICATION Spec
CONSTANTS
  Kinds <- PostKinds
  Lengths = {1, 2}
  MaxRequests = 2
  ReadMax = 6
  MaxSend = 2
  Habits = {"pipeline"}
  None = None
INVARIANT TimeoutMeansPartial
CHECK_DEADLOCK FALSE
