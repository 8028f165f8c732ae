SPECIFICATION FairSpec
CONSTANTS
  Kinds <- LiveKinds
  Lengths = {1, 2}
  MaxRequests = 2
  ReadMax = 4
  MaxSend = 2
  Habits = {}
  None = None
PROPERTY RequestsAnswered
CHECK_DEADLOCK FALSE
