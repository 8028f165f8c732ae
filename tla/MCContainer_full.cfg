SPECIFICATION Spec
CONSTANTS
  Capacity <- Full
  Ids = {1, 2}
  Bytes = {1, 2}
  Pieces <- OnePiece
  ReadSizes = {1, 3}
  MaxBlobs = 2
  MaxBytes = 2
  MaxTimes = 2
  Habits = {}
PROPERTY Implements
CHECK_DEADLOCK FALSE
