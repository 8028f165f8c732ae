SPECIFICATION Spec
CONSTANTS
  Capacity <- Enough
  Ids = {1, 2}
  Bytes = {1, 2}
  Pieces <- TwoPieces
  ReadSizes = {1, 3}
  MaxBlobs = 2
  MaxBytes = 2
  MaxTimes = 2
  Habits = {"damage"}
INVARIANT VerifyExact
INVARIANT KnowsTheFile
PROPERTY Implements
CHECK_DEADLOCK FALSE
