SPECIFICATION Spec
CONSTANTS
  Kinds <- PipelineKinds
  Lengths = {0, 1, 2}
  MaxRequests = 2
  ReadMax = 5
  MaxSend = 2
  Habits = {"pipeline", "reparse"}
  None = None
INVARIANT InStep
INVARIANT BodyIsTheClients
INVARIANT ResponsesFramed
PROPERTY ServesInOrder
CHECK_DEADLOCK FALSE
