SPECIFICATION FairSpec
CONSTANTS
  Clients = {c1}
  Fds <- ThreeFds
  MaxSockets = 5
  Backlog = 1
  Dests = {"server"}
  Habits = {}
INVARIANT DescriptorsOwned
INVARIANT OkMeansConnected
INVARIANT AcceptedOnce
PROPERTY ConnectSettles
CHECK_DEADLOCK FALSE
