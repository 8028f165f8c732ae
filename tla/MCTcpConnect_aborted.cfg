SPECIFICATION FairSpec
CONSTANTS
  Clients = {c1}
  Fds <- ThreeFds
  MaxSockets = 5
  Backlog = 1
  Dests = {"server"}
  Habits = {"aborted"}
PROPERTY AcceptReturns
CHECK_DEADLOCK FALSE
