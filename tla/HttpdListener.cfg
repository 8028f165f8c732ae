SPECIFICATION FairSpec
CONSTANTS
  Conns = {c1, c2, c3, c4}
  Tids = {t1, t2}
  None = None
INVARIANT NoUseAfterFree
INVARIANT JoinsOnlyItsThread
INVARIANT NothingOutlivesOwner
PROPERTY ReleasedAfterJoin
PROPERTY DestructorReturns
PROPERTY QuitChildrenReaped
CHECK_DEADLOCK FALSE
