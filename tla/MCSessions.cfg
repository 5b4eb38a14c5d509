SPECIFICATION Spec
CONSTANTS
  Threads = {t1, t2}
  Subjects = {u1}
  IdleTimeout = 2
  OtherCalls = {"end", "expire"}
  MaxSessions = 3
  MaxTime = 2
SYMMETRY Interchangeable
INVARIANT RecordsAreConsistent
INVARIANT AsManyAsThreads
INVARIANT OneActiveSession
INVARIANT NobodyIsTurnedAway
PROPERTY IdentityIsKept
PROPERTY ClosedStaysClosed
PROPERTY ActivityIsContinuous
CHECK_DEADLOCK FALSE
