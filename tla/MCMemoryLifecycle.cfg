SPECIFICATION Spec
CONSTANTS
  Subjects = {u1, u2}
  Facts = {f1, f2}
  Events = {e1}
  MaxMemories = 3
  MaxTime = 1
SYMMETRY UsersAndFacts
INVARIANT TypeOK
INVARIANT ClosedIsSealed
INVARIANT LineageIsSound
PROPERTY HistoryIsKept
PROPERTY ImplementsLife
CHECK_DEADLOCK FALSE
