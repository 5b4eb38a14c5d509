SPECIFICATION Spec
CONSTANTS
  Threads = {t1, t2}
  Memories <- MCMemories
  OwnerOf <- MCOwnerOf
  EntitiesOf <- MCEntitiesOf
  PredecessorOf <- MCPredecessorOf
  MaxRevision = 3
  user = user
  artist = artist
SYMMETRY Interchangeable
CONSTRAINT FewPuts
INVARIANT WholeWhenWritten
PROPERTY CopyMovesForward
CHECK_DEADLOCK FALSE
