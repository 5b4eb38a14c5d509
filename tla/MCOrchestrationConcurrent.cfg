SPECIFICATION Spec
CONSTANTS
  Threads = {t1, t2}
  Subjects = {u1, u2}
  Facts = {f1}
  Events = {e1}
  MaxMemories = 2
  MaxTime = 0
  Operations = {"write", "correct", "delete", "expire", "update", "supersede", "recorrect"}
  Policies <- MixedPolicies
  Faults = {"graph", "embedding"}
  GraphStores = {neo4j, in_memory}
  WrittenGraph = neo4j
SYMMETRY Interchangeable
VIEW Present
INVARIANT TypeOK
INVARIANT CopiesHaveOrigin
INVARIANT OwnersAgree
INVARIANT NothingHalfClosed
INVARIANT ReplacedIsSucceeded
CHECK_DEADLOCK FALSE
