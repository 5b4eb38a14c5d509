SPECIFICATION SerialSpec
CONSTANTS
  Threads = {t1, t2}
  Subjects = {u1, u2}
  Facts = {f1}
  Events = {e1, e2}
  MaxMemories = 2
  MaxTime = 0
  Operations = {"write", "correct", "delete"}
  Policies <- MixedPolicies
  Faults = {"graph", "embedding"}
  GraphStores = {neo4j, in_memory}
  WrittenGraph = neo4j
SYMMETRY Interchangeable
INVARIANT DeletionIsFinal
INVARIANT CopiesAreInStep
INVARIANT OneMemoryPerFact
PROPERTY LivesOnce
PROPERTY EvidenceIsRetained
CHECK_DEADLOCK FALSE
