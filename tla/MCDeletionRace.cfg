SPECIFICATION Spec
CONSTANTS
  Threads = {t1, t2}
  Subjects = {u1}
  Facts = {f1}
  Events = {e1}
  MaxMemories = 2
  MaxTime = 0
  Operations = {"write", "delete"}
  Policies <- DefaultPolicies
  Faults = {}
  GraphStores = {neo4j, in_memory}
  WrittenGraph = neo4j
SYMMETRY Interchangeable
INVARIANT DeletionIsFinal
CHECK_DEADLOCK FALSE
