SPECIFICATION Spec
CONSTANTS
  Threads = {t1}
  Subjects = {u1}
  Facts = {f1}
  Events = {e1}
  MaxMemories = 2
  MaxTime = 0
  Operations = {"write", "correct"}
  Policies <- DefaultPolicies
  Faults = {}
  GraphStores = {neo4j, in_memory}
  WrittenGraph = neo4j
SYMMETRY Interchangeable
INVARIANT CorrectionClosesCopy
CHECK_DEADLOCK FALSE
