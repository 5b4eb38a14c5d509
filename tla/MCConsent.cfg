SPECIFICATION Spec
CONSTANTS
  Threads = {t1, t2, t3}
  Subjects = {u1, u2}
  Operations = {"control", "preference", "correction", "query", "explanation", "event"}
SYMMETRY Interchangeable
INVARIANT LateUseIsBounded
INVARIANT NobodyUsedUnasked
INVARIANT OptOutStands
PROPERTY OnlyWithConsent
PROPERTY ConsentFollowsTable
