SPECIFICATION Spec
CONSTANTS
  Threads = {t1, t2}
  Users = {u1, u2}
  Keys = {k1, k2}
  Payloads <- MixedPayloads
  MaxArrivals = 3
  Window = 2
  MaxHistory = 2
SYMMETRY Interchangeable
INVARIANT TypeOK
INVARIANT HistoryIsRecent
INVARIANT SourcesAreOwn
INVARIANT RetriesCountOnce
INVARIANT HistoryMatchesKeys
INVARIANT LearningIsSettled
CHECK_DEADLOCK FALSE
