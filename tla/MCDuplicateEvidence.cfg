SPECIFICATION Spec
CONSTANTS
  Threads = {t1}
  Users = {u1}
  Keys = {k1}
  Payloads <- FewPayloads
  MaxArrivals = 2
  Window = 2
  MaxHistory = 2
INVARIANT OneEventIsNoHabit
CHECK_DEADLOCK FALSE
