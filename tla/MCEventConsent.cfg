SPECIFICATION Spec
CONSTANTS
  Threads = {t1}
  Subjects = {u1}
  Operations = {"control", "event"}
SYMMETRY Interchangeable
PROPERTY EventsRespectOptOut
