\* Two callers, two connections, two jobs; at most two jobs wait.
CONSTANTS
  Conn = {c1, c2}
  Caller = {t1, t2}
  Job = {j1, j2}
  NoJob = NoJob
  MaxPending = 2
SPECIFICATION BoundedSpec
SYMMETRY Symmetry
INVARIANTS ServerTypeOK NoLostWakeup NoStaleConnection
PROPERTIES JobsRunInOrder
CHECK_DEADLOCK FALSE
