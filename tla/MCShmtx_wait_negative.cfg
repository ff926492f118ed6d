\* Can the waiter count *mtx->wait go below zero?
CONSTANTS
  p1 = p1
  p2 = p2
  p3 = p3
  Master = Master
  Procs <- MCProcs2
  Spin <- MCSpin
  NCpu <- MCNCpu
  SemInitOk = TRUE
SPECIFICATION Spec
INVARIANT WaitNeverNegative
