\* With a working semaphore, does every ngx_shmtx_lock still make progress?
CONSTANTS
  p1 = p1
  p2 = p2
  p3 = p3
  Master = Master
  Procs <- MCProcs2
  Spin <- MCSpin
  NCpu <- MCNCpu
  SemInitOk = TRUE
SPECIFICATION Spec
PROPERTY DeadlockFree
