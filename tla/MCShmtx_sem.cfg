\* ngx_shmtx_create with a working POSIX semaphore: safety of the lock word.
CONSTANTS
  p1 = p1
  p2 = p2
  p3 = p3
  Master = Master
  Procs <- MCProcs
  Spin <- MCSpin
  NCpu <- MCNCpu
  SemInitOk = TRUE
SPECIFICATION Spec
SYMMETRY ProcSymmetry
INVARIANT MutualExclusion
PROPERTY MutexRefinement
 
