\* ngx_shmtx_create when sem_init failed (or NGX_HAVE_POSIX_SEM is off):
\* ngx_shmtx_lock spins and yields.  Safety and progress.
CONSTANTS
  p1 = p1
  p2 = p2
  p3 = p3
  Master = Master
  Procs <- MCProcs
  Spin <- MCSpin
  NCpu <- MCNCpu
  SemInitOk = FALSE
SPECIFICATION Spec
INVARIANT TypeOK
INVARIANT MutualExclusion
PROPERTY DeadlockFree
