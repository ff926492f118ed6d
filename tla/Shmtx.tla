------------------------------- MODULE Shmtx -------------------------------
(***************************************************************************)
(* The process-shared hybrid mutex of src/core/ngx_shmtx.c.                *)
(*                                                                         *)
(* The shared state (ngx_shmtx_sh_t, in memory mapped by every process) is *)
(* the lock word, 0 or the pid of the holder, the waiter count `wait`, and *)
(* the POSIX semaphore `sem`.  Worker processes run ngx_shmtx_lock,        *)
(* ngx_shmtx_trylock and ngx_shmtx_unlock; every atomic operation of the   *)
(* code (a compare-and-set, a fetch-add, a load, sem_wait, sem_post) is    *)
(* one step, so the steps of different processes interleave freely.  A    *)
(* worker may exit at any point; the master then reaps it and calls        *)
(* ngx_shmtx_force_unlock with its pid.                                    *)
(***************************************************************************)
EXTENDS Integers, FiniteSets

CONSTANTS
  Procs,      \* the pids (ngx_pid) of the worker processes
  Master,     \* the master process, which force-unlocks for dead workers
  Spin,       \* mtx->spin, the ceiling of the spin loop of ngx_shmtx_lock
  NCpu,       \* ngx_ncpu
  SemInitOk   \* sem_init succeeded in ngx_shmtx_create: mtx->semaphore = 1

ASSUME /\ 0 \notin Procs /\ Master \notin Procs
       /\ Spin \in Nat \ {0} /\ NCpu \in Nat \ {0} /\ SemInitOk \in BOOLEAN

VARIABLES
  lock,    \* *mtx->lock
  wait,    \* *mtx->wait, read as the ngx_atomic_int_t ngx_shmtx_wakeup uses
  sem,     \* the value of the semaphore mtx->sem
  pc,      \* the program point of every process
  n,       \* the local n of ngx_shmtx_lock: the length of the spin round
  wv,      \* the local `wait` of ngx_shmtx_wakeup
  status   \* "alive", "dead" (exited, not yet reaped) or "reaped"

vars == <<lock, wait, sem, pc, n, wv, status>>

Actors == Procs \cup {Master}

\* Program points.  "lock" is the top of the for (;;) loop of
\* ngx_shmtx_lock, "cs" is a caller holding the lock, "wake_*" are the
\* steps of ngx_shmtx_wakeup.
Trying == {"lock", "spin", "sem_inc", "sem_try", "sem_wait"}
Waking == {"wake_read", "wake_cas", "wake_post"}
PCs    == {"idle", "cs"} \cup Trying \cup Waking

\* ngx_shmtx_create: the shared words start at 0, the semaphore at 0.
Init ==
  /\ lock = 0
  /\ wait = 0
  /\ sem = 0
  /\ pc = [a \in Actors |-> "idle"]
  /\ n = [p \in Procs |-> 1]
  /\ wv = [a \in Actors |-> 0]
  /\ status = [p \in Procs |-> "alive"]

Alive(p) == status[p] = "alive"

Goto(a, l) == pc' = [pc EXCEPT ![a] = l]

\* Where ngx_shmtx_lock goes once spinning gave up: to the semaphore when
\* one is configured, otherwise ngx_sched_yield() and round the loop.
AfterSpin == IF SemInitOk THEN "sem_inc" ELSE "lock"

\* `*mtx->lock == 0 && ngx_atomic_cmp_set(mtx->lock, 0, ngx_pid)` at the
\* top of the loop; on failure, spin only if there is more than one CPU.
FastPath(p) ==
  IF lock = 0
  THEN /\ lock' = p
       /\ Goto(p, "cs")
       /\ UNCHANGED n
  ELSE /\ Goto(p, IF NCpu > 1 THEN "spin" ELSE AfterSpin)
       /\ n' = [n EXCEPT ![p] = 1]
       /\ UNCHANGED lock

\* A worker calls ngx_shmtx_lock.
ngx_shmtx_lock(p) ==
  /\ Alive(p) /\ pc[p] = "idle"
  /\ FastPath(p)
  /\ UNCHANGED <<wait, sem, wv, status>>

\* Back at the top of the for (;;) loop, after a yield or a wake-up.
LockLoop(p) ==
  /\ Alive(p) /\ pc[p] = "lock"
  /\ FastPath(p)
  /\ UNCHANGED <<wait, sem, wv, status>>

\* Mutant: the spin round shifts n the wrong way (n >>= 1).
LockSpinShiftRight(p) ==
  /\ Alive(p) /\ pc[p] = "spin"
  /\ IF n[p] < Spin
     THEN IF lock = 0
          THEN lock' = p /\ Goto(p, "cs") /\ UNCHANGED n
          ELSE n' = [n EXCEPT ![p] = n[p] \div 2] /\ UNCHANGED <<lock, pc>>
     ELSE Goto(p, AfterSpin) /\ UNCHANGED <<lock, n>>
  /\ UNCHANGED <<wait, sem, wv, status>>

\* Mutant: the spin round stores its pid instead of a compare-and-set.
LockSpinStore(p) ==
  /\ Alive(p) /\ pc[p] = "spin"
  /\ IF n[p] < Spin
     THEN lock' = p /\ Goto(p, "cs") /\ UNCHANGED n
     ELSE Goto(p, AfterSpin) /\ UNCHANGED <<lock, n>>
  /\ UNCHANGED <<wait, sem, wv, status>>

\* One round of `for (n = 1; n < mtx->spin; n <<= 1)`: n pauses, then the
\* compare-and-set again; when n reaches mtx->spin the loop is left.
LockSpin(p) ==
  /\ Alive(p) /\ pc[p] = "spin"
  /\ IF n[p] < Spin
     THEN IF lock = 0
          THEN lock' = p /\ Goto(p, "cs") /\ UNCHANGED n
          ELSE n' = [n EXCEPT ![p] = 2 * n[p]] /\ UNCHANGED <<lock, pc>>
     ELSE Goto(p, AfterSpin) /\ UNCHANGED <<lock, n>>
  /\ UNCHANGED <<wait, sem, wv, status>>

\* ngx_atomic_fetch_add(mtx->wait, 1): register as a waiter.
LockSemInc(p) ==
  /\ Alive(p) /\ pc[p] = "sem_inc"
  /\ wait' = wait + 1
  /\ Goto(p, "sem_try")
  /\ UNCHANGED <<lock, sem, n, wv, status>>

\* Mutant: after registering, the lock word is stored, not compared-and-set.
LockSemTryStore(p) ==
  /\ Alive(p) /\ pc[p] = "sem_try"
  /\ lock' = p /\ wait' = wait - 1
  /\ Goto(p, "sem_wait")
  /\ UNCHANGED <<sem, n, wv, status>>

\* The compare-and-set after registering.  When it succeeds the code takes
\* the waiter count back but has no return: it goes on to sem_wait.
LockSemTry(p) ==
  /\ Alive(p) /\ pc[p] = "sem_try"
  /\ IF lock = 0
     THEN lock' = p /\ wait' = wait - 1
     ELSE UNCHANGED <<lock, wait>>
  /\ Goto(p, "sem_wait")
  /\ UNCHANGED <<sem, n, wv, status>>

\* sem_wait blocks until the semaphore is positive and takes one from it;
\* then `continue` to the top of the loop.
LockSemWait(p) ==
  /\ Alive(p) /\ pc[p] = "sem_wait"
  /\ sem > 0
  /\ sem' = sem - 1
  /\ Goto(p, "lock")
  /\ UNCHANGED <<lock, wait, n, wv, status>>

\* Mutant: trylock without `*mtx->lock == 0` and with a plain store.
TrylockStore(p) ==
  /\ Alive(p) /\ pc[p] = "idle"
  /\ lock' = p
  /\ Goto(p, "cs")
  /\ UNCHANGED <<wait, sem, n, wv, status>>

\* ngx_shmtx_trylock: one compare-and-set, no waiting.  A failed trylock
\* changes nothing, so only the successful call is a step.
ngx_shmtx_trylock(p) ==
  /\ Alive(p) /\ pc[p] = "idle"
  /\ lock = 0
  /\ lock' = p
  /\ Goto(p, "cs")
  /\ UNCHANGED <<wait, sem, n, wv, status>>

\* Where an actor goes after it freed the lock: ngx_shmtx_wakeup returns at
\* once unless mtx->semaphore is set.
AfterRelease == IF SemInitOk THEN "wake_read" ELSE "idle"

\* Mutant: unlock with the compare-and-set arguments swapped,
\* ngx_atomic_cmp_set(mtx->lock, 0, ngx_pid).
UnlockSwapped(p) ==
  /\ Alive(p) /\ pc[p] = "cs"
  /\ IF lock = 0
     THEN lock' = p /\ Goto(p, AfterRelease)
     ELSE UNCHANGED lock /\ Goto(p, "idle")
  /\ UNCHANGED <<wait, sem, n, wv, status>>

\* ngx_shmtx_unlock: ngx_atomic_cmp_set(mtx->lock, ngx_pid, 0), and the
\* wake-up only if that succeeded.
ngx_shmtx_unlock(p) ==
  /\ Alive(p) /\ pc[p] = "cs"
  /\ IF lock = p
     THEN lock' = 0 /\ Goto(p, AfterRelease)
     ELSE UNCHANGED lock /\ Goto(p, "idle")
  /\ UNCHANGED <<wait, sem, n, wv, status>>

\* ngx_shmtx_wakeup: `wait = *mtx->wait`; nothing to do if it is <= 0.
WakeRead(a) ==
  /\ pc[a] = "wake_read"
  /\ a \in Procs => Alive(a)
  /\ IF wait <= 0
     THEN Goto(a, "idle") /\ UNCHANGED wv
     ELSE Goto(a, "wake_cas") /\ wv' = [wv EXCEPT ![a] = wait]
  /\ UNCHANGED <<lock, wait, sem, n, status>>

WakeCas(a) ==
  /\ pc[a] = "wake_cas"
  /\ a \in Procs => Alive(a)
  /\ IF wait = wv[a]
     THEN wait' = wv[a] - 1 /\ Goto(a, "wake_post")
     ELSE UNCHANGED wait /\ Goto(a, "wake_read")
  /\ UNCHANGED <<lock, sem, n, wv, status>>

\* sem_post(&mtx->sem): release one blocked waiter.
WakePost(a) ==
  /\ pc[a] = "wake_post"
  /\ a \in Procs => Alive(a)
  /\ sem' = sem + 1
  /\ Goto(a, "idle")
  /\ UNCHANGED <<lock, wait, n, wv, status>>

\* A worker exits at any point of the code, holding whatever it holds.
Exit(p) ==
  /\ Alive(p)
  /\ status' = [status EXCEPT ![p] = "dead"]
  /\ UNCHANGED <<lock, wait, sem, pc, n, wv>>

\* The master reaps a dead worker and calls ngx_shmtx_force_unlock with
\* its pid: ngx_atomic_cmp_set(mtx->lock, pid, 0), then the wake-up.
ngx_shmtx_force_unlock(d) ==
  /\ pc[Master] = "idle"
  /\ status[d] = "dead"
  /\ status' = [status EXCEPT ![d] = "reaped"]
  /\ IF lock = d
     THEN lock' = 0 /\ Goto(Master, AfterRelease)
     ELSE UNCHANGED <<lock, pc>>
  /\ UNCHANGED <<wait, sem, n, wv>>

\* Every worker has exited and been reaped: the system has stopped.
Terminated ==
  /\ \A p \in Procs : status[p] = "reaped"
  /\ pc[Master] = "idle"
  /\ UNCHANGED vars

\* The steps a worker takes inside a call it has made.
Running(p) ==
  \/ LockLoop(p) \/ LockSpin(p) \/ LockSemInc(p) \/ LockSemTry(p)
  \/ LockSemWait(p) \/ ngx_shmtx_unlock(p)
  \/ WakeRead(p) \/ WakeCas(p) \/ WakePost(p)

\* The master's steps.
MasterStep ==
  \/ \E d \in Procs : ngx_shmtx_force_unlock(d)
  \/ WakeRead(Master) \/ WakeCas(Master) \/ WakePost(Master)

Next ==
  \/ \E p \in Procs :
       \/ ngx_shmtx_lock(p) \/ ngx_shmtx_trylock(p) \/ Running(p) \/ Exit(p)
  \/ MasterStep
  \/ Terminated

\* A worker inside a call is scheduled until the call returns; the master
\* reaps dead workers (it is signalled with SIGCHLD).  Calling lock or
\* trylock, and exiting, are up to the caller and are not fair.
Fairness ==
  /\ \A p \in Procs : WF_vars(Running(p))
  /\ WF_vars(MasterStep)

Spec == Init /\ [][Next]_vars /\ Fairness

-----------------------------------------------------------------------------
(* Properties.                                                              *)

TypeOK ==
  /\ lock \in {0} \cup Procs
  /\ wait \in -Cardinality(Procs)..Cardinality(Procs)
  /\ sem \in 0..Cardinality(Procs)
  /\ pc \in [Actors -> PCs]
  /\ n \in [Procs -> Nat \ {0}]
  /\ wv \in [Actors -> Int]
  /\ status \in [Procs -> {"alive", "dead", "reaped"}]

\* Mutual exclusion: no two live workers are ever between a successful
\* ngx_shmtx_lock/ngx_shmtx_trylock and their ngx_shmtx_unlock at once
\* (a worker that died in the critical section left it).
InCS(p) == Alive(p) /\ pc[p] = "cs"

MutualExclusion ==
  \A p, q \in Procs : p # q => ~(InCS(p) /\ InCS(q))

\* The waiter count is never negative (spec, section 3: "waiter count is
\* never negative").  ngx_shmtx_lock takes its registration back after a
\* waker already consumed it (the fetch_add(-1) of LockSemTry).
WaitNeverNegative == wait >= 0

DeadlockFree ==
  \A p \in Procs :
    (Alive(p) /\ pc[p] \in Trying) ~> (\E q \in Procs : InCS(q)) \/ ~Alive(p)

\* The lock word behaves as the abstract mutex of module Mutex: it goes
\* from 0 to a live worker and back to 0, never from worker to worker.
AbstractMutex ==
  INSTANCE Mutex WITH holder <- lock, None <- 0,
                      dead <- {p \in Procs : status[p] # "alive"}

MutexRefinement == AbstractMutex!Spec

=============================================================================
