------------------------------- MODULE Mutex -------------------------------
(***************************************************************************)
(* What the process-shared mutex of src/core/ngx_shmtx.c promises, with    *)
(* every implementation detail (spinning, the waiter count, the semaphore) *)
(* left out: a single holder or none; a live process may take a free lock; *)
(* the holder, or the master on behalf of a holder that died, frees it;    *)
(* the lock never passes from one holder to another without being free.   *)
(***************************************************************************)
CONSTANTS
  Procs,   \* the processes that share the mutex
  None     \* "no holder" (the lock word 0 of the implementation)

ASSUME None \notin Procs

VARIABLES
  holder,  \* the process holding the lock, or None
  dead     \* the processes that have exited

Init ==
  /\ holder = None
  /\ dead = {}

\* A live process takes the free lock.
Acquire(p) ==
  /\ holder = None
  /\ p \notin dead
  /\ holder' = p
  /\ UNCHANGED dead

\* The lock is freed, by its holder or, once the holder died, by the master.
Release(p) ==
  /\ holder = p
  /\ holder' = None
  /\ UNCHANGED dead

\* A process exits, possibly while holding the lock.
Exit(p) ==
  /\ p \notin dead
  /\ dead' = dead \cup {p}
  /\ UNCHANGED holder

Next == \E p \in Procs : Acquire(p) \/ Release(p) \/ Exit(p)

Spec == Init /\ [][Next]_<<holder, dead>>

=============================================================================
