------------------------------ MODULE MCShmtx ------------------------------
(***************************************************************************)
(* Model-checking instance of Shmtx: three worker processes and the        *)
(* master, a spin ceiling that allows two spin rounds (n = 1, 2 < 4), and  *)
(* two CPUs so the spin loop of ngx_shmtx_lock is taken.                   *)
(***************************************************************************)
EXTENDS Shmtx, TLC

CONSTANTS p1, p2, p3

MCProcs == {p1, p2, p3}
\* Two workers are enough to exhibit the violations.
MCProcs2 == {p1, p2}

MCSpin == 4
MCNCpu == 2

\* Workers are interchangeable: safety runs may use this symmetry.
ProcSymmetry == Permutations(MCProcs)

=============================================================================
