------------------------------- MODULE MCSlab -------------------------------
(* A 64-bit Linux build: 4 KiB pages, min_shift 3 as ngx_init_zone_pool   *)
(* sets it, and the 64-bit sizes of the slab structures.  The zone sizes  *)
(* reach each branch of ngx_slab_init: smaller than the header arrays     *)
(* (600), too small for a page (4000), one page lost to alignment (4824), *)
(* one page exactly (8192), one page after the trim (8944), three pages   *)
(* (16384).                                                               *)
EXTENDS Slab

MCZoneSizes == {600, 4000, 4824, 8192, 8944, 16384}
MCSizes == {8, 1024}
\* A stale `slot`: a valid index, the last slot, or one past the array.
MCSlotGarbage == {0, 8, 9}
\* The tag bits, scaled down to stay within TLC's integers; only their
\* comparisons with page counts matter.
MCPageStart == 2 ^ 30
MCMapBit == 2 ^ 28

=============================================================================
