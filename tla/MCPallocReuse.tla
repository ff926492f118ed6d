---------------------------- MODULE MCPallocReuse ----------------------------
(***************************************************************************)
(* Palloc with history variables, to ask what spec section 8 promises of  *)
(* ngx_reset_pool: re-issuing the requests of the cycle before a reset    *)
(* never needs a new block.  `prev` is the list of calls made between the  *)
(* last two resets (or creation and the last reset), `cur` the calls made  *)
(* since the last reset, `nb` the length of the chain at that reset.  The  *)
(* history only records: every step is a step of Palloc's Next.           *)
(***************************************************************************)
EXTENDS MCPalloc, SequencesExt

VARIABLES prev, cur, nb

hist == <<prev, cur, nb>>

InitH == Init /\ prev = <<>> /\ cur = <<>> /\ nb = 0

\* A call other than a reset is appended to the current cycle.
Record(c) == cur' = Append(cur, c) /\ UNCHANGED <<prev, nb>>

NextH ==
  \/ \E s \in Sizes : \/ ngx_palloc(s) /\ Record(<<"palloc", s>>)
                      \/ ngx_pnalloc(s) /\ Record(<<"pnalloc", s>>)
  \/ ngx_pmemalign /\ Record(<<"pmemalign", 0>>)
  \/ \E p \in 1..(pool.next - 1) : ngx_pfree(p) /\ Record(<<"pfree", p>>)
  \/ \E s \in CleanupSizes : ngx_pool_cleanup_add(s) /\ Record(<<"cleanup", s>>)
  \/ ngx_reset_pool /\ prev' = cur /\ cur' = <<>> /\ nb' = Len(pool.blocks)
  \/ (ngx_destroy_pool \/ Terminated) /\ UNCHANGED hist

SpecH == InitH /\ [][NextH]_<<vars, hist>>

\* Spec section 8: "reset() followed by re-allocating the same total bytes
\* as before reset never triggers a new block allocation".  While the
\* calls since ngx_reset_pool repeat those of the cycle before it, the
\* chain keeps the blocks it had at the reset.
ResetReusesBlocks ==
  (nb > 0 /\ IsPrefix(cur, prev)) => Len(pool.blocks) = nb

=============================================================================
