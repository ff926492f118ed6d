------------------------------ MODULE MCPalloc ------------------------------
(***************************************************************************)
(* Model-checking instance of Palloc with the struct sizes of an LP64      *)
(* build: sizeof(ngx_pool_t) = 80, sizeof(ngx_pool_data_t) = 32,          *)
(* sizeof(ngx_pool_large_t) = 16, sizeof(ngx_pool_cleanup_t) = 24, an     *)
(* 8-byte NGX_ALIGMENT and a 4096-byte page.  The block size is small so  *)
(* that a handful of requests fills blocks and grows the chain.            *)
(***************************************************************************)
EXTENDS Palloc

MCSizeofPool == 80
MCSizeofData == 32
MCAlignment == 8
MCMaxAllocFromPool == 4095
MCSizeofLarge == 16
MCSizeofCleanup == 24

\* A word-multiple block: the first block serves 96 bytes, later ones 144.
MCBlockSize == 176

\* A word, an odd size that leaves the cursor unaligned, one that almost
\* fills a block, and one above pool->max that goes to ngx_palloc_large.
MCSizes == {8, 13, 90, 120}
\* The main run drops the word-sized request to afford 8 calls: enough 90s,
\* each needing a block of its own, for the first block to fail six times
\* and pool->current to move past it.
MCSizesMain == {13, 90, 120}

\* The reset-reuse run: a request that fills a block and one that leaves
\* the cursor unaligned.
MCSizesReuse == {13, 90}
MCCleanupSizes == {0, 8}

=============================================================================
