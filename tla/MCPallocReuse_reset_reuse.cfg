\* Does replaying the calls of the cycle before ngx_reset_pool ever need a
\* new block?  Requests of 13 and 90 bytes, no heap failures.
CONSTANTS
  BlockSize <- MCBlockSize
  SizeofPool <- MCSizeofPool
  SizeofData <- MCSizeofData
  Alignment <- MCAlignment
  MaxAllocFromPool <- MCMaxAllocFromPool
  SizeofLarge <- MCSizeofLarge
  SizeofCleanup <- MCSizeofCleanup
  Sizes <- MCSizesReuse
  CleanupSizes <- MCCleanupSizes
  HeapCanFail = FALSE
  MaxOps = 7
INIT InitH
NEXT NextH
INVARIANT ResetReusesBlocks
