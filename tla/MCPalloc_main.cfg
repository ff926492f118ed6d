CONSTANTS
  BlockSize <- MCBlockSize
  SizeofPool <- MCSizeofPool
  SizeofData <- MCSizeofData
  Alignment <- MCAlignment
  MaxAllocFromPool <- MCMaxAllocFromPool
  SizeofLarge <- MCSizeofLarge
  SizeofCleanup <- MCSizeofCleanup
  Sizes <- MCSizesMain
  CleanupSizes <- MCCleanupSizes
  HeapCanFail = TRUE
  MaxOps = 8
SPECIFICATION Spec
INVARIANT TypeOK
INVARIANT AllocationsDisjoint
INVARIANT LargeTracked
INVARIANT SkippedBlocksExhausted
PROPERTY ArenaRefinement
