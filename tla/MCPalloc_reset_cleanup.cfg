CONSTANTS
  BlockSize <- MCBlockSize
  SizeofPool <- MCSizeofPool
  SizeofData <- MCSizeofData
  Alignment <- MCAlignment
  MaxAllocFromPool <- MCMaxAllocFromPool
  SizeofLarge <- MCSizeofLarge
  SizeofCleanup <- MCSizeofCleanup
  Sizes <- MCSizes
  CleanupSizes <- MCCleanupSizes
  HeapCanFail = FALSE
  MaxOps = 5
SPECIFICATION Spec
INVARIANT CleanupEntriesIntact
