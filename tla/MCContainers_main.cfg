CONSTANTS
  BlockSize <- MCBlockSize
  SizeofPool <- MCSizeofPool
  SizeofData <- MCSizeofData
  Alignment <- MCAlignment
  MaxAllocFromPool <- MCMaxAllocFromPool
  SizeofLarge <- MCSizeofLarge
  SizeofCleanup <- MCSizeofCleanup
  Sizes <- MCContainerSizes
  CleanupSizes <- MCContainerCleanupSizes
  HeapCanFail = TRUE
  MaxOps = 7
  SizeofArray <- MCSizeofArray
  ArrElemSize <- MCElemSize
  ArrInitCounts <- MCInitCounts
  PushCounts <- MCPushCounts
  SizeofList <- MCSizeofList
  SizeofPart <- MCSizeofPart
  ListElemSize <- MCElemSize
  ListInitCounts <- MCListInitCounts
SPECIFICATION ContainersSpec
INVARIANT NoLiveAboveCursor
INVARIANT ArrayWithinCapacity
INVARIANT ListPartsInOrder
