CONSTANTS
  PageSize = 4096
  PageShift = 12
  MinShift = 3
  SizeofSlabPool = 200
  SizeofPage = 24
  SizeofStat = 32
  MapShift = 32
  PageStart <- MCPageStart
  MapBit <- MCMapBit
  ZoneSizes <- MCZoneSizes
  Sizes <- MCSizes
  SlotGarbage <- MCSlotGarbage
  MaxAllocs = 3
SPECIFICATION Spec
INVARIANT DataPagesInZone
