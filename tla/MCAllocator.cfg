SPECIFICATION Spec
CONSTANTS
  WORD_BITS = 7
  HEADER_SIZE = 2
  PAGE_SIZE = 8
  MemoryMap <- SmallMap
  Layouts <- SmallLayouts
  MaxLive = 3
INVARIANTS
  HeapIsPartition
  LiveBacked
  LiveObjectsIntact
  NoPanic
  RoundUpIsNearestPow2
PROPERTIES
  HeldBlocksStable
  AllocReturns
