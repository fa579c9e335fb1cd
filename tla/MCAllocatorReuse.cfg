SPECIFICATION Spec
CONSTANTS
  WORD_BITS = 7
  HEADER_SIZE = 2
  PAGE_SIZE = 8
  MemoryMap <- OneRegion
  Layouts <- ReuseLayouts
  MaxLive = 1
INVARIANTS
  FreedIsReusable
