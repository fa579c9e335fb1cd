SPECIFICATION Spec
CONSTANTS
  Levels = 4
  Entries = 2
  PAGE_SIZE = 2
  MinEnd = 6
  MemoryMap <- MCMemoryMap
  Regions <- MCRegions
INVARIANTS
  MappingIsExact
  NoTransientMapping
  NoStaleTranslation
  UsableMemoryMapped
PROPERTIES
  MappingReturns
