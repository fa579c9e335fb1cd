SPECIFICATION TrapSpec
CONSTANTS
  Tile = 2
  GlyphW = 2
  GlyphH = 3
  Screens <- MCScreens
  LineLength = 3
  MaxDepth = 5
  MaxY = 15
  Vectors = {0, 3, 6, 8, 13, 14, 32}
INVARIANTS
  InfoTellsCause
  DrawStaysInside
PROPERTIES
  ResumesIntact
  PanicEnds
