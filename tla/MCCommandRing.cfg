SPECIFICATION Spec
CONSTANTS
  NUM_TRB = 5
  Bodies <- MCBodies
  MaxBatch = 3
  MaxOutstanding = 3
INVARIANTS
  NoPushFails
PROPERTIES
  IsQueue
