SPECIFICATION Spec
CONSTANTS
  NUM_TRB = 4
  Bodies <- MCBodies
PROPERTIES
  IsQueue
