SPECIFICATION Spec
CONSTANTS
  Usable = 4
  EventCapacity = 2
  MaxRequests = 5
  MaxPortEvents = 2
  EnableSlotMayFail = TRUE
INVARIANTS
  NoContextForSlotZero
