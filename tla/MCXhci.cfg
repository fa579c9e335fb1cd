SPECIFICATION Spec
CONSTANTS
  Usable = 4
  EventCapacity = 2
  MaxRequests = 10
  MaxPortEvents = 2
  EnableSlotMayFail = FALSE
INVARIANTS
  OwnCompletion
  BufferOutlivesDma
  WaitListExact
  FewOutstanding
PROPERTIES
  RequestsReturn
