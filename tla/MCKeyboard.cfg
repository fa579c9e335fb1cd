SPECIFICATION Spec
CONSTANTS
  Rows <- MCRows
  OtherAnswers <- MCOtherAnswers
  KeyboardTriple = 3
  TabletTriple = 4
  MaxCollected = 6
  MaxDescriptors = 4
  MaxBytes = 4
  Keys = {30, 39}
  Modifiers = {0, 2}
  Slots = 1
INVARIANTS
  ParsesWellFormed
  PickedBelongTogether
  EventsTellKeys
PROPERTIES
  WellFormedIsSafe
  HeldKeyIsShown
