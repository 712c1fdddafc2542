CONSTANTS
  Blocks = 2
  Slots = 3
  Flag = 3
  Value = {0, 255}
  BusVal = 255
SPECIFICATION Spec
INVARIANTS HdmaInv BlocksAreInPlace
PROPERTIES OnlyRequestedSlots
