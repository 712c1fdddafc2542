CONSTANTS
  Width = 24
  MapWidth = 64
  MaxObjs = 2
  MaxDots = 120
  Clear <- SomeClear
  Lines <- SomeLines
SPECIFICATION Spec
INVARIANTS FifoInv QueueIsNextPixels PixelsAreTheScanlines PenaltyEmerges
PROPERTIES LineEnds
CHECK_DEADLOCK FALSE
