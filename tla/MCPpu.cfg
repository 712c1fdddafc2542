CONSTANTS
  LineDots = 44
  Lines = 3
  Lycs = {0, 2, 3}
  VblankLine = 2
  Mode2End = 12
  Mode3End = 24
  StatDelay = 8
  MaxScx = 7
  Scrolls = {0, 7}
  Pens = {0, 3}
  Windows = {TRUE, FALSE}
  WinSize = 4
  Cgb = TRUE
  Sources = {"hblank", "lyc"}
SPECIFICATION Spec
INVARIANTS PpuInv DrawingHidesVram DrawingHidesOam
PROPERTIES HBlankRequestIsOnTime ImplementsFrameAbs FramesEnd LycRecurs
