CONSTANTS
  LineDots = 44
  Lines = 3
  Lycs = {0, 1, 2, 3}
  VblankLine = 2
  Mode2End = 12
  Mode3End = 24
  StatDelay = 8
  MaxScx = 7
  Scrolls = {0}
  Pens = {0}
  Windows = {FALSE}
  WinSize = 4
  Cgb = FALSE
  Sources = {}
SPECIFICATION LoopSpec
PROPERTIES FrameAlwaysEnds
