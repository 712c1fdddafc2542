CONSTANTS
  Chans = {"square", "wave"}
  SweepChan = "square"
  LenMax <- MCLenMax
  Half = 1
  PostBootDiv = 2
SPECIFICATION Spec
INVARIANTS ApuInv LengthLeft
PROPERTIES LengthEnds
