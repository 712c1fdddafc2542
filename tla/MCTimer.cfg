CONSTANTS
  DivSize = 1024
  TimaSize = 3
  PostBootDiv = 972
SPECIFICATION Spec
INVARIANTS TimerInv
PROPERTIES ReloadIsPunctual ReloadTakesTma ImplementsTimerAbs KeepsReloading
