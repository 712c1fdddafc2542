CONSTANTS
  Roms <- TwoRoms
  Header <- Headers
  BankCells = 1
  Mbc2Cells = 1
  Program <- Programs
  Slots = 2
  Every = 1
  MaxRam = 1
  Reaches = {11}
  OldSavs <- Ticked
SPECIFICATION Spec
INVARIANTS SessionInv RamBelongs ReadsStayInRom
PROPERTIES ImplementsRewindAbs SavesContinue
