CONSTANTS
  Len = 3
  Delay = 3
  Ext = {ext}
  Vram = {vram}
  OamPage = fe
  Value = {0, 255}
  Zero = 0
  Blank = 255
SPECIFICATION Spec
INVARIANTS DmaInv ReadsSeeTheTransfer PrefixIsCopied
PROPERTIES OamIsLocked RequestCompletes
