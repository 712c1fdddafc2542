CONSTANTS
  NBits = 2
  Hardware = {0, 1}
  PcSize = 6
  VectorBase = 2
  VectorStep = 1
  MaxExtra = 3
SPECIFICATION Spec
INVARIANTS DiDisables
