SPECIFICATION Spec
CONSTANTS
  None = None
  Conn = {c1, c2}
  Ladder <- SomeLadders
  MaxBatch = 2
  U = 4
SYMMETRY Symmetric
INVARIANT NeverCollides
