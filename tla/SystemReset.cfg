SPECIFICATION SpecReset
CONSTANTS
  left = left
  NB_BRICKS = 1
  DEPTH = 2
  Positions = {left}
  START = left
INVARIANTS
  DrawsOnlyMessages
