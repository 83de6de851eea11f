SPECIFICATION Spec
CONSTANTS
  left = left
  NB_BRICKS = 2
  DEPTH = 2
  Positions = {left}
  START = left
PROPERTIES
  BricksStayBroken
