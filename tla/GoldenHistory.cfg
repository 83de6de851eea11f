SPECIFICATION SpecH
CONSTANTS
  NB_COLUMNS = 2
  NB_ROWS = 2
  NB_GOLDEN_COLS = 2
  THRESH_GOLDEN = 2
  SCORE_VEL_STEP = 2
  MAX_ITER = 1
INVARIANT ReleasedByScore
