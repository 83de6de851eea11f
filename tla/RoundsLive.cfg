SPECIFICATION FairSpec
CONSTANTS
  NB_COLUMNS = 3
  NB_ROWS = 1
  NB_GOLDEN_COLS = 1
  THRESH_GOLDEN = 2
  SCORE_VEL_STEP = 2
  MAX_ITER = 1
PROPERTIES
  RoundEnds
  EmptyWallWins
