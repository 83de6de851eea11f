SPECIFICATION Spec
CONSTANTS
  BZ_W = 455
  BZ_H = 360
  NB_COLUMNS = 10
  NB_ROWS = 8
  BRICK_W = 40
  BRICK_H = 15
  BRICK_OFFSET = 5
  BALL_R = 7
  BAR_W = 80
  BAR_H = 5
  BAR_OFFSET_Y = 10
  BAR_S = 10
  BAR_N = 40
  BAR_JUMP_DIST = 25
  BAR_SLIDE_DIST = 8
  BAR_ANGLE_CHANGE = 15
  BAR_MIN_ANGLE = 195
  BAR_MAX_ANGLE = 345
  BALL_DEF_SPEED = 10
  BALL_MIN_VEL = 2
  BALL_MAX_VEL = 40
  BAR_VEL_CHANGE = 4
  SCORE_VEL_CHANGE = 1
  Angles = {246, 302, 330}
  MAX_ROUNDS = 50
INVARIANTS
  TypeOK
  BallIsClear
  RoughCheckIsSafe
PROPERTIES
  OnlyBarEnters
  BarStopsAtBall
CHECK_DEADLOCK FALSE
