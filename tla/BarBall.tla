------------------------------ MODULE BarBall -------------------------------
(***************************************************************************)
(* Where the ball, the bar and the bricks are from round to round          *)
(* (main_model.c: thread_ball 338-506, thread_column 234-297), with the    *)
(* numbers of config.h.  A step is a whole round: GameRound has the        *)
(* threads that play it, Buttons what moves the bar.                       *)
(*                                                                         *)
(* A speed is counted in pixels per round (UPDATE_S = 1/25 of a second),   *)
(* which is exact: all speeds are multiples of 25.  sin and cos are given  *)
(* in thousandths.                                                         *)
(***************************************************************************)
EXTENDS Integers, FiniteSets, FiniteSetsExt

CONSTANTS
  BZ_W, BZ_H,                                  \* the brick zone
  NB_COLUMNS, NB_ROWS,
  BRICK_W, BRICK_H, BRICK_OFFSET,
  BALL_R,
  BAR_W, BAR_H, BAR_OFFSET_Y, BAR_S, BAR_N,
  BAR_JUMP_DIST, BAR_SLIDE_DIST,               \* BAR_DEF_SPEED * UPDATE_S
  BAR_ANGLE_CHANGE, BAR_MIN_ANGLE, BAR_MAX_ANGLE,
  BALL_DEF_SPEED, BALL_MIN_VEL, BALL_MAX_VEL,
  BAR_VEL_CHANGE, SCORE_VEL_CHANGE,
  Angles,                                      \* of the launch
  MAX_ROUNDS                                   \* rounds played

VARIABLES
  ball,      \* [x, y, vel, angle]
  bar_pos,
  bricks,    \* those that stand: <<column, row>>
  lost,
  rounds

vars == <<ball, bar_pos, bricks, lost, rounds>>

Columns == 0 .. NB_COLUMNS - 1
Rows == 0 .. NB_ROWS - 1
BarTop == BZ_H - BAR_OFFSET_Y - BAR_H

(* What config.h gives: the ball and the bar fit into the zone, with the   *)
(* ball between the bricks and the bar, the bar moves by no more than its  *)
(* width, and the speed and the angles are where their limits are.         *)
ASSUME BarBallAssumption ==
  /\ {BZ_W, BZ_H, NB_COLUMNS, NB_ROWS, BRICK_W, BRICK_H, BRICK_OFFSET, BALL_R, BAR_W,
      BAR_H, BAR_OFFSET_Y, BAR_S, BAR_N, BAR_JUMP_DIST, BAR_SLIDE_DIST, BAR_ANGLE_CHANGE,
      BALL_MIN_VEL, BALL_MAX_VEL, BAR_VEL_CHANGE, SCORE_VEL_CHANGE, MAX_ROUNDS} \subseteq Nat
  /\ BALL_DEF_SPEED \in BALL_MIN_VEL .. BALL_MAX_VEL
  /\ Angles \cup {BAR_MIN_ANGLE, BAR_MAX_ANGLE} \subseteq 0 .. 359
  /\ 0 < BALL_R /\ BALL_R < BZ_W \div 2 /\ BAR_W + 2 <= BZ_W
  /\ BAR_JUMP_DIST <= BAR_W /\ BAR_SLIDE_DIST <= BAR_W
  /\ NB_ROWS * (BRICK_OFFSET + BRICK_H) + 2 * BALL_R + 1 < BarTop

Upper(a, b) == IF a > b THEN a ELSE b
Lower(a, b) == IF a < b THEN a ELSE b
Sign(a) == IF a >= 0 THEN 1 ELSE -1
Abs(a) == Sign(a) * a

QuarterSine ==
  <<
    0, 17, 35, 52, 70, 87, 105, 122, 139, 156, 174, 191, 208, 225, 242,
    259, 276, 292, 309, 326, 342, 358, 375, 391, 407, 423, 438, 454, 469, 485,
    500, 515, 530, 545, 559, 574, 588, 602, 616, 629, 643, 656, 669, 682, 695,
    707, 719, 731, 743, 755, 766, 777, 788, 799, 809, 819, 829, 839, 848, 857,
    866, 875, 883, 891, 899, 906, 914, 921, 927, 934, 940, 946, 951, 956, 961,
    966, 970, 974, 978, 982, 985, 988, 990, 993, 995, 996, 998, 999, 999, 1000,
    1000
  >>

Sine ==
  [a \in 0 .. 359 |->
     IF a <= 90 THEN QuarterSine[a + 1]
     ELSE IF a <= 180 THEN QuarterSine[181 - a]
     ELSE IF a <= 270 THEN -QuarterSine[a - 179]
     ELSE -QuarterSine[361 - a]]

(* round(), which takes halves away from 0.                                *)
Nearest(n) == Sign(n) * ((Abs(n) + 500) \div 1000)

(* Where the ball is k pixels further on its way.                          *)
Ahead(k) ==
  [x |-> ball.x + Nearest(k * Sine[(ball.angle + 90) % 360]),
   y |-> ball.y + Nearest(k * Sine[ball.angle])]

(* The remainder of C has the sign of the dividend.                        *)
Remainder(a) == Sign(a) * (Abs(a) % 360)
check_angle(a) == LET r == Remainder(a) IN IF r < 0 THEN r + 360 ELSE r
U16(n) == n % 65536

-----------------------------------------------------------------------------
(* What the ball thread looks for at position p, in this order.            *)

NoNormal == -1

OnLeft(p) == p.x - BALL_R <= 0
OnRight(p) == p.x + BALL_R >= BZ_W
OnTop(p) == p.y - BALL_R <= 0
OnBottom(p) == p.y + BALL_R >= BZ_H

Near(x, y) == x * x + y * y
OnBarCorner(p, pos) == Near(Abs(p.x - pos) - BAR_W \div 2, BarTop - p.y) < BALL_R * BALL_R
OnBarEdge(p, pos) == p.y + BALL_R >= BarTop /\ Abs(p.x - pos) <= BAR_W \div 2
OnBar(p, pos) == OnBarCorner(p, pos) \/ OnBarEdge(p, pos)

OwnNormalWithoutCorner(p) ==
  IF OnLeft(p) THEN 0
  ELSE IF OnRight(p) THEN 180
  ELSE IF OnTop(p) THEN 90
  ELSE IF OnBottom(p) \/ OnBarEdge(p, bar_pos) THEN 270
  ELSE NoNormal

OwnNormal(p) ==
  IF OnLeft(p) THEN 0
  ELSE IF OnRight(p) THEN 180
  ELSE IF OnTop(p) THEN 90
  ELSE IF OnBottom(p) THEN 270
  ELSE IF OnBarCorner(p, bar_pos) THEN IF p.x < bar_pos THEN 225 ELSE 315
  ELSE IF OnBarEdge(p, bar_pos) THEN 270
  ELSE NoNormal

(* How far from the middle of the bar the ball hits its edge decides what  *)
(* else changes.                                                           *)
OnlyEdge(p) ==
  /\ OnBarEdge(p, bar_pos) /\ ~OnBarCorner(p, bar_pos)
  /\ ~(OnLeft(p) \/ OnRight(p) \/ OnTop(p) \/ OnBottom(p))

OffsetAngle(p) ==
  IF OnlyEdge(p) /\ Abs(p.x - bar_pos) > BAR_N \div 2 + BAR_S
    THEN BAR_ANGLE_CHANGE * Sign(p.x - bar_pos) ELSE 0

OffsetVel(p) ==
  IF OnlyEdge(p) /\ Abs(p.x - bar_pos) \in BAR_N \div 2 + 1 .. BAR_N \div 2 + BAR_S
    THEN BAR_VEL_CHANGE * Sign(p.x - bar_pos) ELSE 0

Iters == 0 .. ball.vel - 1
Path == [k \in Iters |-> Ahead(k + 1)]     \* the positions looked at

-----------------------------------------------------------------------------
(* What the thread of column c looks for.                                  *)

CentreX(c) == BRICK_OFFSET + BRICK_W \div 2 + c * (BRICK_W + BRICK_OFFSET)
CentreY(r) == BRICK_OFFSET + BRICK_H \div 2 + r * (BRICK_H + BRICK_OFFSET)

BrickNormalOfEdges(p, b) ==
  LET dist_x == p.x - CentreX(b[1])
      dist_y == p.y - CentreY(b[2])
      dx == Abs(dist_x) - BRICK_W \div 2
      dy == Abs(dist_y) - BRICK_H \div 2
  IN IF dx = BALL_R /\ dy < 0 THEN IF dist_x > 0 THEN 0 ELSE 180
     ELSE IF dy = BALL_R /\ dx < 0 THEN IF dist_y > 0 THEN 90 ELSE 270
     ELSE NoNormal

(* The normal of a corner is negative above the brick; it is stored in a   *)
(* u16.                                                                    *)
BrickNormal(p, b) ==
  LET dist_x == p.x - CentreX(b[1])
      dist_y == p.y - CentreY(b[2])
      dx == Abs(dist_x) - BRICK_W \div 2
      dy == Abs(dist_y) - BRICK_H \div 2
  IN IF dx = BALL_R /\ dy < 0 THEN IF dist_x > 0 THEN 0 ELSE 180
     ELSE IF dy = BALL_R /\ dx < 0 THEN IF dist_y > 0 THEN 90 ELSE 270
     ELSE IF Near(dx, dy) <= BALL_R * BALL_R
       THEN U16((IF dist_y > 0 THEN 1 ELSE -1) * (90 + (IF dist_x > 0 THEN -1 ELSE 1) * 45))
     ELSE NoNormal

InReach(p, c) ==
  /\ Abs(p.x - CentreX(c)) <= BRICK_W \div 2 + BALL_R
  /\ p.y <= NB_ROWS * (BRICK_OFFSET + BRICK_H) + BALL_R

Touched(p, c) == {r \in Rows : <<c, r>> \in bricks /\ BrickNormal(p, <<c, r>>) # NoNormal}

Strikes(c) ==
  LET path == Path IN {k \in Iters : InReach(path[k], c) /\ Touched(path[k], c) # {}}

(* The rough check: the ball stays below, left or right of the column.     *)
StaysOut(c, margin) ==
  LET e == Ahead(ball.vel)
      bottom == NB_ROWS * (BRICK_H + BRICK_OFFSET) + BALL_R + margin
      left == BRICK_OFFSET + c * (BRICK_W + BRICK_OFFSET) - BALL_R - margin
      right == (c + 1) * (BRICK_W + BRICK_OFFSET) + BALL_R + margin
  IN \/ ball.y > bottom /\ e.y > bottom
     \/ ball.x < left /\ e.x < left
     \/ ball.x > right /\ e.x > right

OutByCentre(c) == StaysOut(c, -BALL_R - 5)
Out(c) == StaysOut(c, 5)

-----------------------------------------------------------------------------
(* A round.                                                                *)

NoCollision(idx) == [idx |-> idx, happened |-> FALSE, iter |-> ball.vel, normal |-> 0]
Collision(idx, iter, normal) ==
  [idx |-> idx, happened |-> TRUE, iter |-> iter, normal |-> normal]

OwnCollision ==
  LET path == Path
      ks == {k \in Iters : OwnNormal(path[k]) # NoNormal}
  IN IF ks = {} THEN NoCollision(-1)
     ELSE Collision(-1, Min(ks), OwnNormal(path[Min(ks)]))

FirstTouched(iter, c) == Min(Touched(Ahead(iter + 1), c))

ColumnCollision(c) ==
  LET ks == IF Out(c) THEN {} ELSE Strikes(c)
  IN IF ks = {} THEN NoCollision(c)
     ELSE Collision(c, Min(ks),
                    BrickNormal(Ahead(Min(ks) + 1), <<c, FirstTouched(Min(ks), c)>>))

(* The ball's own collision, unless one of a column is sooner; the first   *)
(* column's of those.                                                      *)
Arbitrate(own, columns) ==
  LET sooner == {k \in columns : k.happened /\ k.iter < own.iter}
  IN IF sooner = {} THEN own
     ELSE CHOOSE k \in sooner : \A j \in sooner :
            k.iter < j.iter \/ (k.iter = j.iter /\ k.idx <= j.idx)

Clamped(pos) == Lower(Upper(pos, BAR_W \div 2 + 1), BZ_W - BAR_W \div 2 - 1)

(* A bar that has been moved over the ball is put beside it.               *)
PushedAfterJump(pos, d, b) ==
  IF Abs(d) = BAR_JUMP_DIST /\ OnBarEdge(b, pos) THEN b.x - Sign(d) * (BALL_R + BAR_W \div 2)
  ELSE pos
Pushed(pos, d, b) ==
  IF d # 0 /\ OnBarEdge(b, pos) THEN b.x - Sign(d) * (BALL_R + BAR_W \div 2) ELSE pos

BarMoved(pos, d, b) == Pushed(Clamped(pos + d), d, b)

(* The angle and the speed after hitting a surface, and the bar's part.    *)
Bounced(angle, normal) == check_angle(2 * normal - angle + 180)

Steered(angle, offset) ==
  IF offset > 0 THEN Lower(angle + offset, BAR_MAX_ANGLE)
  ELSE IF offset < 0 THEN Upper(angle + offset, BAR_MIN_ANGLE)
  ELSE angle

Paced(vel, offset) ==
  IF offset > 0 THEN Lower(vel + offset, BALL_MAX_VEL)
  ELSE IF offset < 0 THEN Upper(vel + offset, BALL_MIN_VEL)
  ELSE vel

(* How far the bar goes in a round: nowhere, a jump, or as its speed says. *)
Moves == {0, BAR_JUMP_DIST, -BAR_JUMP_DIST, BAR_SLIDE_DIST, -BAR_SLIDE_DIST}

Rest(colli) == Ahead(colli.iter)      \* the last position before the collision

(* The ball after collision colli; the columns may have made enough points *)
(* to raise its speed.                                                     *)
BallAfter(colli, raise) ==
  LET there == Ahead(colli.iter + 1)
      vel == Lower(ball.vel + raise, BALL_MAX_VEL)
      angle == IF colli.happened THEN Bounced(ball.angle, colli.normal) ELSE ball.angle
      own == colli.happened /\ colli.idx = -1
  IN [x |-> Rest(colli).x, y |-> Rest(colli).y,
      vel |-> IF own THEN Paced(vel, OffsetVel(there)) ELSE vel,
      angle |-> IF own THEN Steered(angle, OffsetAngle(there)) ELSE angle]

BricksAfter(colli) ==
  IF colli.idx = -1 THEN bricks
  ELSE bricks \ {<<colli.idx, FirstTouched(colli.iter, colli.idx)>>}

Round ==
  /\ ~lost /\ rounds < MAX_ROUNDS
  /\ rounds' = rounds + 1
  /\ \E own \in {OwnCollision}, columns \in {{ColumnCollision(c) : c \in Columns}} :
     \E colli \in {Arbitrate(own, columns)} :
       /\ lost' = (own.happened /\ own.normal = 270 /\ OnBottom(Ahead(own.iter + 1)))
       /\ bricks' = BricksAfter(colli)
       /\ \E raise \in IF colli.idx = -1 THEN {0} ELSE {0, SCORE_VEL_CHANGE} :
            ball' = BallAfter(colli, raise)
       /\ \E d \in Moves : bar_pos' = BarMoved(bar_pos, d, Rest(colli))

Init ==
  /\ \E a \in Angles :
       ball = [x |-> BZ_W \div 2, y |-> BarTop - BALL_R - 1, vel |-> BALL_DEF_SPEED, angle |-> a]
  /\ bar_pos = BZ_W \div 2
  /\ bricks = Columns \X Rows
  /\ lost = FALSE
  /\ rounds = 0

Next == Round

Spec == Init /\ [][Next]_vars

-----------------------------------------------------------------------------
(* Properties.                                                             *)

(* The ball is in the zone, and speed and angle between their limits; the  *)
(* bar may leave the zone, but only as far as to lie beside the ball.      *)
TypeOK ==
  /\ ball.x \in 0 .. BZ_W /\ ball.y \in 0 .. BZ_H
  /\ ball.vel \in BALL_MIN_VEL .. BALL_MAX_VEL
  /\ ball.angle \in 0 .. 359
  /\ bar_pos \in 1 - BAR_W \div 2 .. BZ_W + BAR_W \div 2 - 1
  /\ bricks \subseteq Columns \X Rows
  /\ lost \in BOOLEAN /\ rounds \in 0 .. MAX_ROUNDS

(* The ball at p overlaps brick b: the box of the brick comes nearer to    *)
(* the middle of the ball than its radius.                                 *)
Overlaps(p, b) ==
  Near(Upper(Abs(p.x - CentreX(b[1])) - BRICK_W \div 2, 0),
       Upper(Abs(p.y - CentreY(b[2])) - BRICK_H \div 2, 0)) < BALL_R * BALL_R

(* The ball is left at the last position before the collision: between two *)
(* rounds it overlaps neither the sides of the brick zone nor a brick that *)
(* stands, however fast it is and whatever it hits.  The search asks for   *)
(* an edge at exactly the radius (269-290): only because no position is    *)
(* more than a pixel from the one before does it meet that distance, and   *)
(* the ball not slip into a brick.                                         *)
BallIsClear ==
  /\ ~(OnLeft(ball) \/ OnRight(ball) \/ OnTop(ball) \/ OnBottom(ball))
  /\ \A b \in bricks : ~Overlaps(ball, b)

(* The rough check that saves the columns their search hides no collision. *)
RoughCheckIsSafe ==
  \A c \in Columns : Out(c) => Strikes(c) = {}

(* Within the limits of 461-464.  Not an invariant: a bar that is put      *)
(* beside the ball is not clamped again.                                   *)
BarInside == bar_pos \in BAR_W \div 2 + 1 .. BZ_W - BAR_W \div 2 - 1

(* The ball never gets into the bar on its own: only a bar that moves can  *)
(* come to overlap it.                                                     *)
OnlyBarEnters ==
  [][bar_pos' = bar_pos /\ ~OnBar(ball, bar_pos) => ~OnBar(ball', bar_pos)]_vars

(* Nor is the bar moved through the ball: no bar inside its limits has, on *)
(* its way or where it stops, the middle of the ball over it, so it does   *)
(* not come to the other side of a ball that falls beside it, be it by a   *)
(* jump.  It is not said of a bar outside its limits, which snaps back to  *)
(* them without a look at the ball, nor of the bar's corner: the check of  *)
(* 494-500 knows only the edge, so a corner may end within the ball's      *)
(* radius, unlike what its comment promises.                               *)
BarStopsAtBall ==
  [][BarInside /\ ~OnBar(ball, bar_pos) =>
       \A pos \in Lower(bar_pos, bar_pos') .. Upper(bar_pos, bar_pos') :
         ~OnBarEdge(ball', pos)]_vars
=============================================================================
