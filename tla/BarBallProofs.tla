--------------------------- MODULE BarBallProofs ----------------------------
(***************************************************************************)
(* Theorems about the ball, the bar and the bricks, for every size, speed  *)
(* and set of launch angles that BarBallAssumption allows.  All rest on    *)
(* one fact: of all positions the round tries, the ball is left on one     *)
(* that everybody found free.                                              *)
(***************************************************************************)
EXTENDS BarBall, TLAPS, WellFoundedInduction

-----------------------------------------------------------------------------
(* Numbers.                                                                *)

(* A nonempty set of natural numbers has a least element, which Min picks. *)
LEMMA LeastOf ==
  ASSUME NEW S \in SUBSET Nat, S # {}
  PROVE  Min(S) \in S /\ \A n \in S : Min(S) <= n
<1> DEFINE R == OpToRel(<, Nat)
<1>1. \A m \in Nat, n \in Nat : m < n => <<m, n>> \in R
  BY DEF OpToRel
<1>2. IsWellFoundedOn(R, Nat)
  BY NatLessThanWellFounded
<1> HIDE DEF R
<1>3. S \subseteq Nat /\ S # {}
  OBVIOUS
<1>4. \E m \in S : \A n \in S : ~ (<<n, m>> \in R)
  BY <1>2, <1>3, WFMin, Zenon
<1>5. PICK m \in S : \A n \in S : <<n, m>> \notin R
  BY <1>4
<1>6. \A n \in S : m <= n
  <2> TAKE n \in S
  <2>1. m \in Nat /\ n \in Nat /\ ~ (<<n, m>> \in R)
    BY <1>3, <1>5
  <2>2. ~ (n < m)
    BY <1>1, <2>1, Zenon
  <2> QED
    BY <2>1, <2>2
<1> QED
  BY <1>3, <1>5, <1>6 DEF Min

(* The multiples of a number lie between 0 and any further multiple.       *)
LEMMA Product ==
  ASSUME NEW s \in Int, NEW k \in Nat, NEW n \in Nat, k <= n
  PROVE  /\ k * s \in Int /\ n * s \in Int
         /\ s >= 0 => 0 <= k * s /\ k * s <= n * s
         /\ s <= 0 => n * s <= k * s /\ k * s <= 0
<1>1. PICK m \in Nat : n = k + m
  BY n - k \in Nat, n = k + (n - k)
<1>2. n * s = k * s + m * s
  BY <1>1
<1>3. \A j \in Nat : (s >= 0 => j * s >= 0) /\ (s <= 0 => j * s <= 0)
  OBVIOUS
<1>4. k * s \in Int /\ m * s \in Int
  OBVIOUS
<1> QED
  BY <1>2, <1>3, <1>4

(* round() keeps the order of its arguments.                               *)
LEMMA NearestKeepsOrder ==
  ASSUME NEW m \in Int, NEW n \in Int, m <= n
  PROVE  Nearest(m) \in Int /\ Nearest(m) <= Nearest(n)
BY DEF Nearest, Abs, Sign

(* round() leaves 0 alone.                                                 *)
LEMMA NearestOfZero ==
  Nearest(0) = 0
BY DEF Nearest, Abs, Sign

(* After k of n pixels, the rounded way is between nothing and the way     *)
(* after n.                                                                *)
LEMMA NearestOnTheWay ==
  ASSUME NEW s \in Int, NEW k \in Nat, NEW n \in Nat, k <= n
  PROVE  /\ Nearest(k * s) \in Int /\ Nearest(n * s) \in Int
         /\ \/ 0 <= Nearest(k * s) /\ Nearest(k * s) <= Nearest(n * s)
            \/ Nearest(n * s) <= Nearest(k * s) /\ Nearest(k * s) <= 0
<1>1. /\ k * s \in Int /\ n * s \in Int
      /\ s >= 0 => 0 <= k * s /\ k * s <= n * s
      /\ s <= 0 => n * s <= k * s /\ k * s <= 0
  BY Product
<1>2. 0 \in Int
  OBVIOUS
<1>3. Nearest(k * s) \in Int /\ Nearest(n * s) \in Int
  BY <1>1, NearestKeepsOrder
<1>4. CASE s >= 0
  <2>1. Nearest(0) <= Nearest(k * s) /\ Nearest(k * s) <= Nearest(n * s)
    BY <1>1, <1>2, <1>4, NearestKeepsOrder
  <2> QED
    BY <1>3, <2>1, NearestOfZero
<1>5. CASE s <= 0
  <2>1. Nearest(n * s) <= Nearest(k * s) /\ Nearest(k * s) <= Nearest(0)
    BY <1>1, <1>2, <1>5, NearestKeepsOrder
  <2> QED
    BY <1>3, <2>1, NearestOfZero
<1> QED
  BY <1>4, <1>5

(* At most a pixel, in thousandths.                                        *)
Pixel(s) == s \in Int /\ s <= 1000 /\ -s <= 1000

(* A way that grows by at most a pixel is rounded to one that does.        *)
LEMMA NearestGrowsByOne ==
  ASSUME NEW n \in Int, NEW s \in Int, Pixel(s), (n >= 0 /\ s >= 0) \/ (n <= 0 /\ s <= 0)
  PROVE  /\ Nearest(n) \in Int /\ Nearest(n + s) \in Int
         /\ Nearest(n + s) <= Nearest(n) + 1 /\ Nearest(n) <= Nearest(n + s) + 1
<1>1. CASE n >= 0 /\ s >= 0
  <2>1. Nearest(n + 1000) = Nearest(n) + 1
    BY <1>1 DEF Nearest, Abs, Sign
  <2>2. n \in Int /\ n + s \in Int /\ n + 1000 \in Int /\ n <= n + s /\ n + s <= n + 1000
    BY <1>1 DEF Pixel
  <2>3. /\ Nearest(n) \in Int /\ Nearest(n + s) \in Int
        /\ Nearest(n) <= Nearest(n + s) /\ Nearest(n + s) <= Nearest(n + 1000)
    BY <2>2, NearestKeepsOrder
  <2> QED
    BY <2>1, <2>3
<1>2. CASE n <= 0 /\ s <= 0
  <2>1. Nearest(n - 1000) = Nearest(n) - 1
    BY <1>2 DEF Nearest, Abs, Sign
  <2>2. n \in Int /\ n + s \in Int /\ n - 1000 \in Int /\ n - 1000 <= n + s /\ n + s <= n
    BY <1>2 DEF Pixel
  <2>3. /\ Nearest(n) \in Int /\ Nearest(n + s) \in Int
        /\ Nearest(n - 1000) <= Nearest(n + s) /\ Nearest(n + s) <= Nearest(n)
    BY <2>2, NearestKeepsOrder
  <2> QED
    BY <2>1, <2>3
<1> QED
  BY <1>1, <1>2

(* The sizes of config.h, one by one.                                      *)
LEMMA Sizes ==
  /\ BZ_W \in Nat /\ BZ_H \in Nat /\ NB_COLUMNS \in Nat /\ NB_ROWS \in Nat
  /\ BRICK_W \in Nat /\ BRICK_H \in Nat /\ BRICK_OFFSET \in Nat /\ BALL_R \in Nat
  /\ BAR_W \in Nat /\ BAR_H \in Nat /\ BAR_OFFSET_Y \in Nat /\ BAR_S \in Nat /\ BAR_N \in Nat
  /\ BAR_JUMP_DIST \in Nat /\ BAR_SLIDE_DIST \in Nat /\ BAR_ANGLE_CHANGE \in Nat
  /\ BALL_MIN_VEL \in Nat /\ BALL_MAX_VEL \in Nat /\ BAR_VEL_CHANGE \in Nat
  /\ SCORE_VEL_CHANGE \in Nat /\ MAX_ROUNDS \in Nat
BY BarBallAssumption

(* sin and cos, in thousandths, are no more than 1.                        *)
LEMMA SineIsSmall ==
  \A a \in 0 .. 359 : Pixel(Sine[a])
<1>1. \A i \in 1 .. 91 : QuarterSine[i] \in 0 .. 1000
  BY DEF QuarterSine
<1> TAKE a \in 0 .. 359
<1>2. PICK i \in 1 .. 91 : Sine[a] = QuarterSine[i] \/ Sine[a] = -QuarterSine[i]
  <2>1. CASE a <= 90
    <3>1. a + 1 \in 1 .. 91 /\ Sine[a] = QuarterSine[a + 1]
      BY <2>1 DEF Sine
    <3> QED
      BY <3>1
  <2>2. CASE a > 90 /\ a <= 180
    <3>1. 181 - a \in 1 .. 91 /\ Sine[a] = QuarterSine[181 - a]
      BY <2>2 DEF Sine
    <3> QED
      BY <3>1
  <2>3. CASE a > 180 /\ a <= 270
    <3>1. a - 179 \in 1 .. 91 /\ Sine[a] = -QuarterSine[a - 179]
      BY <2>3 DEF Sine
    <3> QED
      BY <3>1
  <2>4. CASE a > 270
    <3>1. 361 - a \in 1 .. 91 /\ Sine[a] = -QuarterSine[361 - a]
      BY <2>4 DEF Sine
    <3> QED
      BY <3>1
  <2> QED
    BY <2>1, <2>2, <2>3, <2>4
<1> DEFINE q == QuarterSine[i]
<1>3. q \in Nat /\ q <= 1000 /\ (Sine[a] = q \/ Sine[a] = -q)
  <2>1. q \in 0 .. 1000
    BY <1>1
  <2>2. Sine[a] = q \/ Sine[a] = -q
    BY <1>2
  <2> HIDE DEF q
  <2>3. q \in Nat /\ q <= 1000
    BY <2>1
  <2> QED
    BY <2>2, <2>3
<1> HIDE DEF q
<1>4. Pixel(q) /\ Pixel(-q)
  BY <1>3 DEF Pixel
<1> QED
  BY <1>3, <1>4

(* What the arithmetic on the ball needs of its types.                     *)
LEMMA Numbers ==
  ASSUME TypeOK
  PROVE  /\ ball.x \in Int /\ ball.y \in Int /\ bar_pos \in Int
         /\ ball.vel \in Nat /\ ball.angle \in 0 .. 359
         /\ Pixel(Sine[(ball.angle + 90) % 360]) /\ Pixel(Sine[ball.angle])
         /\ Sine[(ball.angle + 90) % 360] \in Int /\ Sine[ball.angle] \in Int
<1>1. /\ ball.x \in Int /\ ball.y \in Int /\ bar_pos \in Int
      /\ ball.vel \in Nat /\ ball.angle \in 0 .. 359
  BY Sizes DEF TypeOK
<1>2. (ball.angle + 90) % 360 \in 0 .. 359
  BY <1>1
<1>3. Pixel(Sine[(ball.angle + 90) % 360]) /\ Pixel(Sine[ball.angle])
  BY <1>1, <1>2, SineIsSmall
<1> QED
  BY <1>1, <1>3 DEF Pixel

(* In each coordinate the ball goes one way: after k pixels it is between  *)
(* where it is and where it would be after all pixels of the round.        *)
LEMMA AheadOnTheWay ==
  ASSUME TypeOK, NEW k \in 0 .. ball.vel
  PROVE  /\ Ahead(k).x \in Int /\ Ahead(k).y \in Int
         /\ Ahead(ball.vel).x \in Int /\ Ahead(ball.vel).y \in Int
         /\ \/ ball.x <= Ahead(k).x /\ Ahead(k).x <= Ahead(ball.vel).x
            \/ Ahead(ball.vel).x <= Ahead(k).x /\ Ahead(k).x <= ball.x
         /\ \/ ball.y <= Ahead(k).y /\ Ahead(k).y <= Ahead(ball.vel).y
            \/ Ahead(ball.vel).y <= Ahead(k).y /\ Ahead(k).y <= ball.y
<1> DEFINE cos == Sine[(ball.angle + 90) % 360]
           sin == Sine[ball.angle]
<1>1. ball.x \in Int /\ ball.y \in Int /\ ball.vel \in Nat /\ ball.angle \in 0 .. 359
  BY Numbers
<1>2. cos \in Int /\ sin \in Int
  BY Numbers
<1>3. k \in Nat /\ k <= ball.vel
  BY <1>1
<1>4. /\ Ahead(k).x = ball.x + Nearest(k * cos)
      /\ Ahead(k).y = ball.y + Nearest(k * sin)
      /\ Ahead(ball.vel).x = ball.x + Nearest(ball.vel * cos)
      /\ Ahead(ball.vel).y = ball.y + Nearest(ball.vel * sin)
  BY DEF Ahead
<1> HIDE DEF cos, sin
<1>5. /\ Nearest(k * cos) \in Int /\ Nearest(ball.vel * cos) \in Int
      /\ \/ 0 <= Nearest(k * cos) /\ Nearest(k * cos) <= Nearest(ball.vel * cos)
         \/ Nearest(ball.vel * cos) <= Nearest(k * cos) /\ Nearest(k * cos) <= 0
  BY <1>1, <1>2, <1>3, NearestOnTheWay
<1>6. /\ Nearest(k * sin) \in Int /\ Nearest(ball.vel * sin) \in Int
      /\ \/ 0 <= Nearest(k * sin) /\ Nearest(k * sin) <= Nearest(ball.vel * sin)
         \/ Nearest(ball.vel * sin) <= Nearest(k * sin) /\ Nearest(k * sin) <= 0
  BY <1>1, <1>2, <1>3, NearestOnTheWay
<1>7. /\ Ahead(k).x \in Int /\ Ahead(ball.vel).x \in Int
      /\ \/ ball.x <= Ahead(k).x /\ Ahead(k).x <= Ahead(ball.vel).x
         \/ Ahead(ball.vel).x <= Ahead(k).x /\ Ahead(k).x <= ball.x
  BY <1>1, <1>4, <1>5
<1>8. /\ Ahead(k).y \in Int /\ Ahead(ball.vel).y \in Int
      /\ \/ ball.y <= Ahead(k).y /\ Ahead(k).y <= Ahead(ball.vel).y
         \/ Ahead(ball.vel).y <= Ahead(k).y /\ Ahead(k).y <= ball.y
  BY <1>1, <1>4, <1>6
<1> QED
  BY <1>7, <1>8

(* After no pixel the ball is where it was.                                *)
LEMMA AheadOfNothing ==
  ASSUME TypeOK
  PROVE  Ahead(0).x = ball.x /\ Ahead(0).y = ball.y
<1>1. Sine[(ball.angle + 90) % 360] \in Int /\ Sine[ball.angle] \in Int
  BY Numbers
<1>2. ball.x \in Int /\ ball.y \in Int
  BY Numbers
<1> QED
  BY <1>1, <1>2, NearestOfZero DEF Ahead

(* No position is more than a pixel from the one before, in either         *)
(* coordinate.                                                             *)
LEMMA OnePixel ==
  ASSUME TypeOK, NEW k \in Nat
  PROVE  /\ Ahead(k).x \in Int /\ Ahead(k).y \in Int
         /\ Ahead(k + 1).x \in Int /\ Ahead(k + 1).y \in Int
         /\ Ahead(k + 1).x <= Ahead(k).x + 1 /\ Ahead(k).x <= Ahead(k + 1).x + 1
         /\ Ahead(k + 1).y <= Ahead(k).y + 1 /\ Ahead(k).y <= Ahead(k + 1).y + 1
<1>1. ASSUME NEW s \in Int, Pixel(s)
      PROVE  /\ Nearest(k * s) \in Int /\ Nearest((k + 1) * s) \in Int
             /\ Nearest((k + 1) * s) <= Nearest(k * s) + 1
             /\ Nearest(k * s) <= Nearest((k + 1) * s) + 1
  <2>1. /\ s \in Int /\ k * s \in Int
        /\ s >= 0 => 0 <= k * s
        /\ s <= 0 => k * s <= 0
    OBVIOUS
  <2>2. (k + 1) * s = k * s + s
    OBVIOUS
  <2> DEFINE n == k * s
  <2> HIDE DEF n
  <2>3. n \in Int /\ ((n >= 0 /\ s >= 0) \/ (n <= 0 /\ s <= 0)) /\ (k + 1) * s = n + s
    BY <2>1, <2>2 DEF n
  <2>4. /\ Nearest(n) \in Int /\ Nearest(n + s) \in Int
        /\ Nearest(n + s) <= Nearest(n) + 1 /\ Nearest(n) <= Nearest(n + s) + 1
    BY <1>1, <2>3, NearestGrowsByOne
  <2> QED
    BY <2>3, <2>4 DEF n
<1> DEFINE cos == Sine[(ball.angle + 90) % 360]
           sin == Sine[ball.angle]
<1>2. /\ ball.x \in Int /\ ball.y \in Int /\ cos \in Int /\ sin \in Int
      /\ Pixel(cos) /\ Pixel(sin)
  BY Numbers
<1>3. /\ Ahead(k).x = ball.x + Nearest(k * cos) /\ Ahead(k + 1).x = ball.x + Nearest((k + 1) * cos)
      /\ Ahead(k).y = ball.y + Nearest(k * sin) /\ Ahead(k + 1).y = ball.y + Nearest((k + 1) * sin)
  BY DEF Ahead
<1> HIDE DEF cos, sin
<1>4. /\ Ahead(k).x \in Int /\ Ahead(k + 1).x \in Int
      /\ Ahead(k + 1).x <= Ahead(k).x + 1 /\ Ahead(k).x <= Ahead(k + 1).x + 1
  <2>1. /\ Nearest(k * cos) \in Int /\ Nearest((k + 1) * cos) \in Int
        /\ Nearest((k + 1) * cos) <= Nearest(k * cos) + 1
        /\ Nearest(k * cos) <= Nearest((k + 1) * cos) + 1
    BY <1>1, <1>2
  <2> QED
    BY <1>2, <1>3, <2>1
<1>5. /\ Ahead(k).y \in Int /\ Ahead(k + 1).y \in Int
      /\ Ahead(k + 1).y <= Ahead(k).y + 1 /\ Ahead(k).y <= Ahead(k + 1).y + 1
  <2>1. /\ Nearest(k * sin) \in Int /\ Nearest((k + 1) * sin) \in Int
        /\ Nearest((k + 1) * sin) <= Nearest(k * sin) + 1
        /\ Nearest(k * sin) <= Nearest((k + 1) * sin) + 1
    BY <1>1, <1>2
  <2> QED
    BY <1>2, <1>3, <2>1
<1> QED
  BY <1>4, <1>5

(* A column whose rough check holds is out of reach of every position of   *)
(* the round, for its margin of 5 pixels is taken on both ends of the way. *)
LEMMA OutOfReach ==
  ASSUME TypeOK, NEW c \in Columns, Out(c), NEW k \in 0 .. ball.vel
  PROVE  ~InReach(Ahead(k), c)
<1> DEFINE p == Ahead(k)
           e == Ahead(ball.vel)
           bottom == NB_ROWS * (BRICK_H + BRICK_OFFSET)
           start == c * (BRICK_W + BRICK_OFFSET)
<1>1. /\ p.x \in Int /\ p.y \in Int /\ e.x \in Int /\ e.y \in Int
      /\ (ball.x <= p.x /\ p.x <= e.x) \/ (e.x <= p.x /\ p.x <= ball.x)
      /\ (ball.y <= p.y /\ p.y <= e.y) \/ (e.y <= p.y /\ p.y <= ball.y)
  BY AheadOnTheWay
<1>2. ball.x \in Int /\ ball.y \in Int /\ c \in Nat /\ bottom \in Int /\ start \in Int
  BY Numbers, Sizes DEF Columns
<1>3. (c + 1) * (BRICK_W + BRICK_OFFSET) = start + BRICK_W + BRICK_OFFSET
  BY <1>2, Sizes
<1>4. NB_ROWS * (BRICK_OFFSET + BRICK_H) = bottom
  BY Sizes
<1>5. \/ ball.y > bottom + BALL_R + 5 /\ e.y > bottom + BALL_R + 5
      \/ /\ ball.x < BRICK_OFFSET + start - BALL_R - 5
         /\ e.x < BRICK_OFFSET + start - BALL_R - 5
      \/ /\ ball.x > start + BRICK_W + BRICK_OFFSET + BALL_R + 5
         /\ e.x > start + BRICK_W + BRICK_OFFSET + BALL_R + 5
  BY <1>3 DEF Out, StaysOut
<1>6. CentreX(c) = BRICK_OFFSET + BRICK_W \div 2 + start
  BY DEF CentreX
<1> HIDE DEF p, e, bottom, start
<1>7. ASSUME InReach(p, c)
      PROVE  /\ Abs(p.x - CentreX(c)) <= BRICK_W \div 2 + BALL_R
             /\ p.y <= bottom + BALL_R
  BY <1>4, <1>7 DEF InReach
<1>8. ASSUME InReach(p, c)
      PROVE  FALSE
  BY <1>1, <1>2, <1>5, <1>6, <1>7, <1>8, Sizes DEF Abs, Sign
<1> QED
  BY <1>8 DEF p

(* The legs of a right triangle are no longer than its hypotenuse.         *)
LEMMA Squares ==
  ASSUME NEW a \in Int, NEW b \in Int, NEW R \in Nat, a * a + b * b <= R * R
  PROVE  a <= R /\ b <= R
<1>1. \A n \in Int : n * n >= 0
  OBVIOUS
<1>2. a * a <= R * R /\ b * b <= R * R
  BY <1>1
<1>3. \A n \in Int : n > R => n * n > R * R
  <2> TAKE n \in Int
  <2> HAVE n > R
  <2>1. n * n >= n * R /\ n * R >= R * R /\ n * n # R * R
    OBVIOUS
  <2> QED
    BY <2>1
<1> QED
  BY <1>2, <1>3

(* A ball that comes as near to a brick as its radius is in reach of the   *)
(* brick's column.                                                         *)
LEMMA CloseIsInReach ==
  ASSUME NEW p, p.x \in Int, p.y \in Int, NEW c \in Columns, NEW r \in Rows,
         Abs(p.x - CentreX(c)) - BRICK_W \div 2 <= BALL_R,
         Abs(p.y - CentreY(r)) - BRICK_H \div 2 <= BALL_R
  PROVE  InReach(p, c)
<1> DEFINE below == r * (BRICK_H + BRICK_OFFSET)
<1>1. c \in Nat /\ r \in Nat /\ r + 1 <= NB_ROWS
  BY Sizes DEF Columns, Rows
<1>2. CentreX(c) \in Int /\ below \in Int
  BY <1>1, Sizes DEF CentreX
<1>3. CentreY(r) = BRICK_OFFSET + BRICK_H \div 2 + below
  BY DEF CentreY
<1>4. below + BRICK_OFFSET + BRICK_H <= NB_ROWS * (BRICK_OFFSET + BRICK_H)
  <2>1. BRICK_OFFSET + BRICK_H \in Nat /\ r + 1 \in Nat
    BY <1>1, Sizes
  <2>2. (r + 1) * (BRICK_OFFSET + BRICK_H) <= NB_ROWS * (BRICK_OFFSET + BRICK_H)
    BY <1>1, <2>1, Sizes, Product
  <2> QED
    BY <1>1, <2>2, Sizes
<1> HIDE DEF below
<1>5. Abs(p.x - CentreX(c)) <= BRICK_W \div 2 + BALL_R
  BY <1>2, Sizes DEF Abs, Sign
<1>6. p.y <= BRICK_OFFSET + BRICK_H \div 2 + below + BRICK_H \div 2 + BALL_R
  BY <1>2, <1>3, Sizes DEF Abs, Sign
<1>7. p.y <= below + BRICK_OFFSET + BRICK_H + BALL_R
  BY <1>2, <1>6, Sizes
<1>8. NB_ROWS * (BRICK_OFFSET + BRICK_H) \in Int
  BY Sizes
<1>9. p.y <= NB_ROWS * (BRICK_OFFSET + BRICK_H) + BALL_R
  <2> DEFINE bottom == NB_ROWS * (BRICK_OFFSET + BRICK_H)
  <2>1. bottom \in Int /\ below + BRICK_OFFSET + BRICK_H <= bottom
    BY <1>4, <1>8
  <2> HIDE DEF bottom
  <2>2. p.y <= bottom + BALL_R
    BY <1>2, <1>7, <2>1, Sizes
  <2> QED
    BY <2>2 DEF bottom
<1> QED
  BY <1>5, <1>9 DEF InReach

(* The distances of the ball from a brick, as the search takes them.       *)
Dx(p, b) == Abs(p.x - CentreX(b[1])) - BRICK_W \div 2
Dy(p, b) == Abs(p.y - CentreY(b[2])) - BRICK_H \div 2

LEMMA DistancesAreIntegers ==
  ASSUME NEW p, p.x \in Int, p.y \in Int, NEW b \in Columns \X Rows
  PROVE  /\ Dx(p, b) \in Int /\ Dy(p, b) \in Int
         /\ CentreX(b[1]) \in Int /\ CentreY(b[2]) \in Int
<1>1. b[1] \in Int /\ b[2] \in Int
  BY Sizes DEF Columns, Rows
<1>2. CentreX(b[1]) \in Int /\ CentreY(b[2]) \in Int
  BY <1>1, Sizes DEF CentreX, CentreY
<1> QED
  BY <1>2, Sizes DEF Dx, Dy, Abs, Sign

(* When the search finds a brick.                                          *)
LEMMA TouchIsNear ==
  ASSUME NEW p, NEW b
  PROVE  BrickNormal(p, b) # NoNormal <=>
           \/ Dx(p, b) = BALL_R /\ Dy(p, b) < 0
           \/ Dy(p, b) = BALL_R /\ Dx(p, b) < 0
           \/ Near(Dx(p, b), Dy(p, b)) <= BALL_R * BALL_R
BY DEF BrickNormal, NoNormal, U16, Dx, Dy

(* A ball that touches a brick is in reach of the brick's column: the      *)
(* filter before the loop over the rows hides nothing.                     *)
LEMMA TouchedInReach ==
  ASSUME NEW p, p.x \in Int, p.y \in Int, NEW c \in Columns, Touched(p, c) # {}
  PROVE  InReach(p, c)
<1>1. PICK r \in Rows : BrickNormal(p, <<c, r>>) # NoNormal
  BY DEF Touched
<1> DEFINE b == <<c, r>>
<1>2. /\ b \in Columns \X Rows /\ b[1] = c /\ b[2] = r
      /\ BrickNormal(p, b) # NoNormal
  BY <1>1
<1> HIDE DEF b
<1>3. Dx(p, b) \in Int /\ Dy(p, b) \in Int
  BY <1>2, DistancesAreIntegers
<1>4. Dx(p, b) <= BALL_R /\ Dy(p, b) <= BALL_R
  <2>1. CASE Near(Dx(p, b), Dy(p, b)) <= BALL_R * BALL_R
    BY <1>3, <2>1, Sizes, Squares DEF Near
  <2>2. CASE (Dx(p, b) = BALL_R /\ Dy(p, b) < 0) \/ (Dy(p, b) = BALL_R /\ Dx(p, b) < 0)
    BY <1>3, <2>2, Sizes
  <2> QED
    BY <1>2, <2>1, <2>2, TouchIsNear
<1> QED
  BY <1>2, <1>4, CloseIsInReach DEF Dx, Dy

(* So is one that overlaps it.                                             *)
LEMMA OverlapInReach ==
  ASSUME NEW p, p.x \in Int, p.y \in Int, NEW b \in Columns \X Rows, Overlaps(p, b)
  PROVE  InReach(p, b[1])
<1> DEFINE ux == Upper(Dx(p, b), 0)
           uy == Upper(Dy(p, b), 0)
<1>1. Dx(p, b) \in Int /\ Dy(p, b) \in Int
  BY DistancesAreIntegers
<1>2. ux \in Int /\ uy \in Int /\ Dx(p, b) <= ux /\ Dy(p, b) <= uy
  BY <1>1 DEF Upper
<1>3. Near(ux, uy) < BALL_R * BALL_R
  BY DEF Overlaps, Dx, Dy
<1> HIDE DEF ux, uy
<1>4. ux <= BALL_R /\ uy <= BALL_R
  BY <1>2, <1>3, Sizes, Squares DEF Near
<1>5. Dx(p, b) <= BALL_R /\ Dy(p, b) <= BALL_R
  BY <1>1, <1>2, <1>4, Sizes
<1> QED
  BY <1>5, CloseIsInReach DEF Dx, Dy

(* The search cannot be stepped over: a ball that neither touches nor      *)
(* overlaps a brick, moves by a pixel and does not touch it there either,  *)
(* does not overlap it.  An edge is met at exactly the radius, and where   *)
(* the edges end the corners are met at any distance within it.            *)
LEMMA NoWayIn ==
  ASSUME NEW p, p.x \in Int, p.y \in Int, NEW q, q.x \in Int, q.y \in Int,
         q.x <= p.x + 1, p.x <= q.x + 1, q.y <= p.y + 1, p.y <= q.y + 1,
         NEW b \in Columns \X Rows,
         BrickNormal(p, b) = NoNormal, ~Overlaps(p, b), BrickNormal(q, b) = NoNormal
  PROVE  ~Overlaps(q, b)
<1> DEFINE dx == Dx(p, b)
           dy == Dy(p, b)
           ex == Dx(q, b)
           ey == Dy(q, b)
           R == BALL_R
<1>1. /\ dx \in Int /\ dy \in Int /\ ex \in Int /\ ey \in Int
      /\ ex <= dx + 1 /\ dx <= ex + 1 /\ ey <= dy + 1 /\ dy <= ey + 1
  <2>1. CentreX(b[1]) \in Int /\ CentreY(b[2]) \in Int
    BY DistancesAreIntegers
  <2>2. dx \in Int /\ dy \in Int /\ ex \in Int /\ ey \in Int
    BY DistancesAreIntegers
  <2>3. ex <= dx + 1 /\ dx <= ex + 1
    <3> DEFINE m == CentreX(b[1])
               half == BRICK_W \div 2
    <3>1. dx = Abs(p.x - m) - half /\ ex = Abs(q.x - m) - half
      BY DEF Dx
    <3>2. m \in Int /\ half \in Int
      BY <2>1, Sizes
    <3> HIDE DEF m, half, dx, dy, ex, ey
    <3> QED
      BY <3>1, <3>2 DEF Abs, Sign
  <2>4. ey <= dy + 1 /\ dy <= ey + 1
    <3> DEFINE m == CentreY(b[2])
               half == BRICK_H \div 2
    <3>1. dy = Abs(p.y - m) - half /\ ey = Abs(q.y - m) - half
      BY DEF Dy
    <3>2. m \in Int /\ half \in Int
      BY <2>1, Sizes
    <3> HIDE DEF m, half, dx, dy, ex, ey
    <3> QED
      BY <3>1, <3>2 DEF Abs, Sign
  <2> QED
    BY <2>2, <2>3, <2>4
<1>2. R \in Nat /\ R > 0
  BY BarBallAssumption, Sizes
<1>3. /\ ~(dx = R /\ dy < 0) /\ ~(dy = R /\ dx < 0) /\ ~(dx * dx + dy * dy <= R * R)
      /\ ~(ex * ex + ey * ey <= R * R)
  BY TouchIsNear DEF Near
<1>4. ~(Near(Upper(dx, 0), Upper(dy, 0)) < R * R)
  BY DEF Overlaps, Dx, Dy
<1>5. Overlaps(q, b) <=> Near(Upper(ex, 0), Upper(ey, 0)) < R * R
  BY DEF Overlaps, Dx, Dy
<1> HIDE DEF dx, dy, ex, ey, R
<1>6. R * R > 0 /\ \A n \in 0 .. R - 1 : n * n < R * R
  <2>1. ASSUME NEW n \in 0 .. R - 1 PROVE n * n < R * R
    <3>1. n * n <= n * R /\ n * R < R * R
      BY <1>2
    <3> QED
      BY <1>2, <3>1
  <2>2. R * R > 0
    BY <1>2
  <2> QED
    BY <2>1, <2>2
<1>7. \A n \in Int : n * n >= 0
  OBVIOUS
<1>8. dx >= R \/ dy >= R \/ (dx > 0 /\ dy > 0)
  <2> SUFFICES ASSUME dx < R, dy < R, dx <= 0 \/ dy <= 0
               PROVE  FALSE
    BY <1>1, <1>2
  <2>1. CASE dx <= 0
    <3>1. Upper(dx, 0) = 0 /\ Upper(dy, 0) \in 0 .. R - 1
      BY <1>1, <1>2, <2>1 DEF Upper
    <3> QED
      BY <1>4, <1>6, <3>1 DEF Near
  <2>2. CASE dy <= 0
    <3>1. Upper(dy, 0) = 0 /\ Upper(dx, 0) \in 0 .. R - 1
      BY <1>1, <1>2, <2>2 DEF Upper
    <3> QED
      BY <1>4, <1>6, <3>1 DEF Near
  <2> QED
    BY <2>1, <2>2
<1>9. ASSUME Near(Upper(ex, 0), Upper(ey, 0)) < R * R
      PROVE  FALSE
  <2>1. Upper(ex, 0) \in Int /\ Upper(ey, 0) \in Int
    BY <1>1 DEF Upper
  <2>2. Upper(ex, 0) < R /\ Upper(ey, 0) < R
    <3> DEFINE u == Upper(ex, 0)
               v == Upper(ey, 0)
    <3>0. u \in Int /\ v \in Int /\ u * u + v * v < R * R
      BY <1>9, <2>1 DEF Near
    <3> HIDE DEF u, v
    <3>1. ASSUME NEW n \in Int, n >= R PROVE n * n >= R * R
      <4>1. n * n >= n * R /\ n * R >= R * R
        BY <1>2, <3>1
      <4> QED
        BY <1>2, <4>1
    <3>2. u * u >= 0 /\ v * v >= 0 /\ u * u \in Int /\ v * v \in Int /\ R * R \in Int
      BY <1>2, <1>7, <3>0
    <3>3. ~(u * u >= R * R) /\ ~(v * v >= R * R)
      BY <3>0, <3>2
    <3>4. ~(u >= R) /\ ~(v >= R)
      BY <3>0, <3>1, <3>3
    <3> QED
      BY <1>2, <3>0, <3>4 DEF u, v
  <2>3. ex < R /\ ey < R
    BY <1>1, <1>2, <2>2 DEF Upper
  <2>4. CASE ex >= 0 /\ ey >= 0
    <3>1. Upper(ex, 0) = ex /\ Upper(ey, 0) = ey
      BY <1>1, <2>4 DEF Upper
    <3>2. ex * ex + ey * ey < R * R /\ ex * ex + ey * ey \in Int /\ R * R \in Int
      BY <1>1, <1>2, <1>9, <3>1 DEF Near
    <3> QED
      BY <1>3, <3>2
  <2>5. CASE ex < 0
    <3>1. dx <= 0 /\ dy <= R
      BY <1>1, <1>2, <2>3, <2>5
    <3>2. dy = R
      BY <1>1, <1>2, <1>8, <3>1
    <3>3. dx = 0
      BY <1>1, <1>3, <3>1, <3>2
    <3> QED
      BY <1>2, <1>3, <3>2, <3>3
  <2>6. CASE ey < 0
    <3>1. dy <= 0 /\ dx <= R
      BY <1>1, <1>2, <2>3, <2>6
    <3>2. dx = R
      BY <1>1, <1>2, <1>8, <3>1
    <3>3. dy = 0
      BY <1>1, <1>3, <3>1, <3>2
    <3> QED
      BY <1>2, <1>3, <3>2, <3>3
  <2> QED
    BY <1>1, <2>4, <2>5, <2>6
<1> QED
  BY <1>5, <1>9

(* The rough check hides no collision.                                     *)
LEMMA RoughIsSafe ==
  TypeOK => RoughCheckIsSafe
<1> SUFFICES ASSUME TypeOK, NEW c \in Columns, Out(c)
             PROVE  Strikes(c) = {}
  BY DEF RoughCheckIsSafe
<1>1. ASSUME NEW k \in Iters
      PROVE  Path[k] = Ahead(k + 1) /\ k + 1 \in 0 .. ball.vel
  BY Numbers DEF Path, Iters
<1>2. \A k \in Iters : ~InReach(Path[k], c)
  BY <1>1, OutOfReach
<1> QED
  BY <1>2 DEF Strikes

-----------------------------------------------------------------------------
(* What the ball thread finds: no position up to that of the collision has *)
(* a normal.                                                               *)
OwnFound(own) ==
  /\ own.idx = -1 /\ own.happened \in BOOLEAN /\ own.normal \in Int
  /\ own.iter \in 0 .. ball.vel
  /\ \A k \in 1 .. own.iter : OwnNormal(Ahead(k)) = NoNormal

(* What the thread of column c finds: no position up to that of the        *)
(* collision touches a brick of the column.                                *)
Found(colli, c) ==
  /\ colli.idx = c /\ colli.happened \in BOOLEAN /\ colli.normal \in Int
  /\ colli.iter \in 0 .. ball.vel
  /\ ~colli.happened => colli.iter = ball.vel
  /\ \A k \in 1 .. colli.iter : Touched(Ahead(k), c) = {}

(* Every branch gives a normal.                                            *)
LEMMA NormalIsInteger ==
  ASSUME NEW p, NEW b
  PROVE  OwnNormal(p) \in Int /\ BrickNormal(p, b) \in Int
BY DEF OwnNormal, BrickNormal, NoNormal, U16

(* The k-th position of the search is k + 1 pixels ahead.                  *)
LEMMA Tried ==
  ASSUME TypeOK
  PROVE  /\ Iters \in SUBSET Nat
         /\ \A k \in Iters : Path[k] = Ahead(k + 1) /\ k \in 0 .. ball.vel
         /\ \A n \in 0 .. ball.vel : \A k \in 1 .. n :
              k - 1 \in Iters /\ k - 1 < n /\ Path[k - 1] = Ahead(k)
<1>1. ball.vel \in Nat
  BY Numbers
<1>2. Iters \in SUBSET Nat
  BY <1>1 DEF Iters
<1>3. \A k \in Iters : Path[k] = Ahead(k + 1) /\ k \in 0 .. ball.vel
  BY <1>1 DEF Iters, Path
<1>4. ASSUME NEW n \in 0 .. ball.vel, NEW k \in 1 .. n
      PROVE  k - 1 \in Iters /\ k - 1 < n /\ Path[k - 1] = Ahead(k)
  <2>1. k - 1 \in Iters /\ k - 1 < n /\ (k - 1) + 1 = k
    BY <1>1 DEF Iters
  <2> QED
    BY <1>3, <2>1
<1> QED
  BY <1>2, <1>3, <1>4

(* The ball thread stops at the first position with a normal.              *)
LEMMA OwnCollisionFound ==
  ASSUME TypeOK
  PROVE  OwnFound(OwnCollision)
<1> DEFINE ks == {k \in Iters : OwnNormal(Path[k]) # NoNormal}
<1>1. ball.vel \in Nat
  BY Numbers
<1>2. CASE ks = {}
  <2>1. OwnCollision = NoCollision(-1)
    BY <1>2 DEF OwnCollision
  <2>2. \A k \in 1 .. ball.vel : OwnNormal(Ahead(k)) = NoNormal
    BY <1>1, <1>2, Tried
  <2> QED
    BY <1>1, <2>1, <2>2 DEF OwnFound, NoCollision
<1>3. CASE ks # {}
  <2> DEFINE first == Min(ks)
  <2>1. OwnCollision = Collision(-1, first, OwnNormal(Path[first]))
    BY <1>3 DEF OwnCollision
  <2>2. ks \in SUBSET Nat
    BY Tried
  <2>3. first \in ks /\ \A k \in ks : first <= k
    <3> HIDE DEF ks
    <3> QED
      BY <1>3, <2>2, LeastOf
  <2>4. first \in 0 .. ball.vel /\ first \in Nat
    BY <1>1, <2>2, <2>3, Tried
  <2>5. ASSUME NEW k \in 1 .. first
        PROVE  OwnNormal(Ahead(k)) = NoNormal
    <3>1. k - 1 \in Iters /\ k - 1 < first /\ Path[k - 1] = Ahead(k)
      BY <2>4, Tried
    <3>2. k - 1 \notin ks
      <4> HIDE DEF ks, first
      <4> QED
        BY <2>3, <2>4, <3>1
    <3> QED
      BY <3>1, <3>2
  <2> HIDE DEF ks, first
  <2> QED
    BY <1>1, <2>1, <2>4, <2>5, NormalIsInteger DEF OwnFound, Collision
<1> QED
  BY <1>2, <1>3

LEMMA TouchedRows ==
  ASSUME NEW p, NEW c, Touched(p, c) # {}
  PROVE  Min(Touched(p, c)) \in Rows
<1>1. Touched(p, c) \in SUBSET Nat /\ Touched(p, c) \subseteq Rows
  BY Sizes DEF Touched, Rows
<1> QED
  BY <1>1, LeastOf

(* A column thread stops at the first position that touches one of its     *)
(* bricks; one that skips its search has nothing to find.                  *)
LEMMA ColumnCollisionFound ==
  ASSUME TypeOK, NEW c \in Columns
  PROVE  Found(ColumnCollision(c), c)
<1> DEFINE ks == IF Out(c) THEN {} ELSE Strikes(c)
<1>1. ball.vel \in Nat
  BY Numbers
<1>2. ks = Strikes(c)
  BY RoughIsSafe DEF RoughCheckIsSafe
<1>3. Strikes(c) = {k \in Iters : InReach(Path[k], c) /\ Touched(Path[k], c) # {}}
  BY DEF Strikes
<1>4. ASSUME NEW k \in Nat, k \notin ks, k \in Iters, Path[k] = Ahead(k + 1)
      PROVE  Touched(Path[k], c) = {}
  <2>1. k + 1 \in 0 .. ball.vel
    BY <1>1, <1>4 DEF Iters
  <2>2. Path[k].x \in Int /\ Path[k].y \in Int
    BY <1>4, <2>1, AheadOnTheWay
  <2> QED
    BY <1>2, <1>3, <1>4, <2>2, TouchedInReach
<1>5. ASSUME NEW n \in 0 .. ball.vel, \A k \in Iters : k < n => k \notin ks
      PROVE  \A k \in 1 .. n : Touched(Ahead(k), c) = {}
  <2> TAKE k \in 1 .. n
  <2>1. k - 1 \in Iters /\ k - 1 < n /\ Path[k - 1] = Ahead(k) /\ k - 1 \in Nat
    BY <1>1, Tried
  <2>2. k - 1 \notin ks /\ Path[k - 1] = Ahead((k - 1) + 1)
    BY <1>5, <2>1, Tried
  <2> QED
    BY <1>4, <2>1, <2>2
<1>6. CASE ks = {}
  <2>1. ColumnCollision(c) = NoCollision(c)
    BY <1>6 DEF ColumnCollision
  <2> QED
    BY <1>1, <1>5, <1>6, <2>1 DEF Found, NoCollision
<1>7. CASE ks # {}
  <2> DEFINE first == Min(ks)
             normal == BrickNormal(Ahead(first + 1), <<c, FirstTouched(first, c)>>)
  <2>1. ColumnCollision(c) = Collision(c, first, normal)
    BY <1>7 DEF ColumnCollision
  <2>2. ks \in SUBSET Nat
    BY <1>2, <1>3, Tried
  <2>3. first \in ks /\ \A k \in ks : first <= k
    <3> HIDE DEF ks
    <3> QED
      BY <1>7, <2>2, LeastOf
  <2>4. first \in 0 .. ball.vel /\ first \in Nat
    BY <1>1, <1>2, <1>3, <2>2, <2>3, Tried
  <2>5. normal \in Int
    BY NormalIsInteger
  <2> HIDE DEF ks, first, normal
  <2>6. \A k \in Iters : k < first => k \notin ks
    BY <2>3, <2>4, Tried
  <2>7. \A k \in 1 .. first : Touched(Ahead(k), c) = {}
    BY <1>5, <2>4, <2>6
  <2> QED
    BY <1>1, <2>1, <2>4, <2>5, <2>7 DEF Found, Collision
<1> QED
  BY <1>6, <1>7

(* Of all the collisions the ball thread takes one that none precedes.     *)
LEMMA Arbitrated ==
  ASSUME TypeOK,
         NEW own, OwnFound(own),
         NEW columns, \A k \in columns : \E c \in Columns : Found(k, c)
  PROVE  LET colli == Arbitrate(own, columns) IN
           /\ colli \in {own} \cup columns
           /\ colli.iter <= own.iter
           /\ \A k \in columns : colli.iter <= k.iter
<1> DEFINE sooner == {k \in columns : k.happened /\ k.iter < own.iter}
<1>1. /\ own.iter \in Nat /\ ball.vel \in Nat /\ own.iter <= ball.vel
      /\ \A k \in columns : k.iter \in Nat /\ k.idx \in Nat /\ k.happened \in BOOLEAN
      /\ \A k \in columns : ~k.happened => k.iter = ball.vel
  BY Numbers DEF OwnFound, Found, Columns
<1>2. CASE sooner = {}
  <2>1. Arbitrate(own, columns) = own
    BY <1>2 DEF Arbitrate
  <2>2. \A k \in columns : ~k.happened \/ ~(k.iter < own.iter)
    BY <1>2
  <2>3. \A k \in columns : own.iter <= k.iter
    BY <1>1, <2>2
  <2> QED
    BY <1>1, <2>1, <2>3
<1>3. CASE sooner # {}
  <2> DEFINE iters == {k.iter : k \in sooner}
             least == Min(iters)
             at == {k.idx : k \in {j \in sooner : j.iter = least}}
  <2>1. iters \in SUBSET Nat /\ iters # {}
    BY <1>1, <1>3
  <2>2. least \in iters /\ \A n \in iters : least <= n
    <3> HIDE DEF iters
    <3> QED
      BY <2>1, LeastOf
  <2>3. at \in SUBSET Nat /\ at # {}
    BY <1>1, <2>2
  <2>4. Min(at) \in at /\ \A n \in at : Min(at) <= n
    <3> HIDE DEF at
    <3> QED
      BY <2>3, LeastOf
  <2>5. PICK k \in sooner : k.iter = least /\ k.idx = Min(at)
    BY <2>4
  <2>6. ASSUME NEW j \in sooner
        PROVE  k.iter < j.iter \/ (k.iter = j.iter /\ k.idx <= j.idx)
    <3>1. j.iter \in iters /\ j.iter \in Nat /\ k.iter \in Nat
      BY <1>1
    <3>2. k.iter <= j.iter
      BY <2>2, <2>5, <3>1
    <3>3. j.iter = least => k.idx <= j.idx
      BY <2>4, <2>5
    <3> HIDE DEF sooner, iters, least, at
    <3> QED
      BY <2>5, <3>1, <3>2, <3>3
  <2>7. Arbitrate(own, columns) = CHOOSE i \in sooner : \A j \in sooner :
            i.iter < j.iter \/ (i.iter = j.iter /\ i.idx <= j.idx)
    BY <1>3 DEF Arbitrate
  <2> DEFINE colli == Arbitrate(own, columns)
  <2>8. /\ colli \in sooner
        /\ \A j \in sooner : colli.iter < j.iter \/ (colli.iter = j.iter /\ colli.idx <= j.idx)
    <3> HIDE DEF sooner
    <3> QED
      BY <2>6, <2>7
  <2>9. colli \in columns /\ colli.iter \in Nat /\ colli.iter < own.iter
    BY <1>1, <2>8
  <2>10. ASSUME NEW j \in columns
         PROVE  colli.iter <= j.iter
    <3>1. j.iter \in Nat
      BY <1>1
    <3>2. CASE j \in sooner
      <4> HIDE DEF sooner, colli
      <4> QED
        BY <2>8, <2>9, <3>1, <3>2
    <3>3. CASE j \notin sooner
      <4>1. ~j.happened \/ ~(j.iter < own.iter)
        BY <3>3
      <4>2. own.iter <= j.iter
        BY <1>1, <3>1, <4>1
      <4> HIDE DEF sooner, colli
      <4> QED
        BY <1>1, <2>9, <3>1, <4>2
    <3> QED
      BY <3>2, <3>3
  <2> HIDE DEF colli
  <2>11. colli.iter <= own.iter
    BY <1>1, <2>9
  <2> QED
    BY <2>9, <2>10, <2>11 DEF colli
<1> QED
  BY <1>2, <1>3
-----------------------------------------------------------------------------
(* Position p neither touches nor overlaps the sides or a brick.           *)
Untouched(p) == \A c \in Columns : Touched(p, c) = {}

Free(p) ==
  /\ ~(OnLeft(p) \/ OnRight(p) \/ OnTop(p) \/ OnBottom(p))
  /\ Untouched(p)
  /\ \A b \in bricks : ~Overlaps(p, b)

LEMMA UntouchedBricks ==
  ASSUME NEW p, Untouched(p), NEW b \in bricks, b \in Columns \X Rows
  PROVE  BrickNormal(p, b) = NoNormal
<1>1. b[1] \in Columns /\ b[2] \in Rows /\ b = <<b[1], b[2]>>
  OBVIOUS
<1>2. b[2] \notin Touched(p, b[1])
  BY <1>1 DEF Untouched
<1> QED
  BY <1>1, <1>2 DEF Touched

(* Only where the ball is matters to what it touches.                      *)
LEMMA SamePlace ==
  ASSUME NEW p, NEW q, p.x = q.x, p.y = q.y
  PROVE  /\ Free(p) <=> Free(q)
         /\ OnBar(p, bar_pos) <=> OnBar(q, bar_pos)
<1>1. \A b : BrickNormal(p, b) = BrickNormal(q, b)
  BY DEF BrickNormal
<1>2. \A c : Touched(p, c) = Touched(q, c)
  BY <1>1 DEF Touched
<1>3. Free(p) <=> Free(q)
  BY <1>2 DEF Free, Untouched, Overlaps, OnLeft, OnRight, OnTop, OnBottom
<1>4. OnBar(p, bar_pos) <=> OnBar(q, bar_pos)
  BY DEF OnBar, OnBarCorner, OnBarEdge
<1> QED
  BY <1>3, <1>4

(* The ball never gets into a brick: on the way to a collision that none   *)
(* precedes it neither touches nor overlaps one.  Were there positions     *)
(* that do, the first of them would be a pixel from one that does not.     *)
LEMMA WayIsClear ==
  ASSUME TypeOK, Free(ball), NEW n \in 0 .. ball.vel,
         \A k \in 1 .. n : Untouched(Ahead(k)), NEW b \in bricks
  PROVE  ~Overlaps(Ahead(n), b)
<1>1. ball.vel \in Nat /\ n \in Nat /\ b \in Columns \X Rows
  BY Numbers DEF TypeOK
<1> DEFINE S == {k \in 0 .. n : Overlaps(Ahead(k), b)}
<1> SUFFICES ASSUME S # {}
             PROVE  FALSE
  BY <1>1
<1>2. S \in SUBSET Nat
  BY <1>1
<1>3. PICK m \in S : \A k \in S : m <= k
  BY <1>2, LeastOf
<1>4. m \in 0 .. n /\ Overlaps(Ahead(m), b)
  OBVIOUS
<1>5. \A k \in 0 .. n : Overlaps(Ahead(k), b) => m <= k
  BY <1>3
<1> HIDE DEF S
<1>6. BrickNormal(ball, b) = NoNormal /\ ~Overlaps(ball, b)
  BY <1>1, UntouchedBricks DEF Free
<1>7. BrickNormal(Ahead(0), b) = NoNormal /\ ~Overlaps(Ahead(0), b)
  BY <1>6, AheadOfNothing DEF BrickNormal, Overlaps
<1>8. m # 0
  BY <1>4, <1>7
<1>9. m - 1 \in 0 .. n /\ m - 1 \in Nat /\ (m - 1) + 1 = m /\ m \in 1 .. n
  BY <1>1, <1>4, <1>8
<1>10. ~Overlaps(Ahead(m - 1), b)
  BY <1>1, <1>4, <1>5, <1>9
<1>11. \A k \in 1 .. n : BrickNormal(Ahead(k), b) = NoNormal
  BY <1>1, UntouchedBricks
<1>12. BrickNormal(Ahead(m - 1), b) = NoNormal /\ BrickNormal(Ahead(m), b) = NoNormal
  <2>1. m - 1 = 0 \/ m - 1 \in 1 .. n
    BY <1>1, <1>9
  <2> QED
    BY <1>7, <1>9, <1>11, <2>1
<1>13. /\ Ahead(m - 1).x \in Int /\ Ahead(m - 1).y \in Int
       /\ Ahead(m).x <= Ahead(m - 1).x + 1 /\ Ahead(m - 1).x <= Ahead(m).x + 1
       /\ Ahead(m).y <= Ahead(m - 1).y + 1 /\ Ahead(m - 1).y <= Ahead(m).y + 1
       /\ Ahead(m).x \in Int /\ Ahead(m).y \in Int
  <2>1. m \in Nat
    BY <1>1, <1>4
  <2>2. Ahead(m).x \in Int /\ Ahead(m).y \in Int
    BY <2>1, OnePixel
  <2> DEFINE j == m - 1
  <2>3. /\ Ahead(j).x \in Int /\ Ahead(j).y \in Int
        /\ Ahead(j + 1).x <= Ahead(j).x + 1 /\ Ahead(j).x <= Ahead(j + 1).x + 1
        /\ Ahead(j + 1).y <= Ahead(j).y + 1 /\ Ahead(j).y <= Ahead(j + 1).y + 1
    BY <1>9, OnePixel
  <2> QED
    BY <1>9, <2>2, <2>3
<1> QED
  BY <1>1, <1>4, <1>10, <1>12, <1>13, NoWayIn

(* The position before a collision that none precedes is free: either the  *)
(* ball has not moved, or that position was tried and found free by all.   *)
LEMMA RestIsFree ==
  ASSUME TypeOK, Free(ball),
         NEW colli, colli.iter \in 0 .. ball.vel,
         \A k \in 1 .. colli.iter : OwnNormal(Ahead(k)) = NoNormal,
         \A k \in 1 .. colli.iter : Untouched(Ahead(k))
  PROVE  /\ Rest(colli).x \in Int /\ Rest(colli).y \in Int
         /\ Free(Rest(colli))
         /\ ~OnBar(ball, bar_pos) => ~OnBar(Rest(colli), bar_pos)
<1>1. ball.vel \in Nat /\ Rest(colli) = Ahead(colli.iter)
  BY Numbers DEF Rest
<1>2. Rest(colli).x \in Int /\ Rest(colli).y \in Int
  BY <1>1, AheadOnTheWay
<1>3. CASE colli.iter = 0
  <2>1. Rest(colli).x = ball.x /\ Rest(colli).y = ball.y
    BY <1>1, <1>3, AheadOfNothing
  <2> QED
    BY <1>2, <2>1, SamePlace
<1>4. CASE colli.iter # 0
  <2>1. colli.iter \in 1 .. colli.iter
    BY <1>1, <1>4
  <2>2. OwnNormal(Rest(colli)) = NoNormal
    BY <1>1, <2>1
  <2>3. Untouched(Rest(colli)) /\ \A b \in bricks : ~Overlaps(Rest(colli), b)
    BY <1>1, <2>1, WayIsClear
  <2>4. /\ ~(OnLeft(Rest(colli)) \/ OnRight(Rest(colli)))
        /\ ~(OnTop(Rest(colli)) \/ OnBottom(Rest(colli)))
        /\ ~OnBar(Rest(colli), bar_pos)
    BY <2>2 DEF OwnNormal, NoNormal, OnBar
  <2> QED
    BY <1>2, <2>3, <2>4 DEF Free
<1> QED
  BY <1>3, <1>4

(* check_angle brings any angle into the circle.                           *)
LEMMA AngleIsAngle ==
  ASSUME NEW a \in Int
  PROVE  check_angle(a) \in 0 .. 359
BY DEF check_angle, Remainder, Abs, Sign

(* The bar leaves the angle in the circle.                                 *)
LEMMA SteeredIsAngle ==
  ASSUME NEW a \in 0 .. 359, NEW d \in Int
  PROVE  Steered(a, d) \in 0 .. 359
<1>1. BAR_MIN_ANGLE \in 0 .. 359 /\ BAR_MAX_ANGLE \in 0 .. 359
  BY BarBallAssumption
<1> QED
  BY <1>1 DEF Steered, Lower, Upper

(* The bar leaves the speed between its limits.                            *)
LEMMA PacedIsSpeed ==
  ASSUME NEW v \in BALL_MIN_VEL .. BALL_MAX_VEL, NEW d \in Int
  PROVE  Paced(v, d) \in BALL_MIN_VEL .. BALL_MAX_VEL
BY Sizes DEF Paced, Lower, Upper

(* The bar is in the zone, or beside a ball that is.                       *)
LEMMA BarMovedInRange ==
  ASSUME NEW pos \in Int, NEW d \in Moves,
         NEW b, b.x \in Int, ~OnLeft(b), ~OnRight(b)
  PROVE  BarMoved(pos, d, b) \in 1 - BAR_W \div 2 .. BZ_W + BAR_W \div 2 - 1
<1>1. d \in Int
  BY Sizes DEF Moves
<1>2. BAR_W + 2 <= BZ_W
  BY BarBallAssumption
<1>3. Clamped(pos + d) \in BAR_W \div 2 + 1 .. BZ_W - BAR_W \div 2 - 1
  BY <1>1, <1>2, Sizes DEF Clamped, Upper, Lower
<1>4. b.x - BALL_R >= 1 /\ b.x + BALL_R <= BZ_W - 1
  BY Sizes DEF OnLeft, OnRight
<1>5. Sign(d) = 1 \/ Sign(d) = -1
  BY DEF Sign
<1>6. CASE BarMoved(pos, d, b) = Clamped(pos + d)
  BY <1>3, <1>6, Sizes
<1>7. CASE BarMoved(pos, d, b) = b.x - Sign(d) * (BALL_R + BAR_W \div 2)
  BY <1>4, <1>5, <1>7, Sizes
<1> QED
  BY <1>6, <1>7 DEF BarMoved, Pushed
-----------------------------------------------------------------------------
(* The inductive invariant.                                                *)
Clear == TypeOK /\ Free(ball)

(* A round takes the ball to a free position, by a collision that none     *)
(* precedes.                                                               *)
LEMMA RoundRests ==
  ASSUME Clear, Round
  PROVE  \E colli :
           /\ colli.happened \in BOOLEAN /\ colli.normal \in Int
           /\ Rest(colli).x \in Int /\ Rest(colli).y \in Int
           /\ Free(Rest(colli))
           /\ ~OnBar(ball, bar_pos) => ~OnBar(Rest(colli), bar_pos)
           /\ bricks' = BricksAfter(colli)
           /\ \E raise \in {0, SCORE_VEL_CHANGE} : ball' = BallAfter(colli, raise)
           /\ \E d \in Moves : bar_pos' = BarMoved(bar_pos, d, Rest(colli))
<1> DEFINE own == OwnCollision
           columns == {ColumnCollision(c) : c \in Columns}
           colli == Arbitrate(own, columns)
<1>1. TypeOK /\ Free(ball)
  BY DEF Clear
<1>2. OwnFound(own) /\ \A c \in Columns : Found(ColumnCollision(c), c)
  BY <1>1, OwnCollisionFound, ColumnCollisionFound
<1>3. \A k \in columns : \E c \in Columns : Found(k, c)
  BY <1>2
<1>4. /\ bricks' = BricksAfter(colli)
      /\ \E raise \in {0, SCORE_VEL_CHANGE} : ball' = BallAfter(colli, raise)
      /\ \E d \in Moves : bar_pos' = BarMoved(bar_pos, d, Rest(colli))
  BY DEF Round
<1> HIDE DEF own
<1>5. /\ colli \in {own} \cup columns /\ colli.iter <= own.iter
      /\ \A k \in columns : colli.iter <= k.iter
  <2> HIDE DEF columns
  <2> QED
    BY <1>1, <1>2, <1>3, Arbitrated
<1>6. \A c \in Columns : ColumnCollision(c) \in columns
  OBVIOUS
<1> HIDE DEF columns, colli
<1>7. colli.happened \in BOOLEAN /\ colli.normal \in Int /\ colli.iter \in 0 .. ball.vel
  BY <1>2, <1>3, <1>5 DEF OwnFound, Found
<1>8. \A k \in 1 .. colli.iter : OwnNormal(Ahead(k)) = NoNormal
  <2>1. own.iter \in Int /\ colli.iter \in Int
    BY <1>1, <1>2, <1>7, Numbers DEF OwnFound
  <2>2. \A k \in 1 .. colli.iter : k \in 1 .. own.iter
    BY <1>5, <2>1
  <2> QED
    BY <1>2, <2>2 DEF OwnFound
<1>9. \A k \in 1 .. colli.iter : Untouched(Ahead(k))
  <2> SUFFICES \A k \in 1 .. colli.iter : \A c \in Columns : Touched(Ahead(k), c) = {}
    BY DEF Untouched
  <2> TAKE k \in 1 .. colli.iter
  <2> TAKE c \in Columns
  <2> DEFINE col == ColumnCollision(c)
  <2>1. colli.iter <= col.iter /\ Found(col, c)
    BY <1>2, <1>5, <1>6
  <2>2. col.iter \in Int /\ colli.iter \in Int
    BY <1>1, <1>7, <2>1, Numbers DEF Found
  <2> HIDE DEF col
  <2>3. k \in 1 .. col.iter
    BY <2>1, <2>2
  <2> QED
    BY <2>1, <2>3 DEF Found
<1>10. /\ Rest(colli).x \in Int /\ Rest(colli).y \in Int
       /\ Free(Rest(colli))
       /\ ~OnBar(ball, bar_pos) => ~OnBar(Rest(colli), bar_pos)
  BY <1>1, <1>7, <1>8, <1>9, RestIsFree
<1> QED
  BY <1>4, <1>7, <1>10

(* A round leaves every variable in its range.                             *)
LEMMA RoundKeepsTypes ==
  Clear /\ Round => TypeOK'
<1> SUFFICES ASSUME Clear, Round
             PROVE  TypeOK'
  OBVIOUS
<1>1. PICK colli :
        /\ colli.happened \in BOOLEAN /\ colli.normal \in Int
        /\ Rest(colli).x \in Int /\ Rest(colli).y \in Int
        /\ Free(Rest(colli))
        /\ bricks' = BricksAfter(colli)
        /\ \E raise \in {0, SCORE_VEL_CHANGE} : ball' = BallAfter(colli, raise)
        /\ \E d \in Moves : bar_pos' = BarMoved(bar_pos, d, Rest(colli))
  BY RoundRests
<1>2. PICK raise \in {0, SCORE_VEL_CHANGE} : ball' = BallAfter(colli, raise)
  BY <1>1
<1>3. PICK d \in Moves : bar_pos' = BarMoved(bar_pos, d, Rest(colli))
  BY <1>1
<1>4. TypeOK
  BY DEF Clear
<1>5. /\ ball.vel \in BALL_MIN_VEL .. BALL_MAX_VEL /\ ball.angle \in 0 .. 359
      /\ bar_pos \in Int /\ raise \in Nat
  <2>1. ball.vel \in BALL_MIN_VEL .. BALL_MAX_VEL /\ ball.angle \in 0 .. 359
    BY <1>4 DEF TypeOK
  <2>2. bar_pos \in Int
    BY <1>4, Numbers
  <2> QED
    BY <2>1, <2>2, Sizes
<1>6. ~OnLeft(Rest(colli)) /\ ~OnRight(Rest(colli)) /\ ~OnTop(Rest(colli)) /\ ~OnBottom(Rest(colli))
  BY <1>1 DEF Free
<1>7. ball'.x \in 0 .. BZ_W /\ ball'.y \in 0 .. BZ_H
  <2>1. ball'.x = Rest(colli).x /\ ball'.y = Rest(colli).y
    BY <1>2 DEF BallAfter
  <2> QED
    BY <1>1, <1>6, <2>1, Sizes DEF OnLeft, OnRight, OnTop, OnBottom
<1>8. ball'.vel \in BALL_MIN_VEL .. BALL_MAX_VEL
  <2> DEFINE vel == Lower(ball.vel + raise, BALL_MAX_VEL)
             there == Ahead(colli.iter + 1)
  <2>1. vel \in BALL_MIN_VEL .. BALL_MAX_VEL
    BY <1>5, Sizes DEF Lower
  <2>2. OffsetVel(there) \in Int
    BY Sizes DEF OffsetVel, Sign
  <2>3. ball'.vel = vel \/ ball'.vel = Paced(vel, OffsetVel(there))
    BY <1>2 DEF BallAfter
  <2> HIDE DEF vel, there
  <2> QED
    BY <2>1, <2>2, <2>3, PacedIsSpeed
<1>9. ball'.angle \in 0 .. 359
  <2> DEFINE angle == IF colli.happened THEN Bounced(ball.angle, colli.normal) ELSE ball.angle
             there == Ahead(colli.iter + 1)
  <2>1. 2 * colli.normal - ball.angle + 180 \in Int
    BY <1>1, <1>5
  <2>2. angle \in 0 .. 359
    BY <1>5, <2>1, AngleIsAngle DEF Bounced
  <2>3. OffsetAngle(there) \in Int
    BY Sizes DEF OffsetAngle, Sign
  <2>4. ball'.angle = angle \/ ball'.angle = Steered(angle, OffsetAngle(there))
    BY <1>2 DEF BallAfter
  <2> HIDE DEF angle, there
  <2> QED
    BY <2>2, <2>3, <2>4, SteeredIsAngle
<1>10. bar_pos' \in 1 - BAR_W \div 2 .. BZ_W + BAR_W \div 2 - 1
  BY <1>1, <1>3, <1>5, <1>6, BarMovedInRange
<1>11. bricks' \subseteq Columns \X Rows
  BY <1>1, <1>4 DEF BricksAfter, TypeOK
<1>12. lost' \in BOOLEAN
  BY DEF Round
<1>13. rounds' \in 0 .. MAX_ROUNDS
  BY <1>4, Sizes DEF Round, TypeOK
<1> QED
  BY <1>7, <1>8, <1>9, <1>10, <1>11, <1>12, <1>13 DEF TypeOK

(* A round leaves the ball clear: where it rests was free, and bricks only *)
(* go.                                                                     *)
LEMMA RoundKeepsClear ==
  Clear /\ Round => Free(ball)'
<1> SUFFICES ASSUME Clear, Round
             PROVE  Free(ball)'
  OBVIOUS
<1>1. PICK colli :
        /\ Free(Rest(colli)) /\ bricks' = BricksAfter(colli)
        /\ \E raise \in {0, SCORE_VEL_CHANGE} : ball' = BallAfter(colli, raise)
  BY RoundRests
<1>2. ball'.x = Rest(colli).x /\ ball'.y = Rest(colli).y
  BY <1>1 DEF BallAfter
<1>3. Free(ball')
  BY <1>1, <1>2, SamePlace
<1>4. bricks' \subseteq bricks
  BY <1>1 DEF BricksAfter
<1>5. \A c \in Columns : Touched(ball, c)' \subseteq Touched(ball', c)
  BY <1>4 DEF Touched
<1>6. Untouched(ball)'
  BY <1>3, <1>5 DEF Free, Untouched
<1> QED
  BY <1>3, <1>4, <1>6 DEF Free, OnLeft, OnRight, OnTop, OnBottom, Overlaps

(* The launch is clear: the ball is below the bricks, above the bar.       *)
LEMMA InitClear ==
  Init => Clear
<1> SUFFICES ASSUME Init
             PROVE  Clear
  OBVIOUS
<1> DEFINE bottom == NB_ROWS * (BRICK_OFFSET + BRICK_H)
<1>1. PICK a \in Angles :
        ball = [x |-> BZ_W \div 2, y |-> BarTop - BALL_R - 1, vel |-> BALL_DEF_SPEED, angle |-> a]
  BY DEF Init
<1>2. /\ BALL_DEF_SPEED \in BALL_MIN_VEL .. BALL_MAX_VEL /\ a \in 0 .. 359
      /\ BALL_R < BZ_W \div 2 /\ bottom + 2 * BALL_R + 1 < BarTop
  BY BarBallAssumption
<1>3. bottom \in Nat
  BY Sizes
<1>4. BarTop \in Int /\ BarTop <= BZ_H
  BY Sizes DEF BarTop
<1> HIDE DEF bottom
<1>5. ball.x = BZ_W \div 2 /\ ball.y = BarTop - BALL_R - 1
  BY <1>1
<1>6. ball.x \in 0 .. BZ_W /\ ball.y \in 0 .. BZ_H
  BY <1>2, <1>3, <1>4, <1>5, Sizes
<1>7. bar_pos \in 1 - BAR_W \div 2 .. BZ_W + BAR_W \div 2 - 1
  BY <1>2, Sizes DEF Init
<1>8. TypeOK
  <2>1. ball.vel \in BALL_MIN_VEL .. BALL_MAX_VEL /\ ball.angle \in 0 .. 359
    BY <1>1, <1>2
  <2>2. bricks \subseteq Columns \X Rows /\ lost \in BOOLEAN
    BY DEF Init
  <2>3. rounds \in 0 .. MAX_ROUNDS
    BY Sizes DEF Init
  <2> QED
    BY <1>6, <1>7, <2>1, <2>2, <2>3 DEF TypeOK
<1>9. ~(OnLeft(ball) \/ OnRight(ball) \/ OnTop(ball) \/ OnBottom(ball))
  BY <1>2, <1>3, <1>4, <1>5, Sizes DEF OnLeft, OnRight, OnTop, OnBottom
<1>10. ball.y > bottom + BALL_R
  BY <1>2, <1>3, <1>4, <1>5, Sizes
<1>11. \A c \in Columns : ~InReach(ball, c)
  BY <1>3, <1>6, <1>10, Sizes DEF InReach, bottom
<1>12. \A c \in Columns : Touched(ball, c) = {}
  BY <1>6, <1>11, TouchedInReach
<1>13. \A b \in bricks : ~Overlaps(ball, b)
  <2> SUFFICES ASSUME NEW b \in bricks, Overlaps(ball, b)
               PROVE  FALSE
    OBVIOUS
  <2>1. b \in Columns \X Rows /\ b[1] \in Columns
    BY DEF Init
  <2> QED
    BY <1>6, <1>11, <2>1, OverlapInReach
<1> QED
  BY <1>8, <1>9, <1>12, <1>13 DEF Clear, Free, Untouched

(* Clear is inductive.                                                     *)
LEMMA ClearInvariant ==
  Spec => []Clear
<1>1. Clear /\ [Next]_vars => Clear'
  <2>1. CASE Next
    BY <2>1, RoundKeepsTypes, RoundKeepsClear DEF Next, Clear
  <2>2. CASE UNCHANGED vars
    <3> SUFFICES ASSUME Clear
                 PROVE  Clear'
      OBVIOUS
    <3>1. \A c : Touched(ball, c)' = Touched(ball, c)
      BY <2>2 DEF vars, Touched
    <3> QED
      BY <2>2, <3>1 DEF vars, Clear, TypeOK, Free, Untouched, Overlaps,
                        OnLeft, OnRight, OnTop, OnBottom
  <2> QED
    BY <2>1, <2>2
<1> QED
  BY <1>1, InitClear, PTL DEF Spec

(* Speed and angle stay in their ranges and the ball in the zone, whatever *)
(* it hits; the bar is never further out than beside the ball.             *)
THEOREM BarBallTypes ==
  Spec => []TypeOK
<1>1. Clear => TypeOK
  BY DEF Clear
<1> QED
  BY <1>1, ClearInvariant, PTL

(* Between two rounds the ball overlaps neither the sides nor a brick that *)
(* stands (main_model.c 249-292, 467-471), although the search asks for    *)
(* the edges of a brick at one distance only.                              *)
THEOREM BarBallClear ==
  Spec => []BallIsClear
<1>1. Clear => BallIsClear
  BY DEF Clear, Free, BallIsClear
<1> QED
  BY <1>1, ClearInvariant, PTL

(* A column whose rough check (main_model.c 237-247) holds has nothing to  *)
(* find in its search.                                                     *)
THEOREM BarBallRoughCheck ==
  Spec => []RoughCheckIsSafe
<1>1. Clear => RoughCheckIsSafe
  BY RoughIsSafe DEF Clear
<1> QED
  BY <1>1, ClearInvariant, PTL

(* A ball that is not in the bar is not in it, where the bar was, after    *)
(* the round either.                                                       *)
THEOREM BarBallEnters ==
  Spec => OnlyBarEnters
<1>1. Clear /\ [Next]_vars =>
        [bar_pos' = bar_pos /\ ~OnBar(ball, bar_pos) => ~OnBar(ball', bar_pos)]_vars
  <2> SUFFICES ASSUME Clear, Round, ~OnBar(ball, bar_pos)
               PROVE  ~OnBar(ball', bar_pos)
    BY DEF Next, vars
  <2>1. PICK colli :
          /\ ~OnBar(Rest(colli), bar_pos)
          /\ \E raise \in {0, SCORE_VEL_CHANGE} : ball' = BallAfter(colli, raise)
    BY RoundRests
  <2>2. ball'.x = Rest(colli).x /\ ball'.y = Rest(colli).y
    BY <2>1 DEF BallAfter
  <2> QED
    BY <2>1, <2>2, SamePlace
<1> QED
  BY <1>1, ClearInvariant, PTL DEF Spec, OnlyBarEnters

(* A bar inside its limits that has a ball beside it stays on its side of  *)
(* the ball: it is moved by no more than its width, and stopped where it   *)
(* would have the middle of the ball over it.                              *)
LEMMA MovedBarStops ==
  ASSUME NEW pos \in BAR_W \div 2 + 1 .. BZ_W - BAR_W \div 2 - 1, NEW d \in Moves,
         NEW b, b.x \in Int, b.y \in Int, ~OnBarEdge(b, pos), b.y + BALL_R >= BarTop
  PROVE  /\ BarMoved(pos, d, b) \in Int
         /\ \/ b.x - pos > BAR_W \div 2 /\ b.x - BarMoved(pos, d, b) > BAR_W \div 2
            \/ pos - b.x > BAR_W \div 2 /\ BarMoved(pos, d, b) - b.x > BAR_W \div 2
<1> DEFINE h == BAR_W \div 2
           there == Clamped(pos + d)
<1>1. d \in Int /\ d <= BAR_W /\ -d <= BAR_W
  BY BarBallAssumption, Sizes DEF Moves
<1>2. /\ h \in Nat /\ BAR_W <= 2 * h + 1 /\ pos \in Int
      /\ BALL_R \in Nat /\ BALL_R > 0
  BY BarBallAssumption, Sizes
<1>3. /\ there \in Int
      /\ d >= 0 => pos <= there /\ there <= pos + d
      /\ d <= 0 => pos + d <= there /\ there <= pos
  BY <1>1, Sizes DEF Clamped, Upper, Lower
<1>4. /\ BarMoved(pos, d, b) =
           IF d # 0 /\ OnBarEdge(b, there) THEN b.x - Sign(d) * (BALL_R + h) ELSE there
      /\ Sign(d) = IF d >= 0 THEN 1 ELSE -1
  BY DEF BarMoved, Pushed, Sign
<1>5. /\ \/ b.x - pos > h
         \/ pos - b.x > h
      /\ OnBarEdge(b, there) <=> b.x - there <= h /\ there - b.x <= h
  BY <1>2, <1>3 DEF OnBarEdge, Abs, Sign
<1> HIDE DEF h, there
<1>6. CASE b.x - pos > h
  <2>1. CASE d <= 0
    <3>1. b.x - there > h /\ BarMoved(pos, d, b) = there
      BY <1>1, <1>2, <1>3, <1>4, <1>5, <1>6, <2>1
    <3> QED
      BY <1>3, <1>6, <3>1 DEF h
  <2>2. CASE d > 0 /\ OnBarEdge(b, there)
    <3>1. BarMoved(pos, d, b) = b.x - (BALL_R + h)
      BY <1>1, <1>2, <1>4, <2>2
    <3> QED
      BY <1>2, <1>6, <3>1 DEF h
  <2>3. CASE d > 0 /\ ~OnBarEdge(b, there)
    <3>1. there - b.x <= h
      <4>1. there <= pos + d /\ d <= 2 * h + 1
        BY <1>1, <1>2, <1>3, <2>3, Sizes
      <4> QED
        BY <1>1, <1>2, <1>3, <1>6, <4>1
    <3>2. b.x - there > h /\ BarMoved(pos, d, b) = there
      BY <1>2, <1>3, <1>4, <1>5, <2>3, <3>1
    <3> QED
      BY <1>3, <1>6, <3>2 DEF h
  <2> QED
    BY <1>1, <2>1, <2>2, <2>3
<1>7. CASE pos - b.x > h
  <2>1. CASE d >= 0
    <3>1. there - b.x > h /\ BarMoved(pos, d, b) = there
      BY <1>1, <1>2, <1>3, <1>4, <1>5, <1>7, <2>1
    <3> QED
      BY <1>3, <1>7, <3>1 DEF h
  <2>2. CASE d < 0 /\ OnBarEdge(b, there)
    <3>1. BarMoved(pos, d, b) = b.x + (BALL_R + h)
      BY <1>1, <1>2, <1>4, <2>2
    <3> QED
      BY <1>2, <1>7, <3>1 DEF h
  <2>3. CASE d < 0 /\ ~OnBarEdge(b, there)
    <3>1. b.x - there <= h
      <4>1. pos + d <= there /\ -d <= 2 * h + 1
        BY <1>1, <1>2, <1>3, <2>3, Sizes
      <4> QED
        BY <1>1, <1>2, <1>3, <1>7, <4>1
    <3>2. there - b.x > h /\ BarMoved(pos, d, b) = there
      BY <1>2, <1>3, <1>4, <1>5, <2>3, <3>1
    <3> QED
      BY <1>3, <1>7, <3>2 DEF h
  <2> QED
    BY <1>1, <2>1, <2>2, <2>3
<1> QED
  BY <1>5, <1>6, <1>7

(* Between rounds no bar inside its limits is moved through the ball:      *)
(* 461-464 leave a bar that rests where it is, and 494-500 look at the     *)
(* ball after any other move.                                              *)
THEOREM BarBallStops ==
  Spec => BarStopsAtBall
<1>1. Clear /\ [Next]_vars =>
        [BarInside /\ ~OnBar(ball, bar_pos) =>
           \A pos \in Lower(bar_pos, bar_pos') .. Upper(bar_pos, bar_pos') :
             ~OnBarEdge(ball', pos)]_vars
  <2> SUFFICES ASSUME Clear, Round, BarInside, ~OnBar(ball, bar_pos),
                      NEW pos \in Lower(bar_pos, bar_pos') .. Upper(bar_pos, bar_pos'),
                      OnBarEdge(ball', pos)
               PROVE  FALSE
    BY DEF Next, vars
  <2>1. PICK colli :
          /\ Rest(colli).x \in Int /\ Rest(colli).y \in Int
          /\ ~OnBar(Rest(colli), bar_pos)
          /\ \E raise \in {0, SCORE_VEL_CHANGE} : ball' = BallAfter(colli, raise)
          /\ \E d \in Moves : bar_pos' = BarMoved(bar_pos, d, Rest(colli))
    BY RoundRests
  <2>2. ball'.x = Rest(colli).x /\ ball'.y = Rest(colli).y
    BY <2>1 DEF BallAfter
  <2>3. ~OnBarEdge(Rest(colli), bar_pos)
    BY <2>1 DEF OnBar
  <2>4. Rest(colli).y + BALL_R >= BarTop
    BY <2>2 DEF OnBarEdge
  <2> DEFINE x == Rest(colli).x
  <2>5. /\ bar_pos' \in Int /\ bar_pos \in Int /\ x \in Int
        /\ \/ x - bar_pos > BAR_W \div 2 /\ x - bar_pos' > BAR_W \div 2
           \/ bar_pos - x > BAR_W \div 2 /\ bar_pos' - x > BAR_W \div 2
    BY <2>1, <2>3, <2>4, MovedBarStops, Sizes DEF BarInside
  <2>6. Abs(x - pos) <= BAR_W \div 2
    BY <2>2 DEF OnBarEdge
  <2> DEFINE h == BAR_W \div 2
             to == bar_pos'
  <2>7. h \in Nat /\ to \in Int /\ bar_pos \in Int /\ x \in Int
    BY <2>5, Sizes
  <2>8. pos \in Int /\ (bar_pos <= pos \/ to <= pos) /\ (pos <= bar_pos \/ pos <= to)
    BY <2>7 DEF Lower, Upper
  <2>9. (x - bar_pos > h /\ x - to > h) \/ (bar_pos - x > h /\ to - x > h)
    BY <2>5
  <2>10. x - pos <= h /\ pos - x <= h
    <3> HIDE DEF x, h, to
    <3>1. Abs(x - pos) <= h
      BY <2>6 DEF x, h
    <3> QED
      BY <2>7, <2>8, <3>1 DEF Abs, Sign
  <2> HIDE DEF x, h, to
  <2> QED
    BY <2>7, <2>8, <2>9, <2>10
<1> QED
  BY <1>1, ClearInvariant, PTL DEF Spec, BarStopsAtBall
=============================================================================
