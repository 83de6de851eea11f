------------------------- MODULE GameRoundProperties ------------------------
(***************************************************************************)
(* What the rounds of GameRound must satisfy.                              *)
(***************************************************************************)
EXTENDS GameRound

ColumnSteps ==
  {"start_wait", "start_post", "golden", "give_back", "relabel", "check",
   "report", "arb_wait", "arb_post", "verdict", "lock", "break", "unlock",
   "surrender", "exited"}

BallSteps ==
  {"announce", "snapshot", "test", "retake", "open", "own", "collect", "pick",
   "close", "confirm", "boost", "prepare", "send"}

Collisions ==
  [idx : Columns \cup {Nobody}, happened : BOOLEAN, iter : 0 .. MAX_ITER]

Messages == [game_state : GameStates, score : Nat, bricks : Wall]

\* Every variable keeps its type; what a column reports and what the message
\* carries index existing bricks.
TypeOK ==
  /\ pc \in [Columns -> ColumnSteps]
  /\ bpc \in BallSteps
  /\ sem \in [Semaphores -> Int]
  /\ check_done \in [Columns -> Int]
  /\ blocked \in [Threads -> {"none", "start_check", "arbitration_done", "check_done"}]
  /\ mtx_bricks \in Columns \cup {Nobody}
  /\ game_state \in GameStates
  /\ bricks \in Wall
  /\ score \in Nat
  /\ remaining_bricks \in [Columns -> Int]
  /\ tot_remaining_bricks \in Int
  /\ golden \in [Columns -> BOOLEAN]
  /\ hit_row \in [Columns -> Rows]
  /\ column_colli \in [Columns -> Collisions]
  /\ next_colli \in Collisions
  /\ model_state \in Messages
  /\ i \in 0 .. NB_COLUMNS
  /\ reach \in {"none", "bricks", "bar"}
  /\ moving \in BOOLEAN
  /\ boosts \in Nat

Standing(w, c) == {r \in Rows : w[c][r] # "BROKEN"}

-----------------------------------------------------------------------------
(* The golden resource.                                                    *)

Holders == {c \in Columns : golden[c] /\ pc[c] # "exited"}

\* The golden resource is neither lost nor forged: the free units and the
\* columns that hold one add up to NB_GOLDEN_COLS, also when a golden column
\* runs out of bricks and ends its thread (main_model.c:215-226, 322-323).
GoldenConserved ==
  /\ sem["golden_brick"] >= 0
  /\ sem["golden_brick"] + Cardinality(Holders) = NB_GOLDEN_COLS

\* Outside the relabelling loops (218-221, 227-230) a column's standing bricks
\* are golden exactly when its thread holds the resource.
LabelsMatchHolders ==
  \A c \in Columns : pc[c] # "relabel" =>
    \A r \in Standing(bricks, c) : bricks[c][r] = "GOLDEN" <=> golden[c]

\* The wall copied for the display (346) is never torn: no column in it mixes
\* normal and golden bricks, and no more than NB_GOLDEN_COLS columns are golden,
\* although relabelling takes no mutex and a column gives the resource back
\* before it repaints its bricks.
ShownGolden ==
  {c \in Columns : \E r \in Rows : model_state.bricks[c][r] = "GOLDEN"}

MessageNotTorn ==
  /\ Cardinality(ShownGolden) <= NB_GOLDEN_COLS
  /\ \A c \in ShownGolden, r \in Rows : model_state.bricks[c][r] # "NORMAL"

-----------------------------------------------------------------------------
(* The round.                                                              *)

\* The bricks broken since the snapshot at the beginning of the round.
BrokenSinceSnapshot ==
  {b \in Columns \X Rows :
     /\ b[2] \in Standing(model_state.bricks, b[1])
     /\ b[2] \notin Standing(bricks, b[1])}

\* When the ball thread resumes after the verdict (438), the round has broken
\* the brick of the retained collision, and no other; no brick when the ball
\* hit something else or nothing.
RoundBreaksTheHitBrick ==
  bpc = "boost" /\ CanRun(Ball) =>
    BrokenSinceSnapshot =
      IF next_colli.happened /\ next_colli.idx # Nobody
      THEN {<<next_colli.idx, hit_row[next_colli.idx]>>} ELSE {}

\* The retained collision is the soonest of those the columns that still had
\* bricks reported in this round: no stale, missing or later report wins.
SoonestWins ==
  bpc = "confirm" =>
    \A c \in Columns : Standing(model_state.bricks, c) # {} =>
      /\ pc[c] \in {"arb_wait", "arb_post"}
      /\ column_colli[c].happened =>
           next_colli.happened /\ next_colli.iter <= column_colli[c].iter

\* No column is still looking for collisions while another acts on a verdict.
Checking(c) == pc[c] \in {"start_post", "golden", "give_back", "relabel",
                          "check", "report"} /\ blocked[c] = "none"
Acting(c) == pc[c] \in {"verdict", "lock", "break", "unlock", "surrender"}

PhasesDoNotMix ==
  \A c, d \in Columns : ~(Checking(c) /\ Acting(d))

\* remaining_bricks and tot_remaining_bricks, both unsigned in the code, count
\* the bricks that stand (so neither wraps below zero), and
\* the score is worth one or two points for each brick broken.
BooksBalance ==
  LET standing == {b \in Columns \X Rows : b[2] \in Standing(bricks, b[1])}
      broken == NB_COLUMNS * NB_ROWS - Cardinality(standing)
  IN /\ \A c \in Columns : remaining_bricks[c] = Cardinality(Standing(bricks, c))
     /\ tot_remaining_bricks = Cardinality(standing)
     /\ score \in broken * SCORE_INC_NORMAL .. broken * SCORE_INC_GOLDEN

\* Between rounds the speed has been raised once for every multiple of the step
\* the score has passed: no crossing is missed or counted twice (440-444).
OneBoostPerStep ==
  bpc = "snapshot" => boosts = score \div SCORE_VEL_STEP

\* The threads never all wait on one another.
SomeThreadReady == \E t \in Threads : Ready(t)

\* A round never opens on an empty wall, and the game is only won on one.
WonOnEmptyWall ==
  /\ bpc = "open" => tot_remaining_bricks > 0
  /\ game_state = "WON" => tot_remaining_bricks = 0

\* The message says WON exactly when its own wall is empty, although the wall is
\* copied at the beginning of a round (346) and the state after it (514).
MessageTellsTheEnd ==
  bpc = "send" =>
    (model_state.game_state = "WON" <=>
       \A c \in Columns : Standing(model_state.bricks, c) = {})

\* A game that is won or lost stays so, whatever is pressed and whatever the
\* round in progress still does.
EndIsFinal ==
  [][(game_state \in {"WON", "LOST"}) => (game_state' = game_state)]_vars

\* Every round that opens ends with a message to the display.
RoundEnds == bpc = "open" ~> bpc = "send"

\* Breaking the last brick wins the game.
EmptyWallWins == tot_remaining_bricks = 0 ~> game_state = "WON"

-----------------------------------------------------------------------------
(* What the comments of the code say and the code does not do.             *)

\* main_model.c:352 "If the game just started, copy the random angle": a round
\* is never played with the direction of the launch still missing.
LaunchedBeforeRound ==
  bpc \in {"open", "own", "collect", "pick", "close", "confirm", "boost"} => moving

=============================================================================
