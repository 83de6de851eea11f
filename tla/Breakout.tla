------------------------------ MODULE Breakout ------------------------------
(***************************************************************************)
(* The game as its player sees it: a wall, a score, golden columns, and    *)
(* one picture after another.  There are no threads, rounds or semaphores: *)
(* between two pictures at most one brick breaks, and nothing happens to   *)
(* the wall unless the game is being played.                               *)
(***************************************************************************)
EXTENDS Integers, FiniteSets

CONSTANTS NB_COLUMNS, NB_ROWS, NB_GOLDEN_COLS

Bricks == (0 .. NB_COLUMNS - 1) \X (0 .. NB_ROWS - 1)

VARIABLES
  standing,    \* the bricks of the wall
  shown,       \* the bricks of the next picture
  gold,        \* the golden columns
  score,
  game_state

vars == <<standing, shown, gold, score, game_state>>

Init ==
  /\ standing = Bricks
  /\ shown = Bricks
  /\ gold = {}
  /\ score = 0
  /\ game_state = "WAITING"

Played == game_state \in {"RUNNING", "PAUSED"}

\* The player starts, pauses or resumes.
Press ==
  /\ \/ game_state \in {"WAITING", "PAUSED"} /\ game_state' = "RUNNING"
     \/ game_state = "RUNNING" /\ game_state' = "PAUSED"
  /\ UNCHANGED <<standing, shown, gold, score>>

\* A brick breaks, the first since the last picture; gold counts twice.
Strike(b) ==
  /\ Played
  /\ b \in standing
  /\ standing = shown
  /\ standing' = standing \ {b}
  /\ score' = score + IF b[1] \in gold THEN 2 ELSE 1
  /\ UNCHANGED <<shown, gold, game_state>>

\* The ball falls: only in a round that breaks nothing.
Lose ==
  /\ Played
  /\ standing = shown /\ standing # {}
  /\ game_state' = "LOST"
  /\ UNCHANGED <<standing, shown, gold, score>>

\* A column that still has bricks turns golden, if a unit is free.
TakeGold(b) ==
  /\ Played
  /\ b \in standing
  /\ b[1] \notin gold /\ Cardinality(gold) < NB_GOLDEN_COLS
  /\ gold' = gold \cup {b[1]}
  /\ UNCHANGED <<standing, shown, score, game_state>>

ReturnGold(c) ==
  /\ Played
  /\ gold' = gold \ {c}
  /\ UNCHANGED <<standing, shown, score, game_state>>

\* A new picture; on it every golden column has bricks, and an empty wall is won.
Show ==
  /\ \A c \in gold : \E b \in standing : b[1] = c
  /\ shown' = standing
  /\ game_state' = IF standing = {} THEN "WON" ELSE game_state
  /\ UNCHANGED <<standing, gold, score>>

Next ==
  \/ Press \/ Lose \/ Show
  \/ \E b \in Bricks : Strike(b) \/ TakeGold(b)
  \/ \E c \in gold : ReturnGold(c)

Spec == Init /\ [][Next]_vars

=============================================================================
