------------------------------ MODULE Messages ------------------------------
(***************************************************************************)
(* What two messages of the model (Model_state) that follow each other may *)
(* say.  The ball thread first copies the wall into model_state, plays the *)
(* round, and copies the state of the game at the end; so a brick that the *)
(* wall has lost since the message before was hit in a round before that   *)
(* message, and a state differs by what the buttons, the fall of the ball  *)
(* or the empty wall did since.  A wall maps the bricks to their labels.   *)
(***************************************************************************)
EXTENDS Integers, FiniteSets

GameStates == {"WAITING", "RUNNING", "WON", "LOST", "PAUSED"}
Labels == {"BROKEN", "NORMAL", "GOLDEN"}

Played(s) == s \in {"RUNNING", "PAUSED"}
Over(s) == s \in {"WON", "LOST"}

StandingIn(w) == {b \in DOMAIN w : w[b] # "BROKEN"}

(* The wall of the next message, after one with state s and wall v.        *)
WallFollows(s, v, w) ==
  /\ StandingIn(w) \subseteq StandingIn(v)
  /\ Cardinality(StandingIn(v) \ StandingIn(w)) <= 1
  /\ StandingIn(w) # StandingIn(v) => Played(s)
  /\ w # v => s # "WAITING"

(* The state of the next message, which has wall w, after one with state s.*)
StateFollows(s, w, t) ==
  /\ t = "WON" <=> StandingIn(w) = {}
  /\ Over(s) => t = s
  /\ t = "WAITING" => s = "WAITING"

=============================================================================
