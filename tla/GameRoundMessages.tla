-------------------------- MODULE GameRoundMessages --------------------------
(***************************************************************************)
(* GameRound with a history variable, for the messages the ball thread     *)
(* fills: whether it has stored a state into model_state at all (514).     *)
(* Before that model_state holds the garbage of its stack, and the display *)
(* has the message its own initialisation left, WAITING with all bricks.   *)
(***************************************************************************)
EXTENDS GameRoundRefinement

VARIABLE stored

\* The two steps of the ball thread that fill the message: it copies the wall at
\* the start of a round (346), and the state at its end (514).
Copying == bpc = "snapshot" /\ bpc' # bpc
Storing == bpc = "prepare" /\ bpc' # bpc

InitH == Init /\ stored = FALSE

NextH == Next /\ stored' = IF Storing THEN TRUE ELSE stored

SpecH == InitH /\ [][NextH]_<<vars, stored>>

-----------------------------------------------------------------------------
M == INSTANCE Messages

WallOf(m) == [b \in Columns \X Rows |-> m.bricks[b[1]][b[2]]]

\* The state of the message before.
Last == IF stored THEN model_state.game_state ELSE "WAITING"

(* The wall a round copies follows the message before, and the state it    *)
(* ends with follows that message and this wall, also when it is the same  *)
(* state; nothing else writes the message.                                 *)
MessageFollows ==
  LET v == WallOf(model_state)
      w == WallOf(model_state)'
      t == model_state'.game_state
  IN /\ IF Copying THEN M!WallFollows(Last, v, w) ELSE w = v
     /\ IF Storing THEN M!StateFollows(Last, w, t) ELSE t = model_state.game_state

\* Two messages in turn (346, 514) say what the display may rely on: at most one
\* brick has gone, in a game that was played; WON comes with the empty wall and
\* only then; a game that is over stays so and no game goes back to WAITING.
MessagesFollow == [][MessageFollows]_<<vars, stored>>

=============================================================================
