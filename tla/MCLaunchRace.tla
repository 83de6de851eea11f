---------------------------- MODULE MCLaunchRace ----------------------------
(***************************************************************************)
(* GameRound restricted to the launches whose stack happened to hold       *)
(* WAITING where model_state.game_state lies: the uninitialised read of    *)
(* line 353 is harmless, what remains is the order of the button and the   *)
(* ball thread.                                                            *)
(***************************************************************************)
EXTENDS GameRoundProperties

InitW == Init /\ model_state.game_state = "WAITING"

SpecW == InitW /\ [][Next]_vars
=============================================================================
