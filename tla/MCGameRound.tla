---------------------------- MODULE MCGameRound -----------------------------
(* Instances of GameRound for TLC; the sizes are in the cfg files.         *)
EXTENDS GameRoundProperties
=============================================================================
