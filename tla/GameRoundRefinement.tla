------------------------ MODULE GameRoundRefinement -------------------------
(***************************************************************************)
(* The rounds of GameRound, with their threads and semaphores, play the    *)
(* game of Breakout.                                                       *)
(***************************************************************************)
EXTENDS GameRoundProperties

BricksOf(w) == {b \in Columns \X Rows : b[2] \in Standing(w, b[1])}

B == INSTANCE Breakout WITH
       standing <- BricksOf(bricks),
       shown <- BricksOf(model_state.bricks),
       gold <- Holders

\* Every game of the threads of main_model.c is a game of Breakout: at most one
\* brick breaks between two messages, never before the start, in a round that
\* loses or after the end; points match the gold; the message shows no golden
\* column without bricks, and the first one with an empty wall says WON.
PlaysBreakout == B!Spec

=============================================================================
