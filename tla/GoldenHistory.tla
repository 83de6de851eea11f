--------------------------- MODULE GoldenHistory ----------------------------
(***************************************************************************)
(* GameRound with a history variable: how many multiples of THRESH_GOLDEN  *)
(* the score had passed when each column last became golden.               *)
(***************************************************************************)
EXTENDS GameRoundProperties

VARIABLE taken_at

InitH == Init /\ taken_at = [c \in Columns |-> 0]

NextH ==
  /\ Next
  /\ taken_at' = [c \in Columns |->
       IF golden'[c] /\ ~golden[c] THEN score \div THRESH_GOLDEN ELSE taken_at[c]]

SpecH == InitH /\ [][NextH]_<<vars, taken_at>>

\* main_model.c:213 "Release the golden ressource if score reached": a column
\* gives the golden resource back only when the score has passed a multiple of
\* THRESH_GOLDEN since the column took it.
ReleasedByScore ==
  \A c \in Columns : pc[c] = "give_back" => taken_at[c] < score \div THRESH_GOLDEN

=============================================================================
