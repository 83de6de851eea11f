---------------------------- MODULE SystemReset -----------------------------
(***************************************************************************)
(* The two processors of System, either of which may be reset at any time. *)
(* A reset starts its program anew (main_prog, XMbox_CfgInitialize): its   *)
(* variables are cleared, the words in the mailbox and the registers of    *)
(* the video controller stay as they are.                                  *)
(***************************************************************************)
EXTENDS System

ResetDisplay ==
  /\ dpc' = "clear"
  /\ frames_cnt' = 0
  /\ data_prev' = [f \in Screen!Frames |-> ZeroMessage]
  /\ in' = ZeroMessage
  /\ nin' = 0
  /\ UNCHANGED <<fifo, out, writing, nout, canvas, address, scanned, vsync>>

ResetModel ==
  /\ out' = FirstMessage
  /\ writing' = FALSE
  /\ nout' = 0
  /\ UNCHANGED <<fifo, in, nin, display>>

SpecReset == Init /\ [][Next \/ ResetDisplay \/ ResetModel]_vars

(* "Can reset any of them at anytime" (presentation.pdf, slide 6): what the*)
(* display takes for a message, and is about to draw, is one: the state of *)
(* the game, then positions, then bricks.                                  *)
DrawsOnlyMessages ==
  dpc = "erase" =>
    \E t \in Game!GameStates, p \in Positions, w \in Walls : in = Message(t, p, w)
=============================================================================
