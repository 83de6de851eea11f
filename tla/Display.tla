------------------------------ MODULE Display -------------------------------
(***************************************************************************)
(* thread_display on MicroBlaze 0 (main_display.c, display.c) and the TFT  *)
(* controller it drives (xtft.c).  Each message becomes a picture in the   *)
(* frame buffer that is not to be scanned; only what differs from the      *)
(* message drawn in the same buffer two pictures ago is painted.           *)
(*                                                                         *)
(* A message is a sequence of words: the state of the game, the position   *)
(* of the bar and of the ball (one value for the three coordinates: the    *)
(* bar and the ball are erased and drawn by the same two steps), and one   *)
(* word per brick.  The numbers and captions, which are painted over in    *)
(* full in every picture, are left out.                                    *)
(***************************************************************************)
EXTENDS Integers

CONSTANTS
  NB_BRICKS,   \* bricks of the wall
  Positions,   \* where the bar and the ball can be
  START        \* where data_prev says they are before the first picture

Frames == 0 .. 1               \* NB_FRAMES is 2
Wall == 1 .. NB_BRICKS
Labels == {"BROKEN", "NORMAL", "GOLDEN"}
Texts == {"WON", "LOST", "PAUSED"}

StateOf(m) == m[1]
PosOf(m) == m[2]
LabelOf(m, b) == m[2 + b]

VARIABLES
  data,         \* the message received last
  dpc,          \* where thread_display is
  frames_cnt,   \* the buffer it draws in
  data_prev,    \* per buffer, the message drawn there
  canvas,       \* per buffer, what the pixels show
  address,      \* the controller's address register: the buffer to scan next
  scanned,      \* the buffer on the monitor
  vsync         \* the controller's status bit: a picture has been scanned out

own == <<dpc, frames_cnt, data_prev, canvas>>
tft == <<address, scanned, vsync>>

NextCnt == (2 + frames_cnt - 1) % 2

(* A picture: the colour of each brick, the places where a bar and a ball  *)
(* are painted, the texts of the message box.                              *)
Pictures ==
  [brick : [Wall -> Labels], sprites : SUBSET Positions, texts : SUBSET Texts]

Blank ==
  [brick |-> [b \in Wall |-> "BROKEN"], sprites |-> {}, texts |-> {}]

(* draw_bricks: any label but these two is painted in the background colour*)
Colour(w) == IF w \in {"NORMAL", "GOLDEN"} THEN w ELSE "BROKEN"

(* A picture that shows exactly message m.                                 *)
PictureOf(m) ==
  [brick |-> [b \in Wall |-> Colour(LabelOf(m, b))], sprites |-> {PosOf(m)},
   texts |-> {StateOf(m)} \cap Texts]

(* The buffers hold what an earlier program left.  data_prev is on a stack *)
(* in .bss, which the start-up code clears: WAITING and BROKEN are 0.      *)
Init(blank, remnant) ==
  /\ dpc = "clear"
  /\ frames_cnt = 0
  /\ data_prev = [f \in Frames |-> blank]
  /\ canvas = [f \in Frames |-> remnant]
  /\ address = 0 /\ scanned = 0 /\ vsync = FALSE

Goto(from, to) == dpc = from /\ dpc' = to

Paint(picture) == canvas' = [canvas EXCEPT ![frames_cnt] = picture]

(* Clears every buffer and sets where the bar and the ball are taken to be.*)
Clear ==
  /\ Goto("clear", "read")
  /\ canvas' = [f \in Frames |-> Blank]
  /\ data_prev' = [f \in Frames |-> [data_prev[f] EXCEPT ![2] = START]]
  /\ UNCHANGED <<frames_cnt, tft>>

EraseOther ==
  /\ Goto("erase", "draw")
  /\ Paint([canvas[frames_cnt] EXCEPT !.sprites = @ \ {PosOf(data_prev[NextCnt])}])
  /\ UNCHANGED <<frames_cnt, data_prev, tft>>

(* A message is in: the bar and the ball of this buffer's last message are *)
(* painted white ...                                                       *)
Erase ==
  /\ Goto("erase", "draw")
  /\ Paint([canvas[frames_cnt] EXCEPT !.sprites = @ \ {PosOf(data_prev[frames_cnt])}])
  /\ UNCHANGED <<frames_cnt, data_prev, tft>>

(* ... then a brick whose label differs gets its colour, bar and ball are  *)
(* painted, and in display_msg the old text is painted white and the new   *)
(* one over it, if the state has changed; WAITING and RUNNING have no text.*)
DrawOver(prev) ==
  LET bricks == [b \in Wall |->
                   IF LabelOf(data, b) = LabelOf(prev, b)
                     THEN canvas[frames_cnt].brick[b]
                     ELSE Colour(LabelOf(data, b))]
      texts == IF StateOf(data) = StateOf(prev)
                 THEN canvas[frames_cnt].texts
                 ELSE (canvas[frames_cnt].texts \ {StateOf(prev)})
                        \cup ({StateOf(data)} \cap Texts)
  IN /\ Goto("draw", "wait")
     /\ Paint([brick |-> bricks, texts |-> texts,
               sprites |-> canvas[frames_cnt].sprites \cup {PosOf(data)}])
     /\ data_prev' = [data_prev EXCEPT ![frames_cnt] = data]
     /\ UNCHANGED <<frames_cnt, tft>>

DrawTextAfterCopy == DrawOver([data_prev[frames_cnt] EXCEPT ![1] = data[1]])
Draw == DrawOver(data_prev[frames_cnt])

(* XTft_GetVsyncStatus is polled until it finds the bit set.               *)
WaitVsync ==
  /\ vsync
  /\ Goto("wait", "set")
  /\ UNCHANGED <<frames_cnt, data_prev, canvas, tft>>

SetBeforeSwitch ==
  /\ Goto("set", "read")
  /\ frames_cnt' = NextCnt
  /\ address' = frames_cnt'
  /\ UNCHANGED <<data_prev, canvas, scanned, vsync>>

(* XTft_SetFrameBaseAddr; the next picture goes to the other buffer.       *)
SetFrameBaseAddr ==
  /\ Goto("set", "read")
  /\ address' = frames_cnt
  /\ frames_cnt' = NextCnt
  /\ UNCHANGED <<data_prev, canvas, scanned, vsync>>

Thread == Clear \/ Erase \/ Draw \/ WaitVsync \/ SetFrameBaseAddr

-----------------------------------------------------------------------------
(* The controller: at the end of a picture it sets the status bit, then it *)
(* loads the address register, clears the bit and scans the next picture.  *)

Vsync ==
  /\ ~vsync
  /\ vsync' = TRUE
  /\ UNCHANGED <<own, address, scanned>>

LoadAddress ==
  /\ vsync
  /\ vsync' = FALSE
  /\ scanned' = address
  /\ UNCHANGED <<own, address>>

Controller == Vsync \/ LoadAddress

-----------------------------------------------------------------------------
Painting == dpc \in {"erase", "draw"}

=============================================================================
