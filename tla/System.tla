------------------------------- MODULE System -------------------------------
(***************************************************************************)
(* Both processors at their mailbox: the ball thread of MicroBlaze 1 sends *)
(* one message after another, blocked in the mailbox while it is full, and *)
(* the display thread of MicroBlaze 0 receives and draws them.  What the   *)
(* messages say is kept to what Messages allows two of them to say in turn *)
(* (GameRoundRefinement: MessagesFollow).                                  *)
(***************************************************************************)
EXTENDS Integers, Sequences

CONSTANTS
  NB_BRICKS,   \* bricks of the wall
  DEPTH,       \* words the mailbox holds
  Positions,   \* where the bar and the ball can be
  START        \* where they are before the first round

(* The mailbox is shorter than a message: 16 words against 84.             *)
ASSUME SystemAssumption ==
  /\ NB_BRICKS \in Nat \ {0}
  /\ DEPTH \in 1 .. NB_BRICKS + 1
  /\ START \in Positions

VARIABLES
  fifo, out, writing, nout, in, nin,     \* as in Mailbox
  dpc, frames_cnt, data_prev, canvas, address, scanned, vsync  \* as in Display

mailbox == <<fifo, out, writing, nout, in, nin>>
display == <<dpc, frames_cnt, data_prev, canvas, address, scanned, vsync>>
vars == <<mailbox, display>>

WORDS == NB_BRICKS + 2

Game == INSTANCE Messages
Box == INSTANCE Mailbox
Screen == INSTANCE Display WITH data <- in

Message(state, position, wall) == <<state, position>> \o wall
WallOf(m) == SubSeq(m, 3, WORDS)

All(label) == [k \in 1 .. NB_BRICKS |-> label]
Walls == [1 .. NB_BRICKS -> Game!Labels]

Words == Game!GameStates \cup Positions \cup Game!Labels

(* What a game before a reset may have left in the frame buffers.          *)
Remnant ==
  [brick |-> All("NORMAL"), sprites |-> {START}, texts |-> {"PAUSED"}]

FirstMessage == Message("WAITING", START, All("NORMAL"))
ZeroMessage == Message("WAITING", START, All("BROKEN"))

Init ==
  /\ Box!Init(FirstMessage, ZeroMessage)
  /\ Screen!Init(ZeroMessage, Remnant)

-----------------------------------------------------------------------------
(* The model.                                                              *)

(* A round has been played: its message is prepared and its sending begins.*)
Send ==
  /\ ~writing
  /\ \E w \in Walls :
       /\ Game!WallFollows(out[1], WallOf(out), w)
       /\ \E t \in Game!GameStates :
            /\ Game!StateFollows(out[1], w, t)
            /\ \E p \in IF Game!Over(out[1]) \/ t = "WAITING" THEN {out[2]} ELSE Positions :
                 Box!StartWrite(Message(t, p, w))
  /\ UNCHANGED display

WriteWord ==
  /\ Box!WriteWord
  /\ UNCHANGED display

-----------------------------------------------------------------------------
(* The display.                                                            *)

ReadWord ==
  /\ dpc = "read"
  /\ Box!ReadWord
  /\ dpc' = IF nin' > 0 THEN "read" ELSE "erase"
  /\ UNCHANGED <<frames_cnt, data_prev, canvas, address, scanned, vsync>>

Draw ==
  /\ Screen!Thread
  /\ UNCHANGED mailbox

Scan ==
  /\ Screen!Controller
  /\ UNCHANGED mailbox

Next ==
  \/ Send \/ WriteWord
  \/ ReadWord \/ Draw \/ Scan

Spec == Init /\ [][Next]_vars

(* The ball thread comes back after any round (GameRound: RoundEnds), both *)
(* processors keep running their loops, the controller scans picture after *)
(* picture, and the display's poll of the status bit, which is on and off  *)
(* for ever, finds it on at last.                                          *)
Fairness ==
  /\ WF_vars(Send \/ WriteWord)
  /\ SF_vars(ReadWord \/ Draw)
  /\ WF_vars(Scan)

FairSpec == Spec /\ Fairness

-----------------------------------------------------------------------------
(* Properties.                                                             *)

TypeOK ==
  /\ fifo \in Seq(Words) /\ Len(fifo) <= DEPTH
  /\ out \in [1 .. WORDS -> Words] /\ in \in [1 .. WORDS -> Words]
  /\ writing \in BOOLEAN /\ nout \in 0 .. WORDS /\ nin \in 0 .. WORDS - 1
  /\ writing => nout < WORDS
  /\ dpc \in {"clear", "read", "erase", "draw", "wait", "set"}
  /\ frames_cnt \in Screen!Frames
  /\ data_prev \in [Screen!Frames -> [1 .. WORDS -> Words]]
  /\ canvas \in [Screen!Frames -> Screen!Pictures]
  /\ address \in Screen!Frames /\ scanned \in Screen!Frames
  /\ vsync \in BOOLEAN

(* Every word travels in its place: the two loops of xmbox.c make a        *)
(* channel of whole messages out of a FIFO that holds none, and the game   *)
(* is never more than one message ahead of the one being drawn.            *)
Ch == INSTANCE Channel WITH
        fresh <- writing /\ nout = 0, offer <- out,
        waiting <- Box!Waiting, taken <- Box!Taken
CarriesMessages == Ch!Spec

(* A buffer that is not being painted shows exactly the message painted in *)
(* it last, although only differences were painted: no brick too many or   *)
(* too few, no second ball, no text of an earlier state.                   *)
PictureIsExact ==
  \A f \in {0, 1} :
    dpc # "clear" /\ ~(Screen!Painting /\ f = frames_cnt) =>
      \/ canvas[f] = Screen!PictureOf(data_prev[f])
      \/ canvas[f] = Screen!Blank

(* Message n is what the game may say after message m.                     *)
Follows(m, n) ==
  /\ Game!WallFollows(m[1], WallOf(m), WallOf(n))
  /\ Game!StateFollows(m[1], WallOf(n), n[1])
  /\ Game!Over(m[1]) \/ n[1] = "WAITING" => n[2] = m[2]

(* Each picture tells what comes next in the game after the picture in the *)
(* other buffer, the first one aside: the display misses no message, draws *)
(* none twice, and takes no part of one for part of another (main_display.c*)
(* 86-124 with the loops of xmbox.c and 346-514 of main_model.c).          *)
PicturesFollow ==
  Screen!Painting =>
    \/ data_prev[Screen!NextCnt] = ZeroMessage
    \/ Follows(data_prev[Screen!NextCnt], in)

(* The controller never loads the address of a buffer that is being        *)
(* painted, the very first picture aside.                                  *)
LoadsFinishedPicture ==
  [][scanned' # scanned => ~(Screen!Painting /\ scanned' = frames_cnt)]_vars

Standing(f) == Game!StandingIn(canvas[f].brick)

(* On the monitor the wall only loses bricks once it is there, also when   *)
(* the buffers change: a broken brick never comes back.                    *)
BricksStayBroken ==
  [][dpc # "clear" /\ Standing(scanned) # {} /\ dpc' = dpc
       => Standing(scanned') \subseteq Standing(scanned)]_vars

(* The end of the game gets to the monitor and stays there.                *)
EndReachesMonitor ==
  Game!Over(out[1]) ~> [](canvas[scanned].texts = {out[1]})
=============================================================================
