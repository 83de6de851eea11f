------------------------- MODULE GameRoundEndProofs -------------------------
(***************************************************************************)
(* A game that is won or lost stays so, the rounds play Breakout, and the  *)
(* messages they send follow one another.                                  *)
(* What is at stake is a round that loses the game and still breaks a      *)
(* brick, the last one perhaps: the next snapshot would turn LOST into     *)
(* WON.  A trajectory that reaches the bar reaches no brick.               *)
(***************************************************************************)
EXTENDS GameRoundBooksProofs, GameRoundMessages

\* Reports of this round, and the retained one, hit bricks only within reach.
Reached ==
  /\ bpc \in {"own"} \cup Collecting =>
       \A c \in Columns :
         pc[c] \in BeforeBreak /\ column_colli[c].happened => reach = "bricks"
  /\ bpc \in Deciding /\ next_colli.idx # Nobody => reach = "bricks"

\* A round is played in a started game; the one that loses it goes to the bar.
\* A lost game still has bricks.
Started ==
  /\ bpc \in {"retake", "open", "own"} => game_state \in {"RUNNING", "PAUSED"}
  /\ bpc \in Deciding =>
       \/ game_state \in {"RUNNING", "PAUSED"}
       \/ game_state = "LOST" /\ reach = "bar"
  /\ game_state = "LOST" \/ bpc = "own" => tot_remaining_bricks # 0

FinalInv == BookInv /\ Reached /\ Started

LEMMA InitFinalInv == Init => FinalInv
BY InitBookInv DEF Init, FinalInv, Reached, Started, Deciding, Collecting

LEMMA ReachFrame ==
  ASSUME NEW c \in Columns, Column(c)
  PROVE  UNCHANGED reach
BY DEF Column, roundVars, StartWait, StartPost, GoldenRelease, GoldenGiveBack,
       GoldenTake, GoldenKeep, Relabel, CheckMiss, CheckHit, Report, ArbWait,
       ArbPost, Verdict, LockBricks, Break, UnlockBricks, Surrender

LEMMA ColumnFinalInv ==
  ASSUME FinalInv, NEW c \in Columns, Column(c)
  PROVE  Reached' /\ Started'
<1>1. BookInv /\ PhaseInv
  BY DEF FinalInv, BookInv
<1>2. /\ UNCHANGED <<bpc, next_colli, game_state, reach>>
      /\ \A d \in Columns : d # c => pc'[d] = pc[d]
      /\ ~CheckHit(c) /\ ~CheckMiss(c) => UNCHANGED column_colli
      /\ ~Break(c) => UNCHANGED tot_remaining_bricks
      /\ pc'[c] \in BeforeBreak => pc[c] \in BeforeBreak \/ CheckHit(c) \/ CheckMiss(c)
  BY <1>1, ColumnFrame, ColumnGoes, ReachFrame
<1>3. Reached'
  <2>1. CASE ~CheckHit(c) /\ ~CheckMiss(c)
    BY <1>2, <2>1 DEF FinalInv, Reached
  <2>2. CASE CheckHit(c) \/ CheckMiss(c)
    <3>1. \A d \in Columns : d # c => column_colli'[d] = column_colli[d]
      BY <1>1, <2>2, BookTypes DEF CheckHit, CheckMiss
    <3>2. column_colli'[c].happened => reach = "bricks"
      BY <1>1, <2>2, BookTypes DEF CheckHit, CheckMiss
    <3> QED BY <1>2, <3>1, <3>2 DEF FinalInv, Reached
  <2> QED BY <2>1, <2>2
<1>4. Started'
  <2>1. CASE Break(c)
    <3>1. bpc = "boost" /\ Won(c)
      BY <1>1, <2>1, BreakFinds DEF Break, ColumnStep, CanRun, Ready
    <3>2. reach = "bricks"
      BY <3>1, ThreadIds DEF FinalInv, Reached, Deciding, Won
    <3>3. game_state \in {"RUNNING", "PAUSED"}
      BY <3>1, <3>2 DEF FinalInv, Started, Deciding
    <3> QED BY <1>2, <3>1, <3>3 DEF Started
  <2>2. CASE ~Break(c)
    BY <1>2, <2>2 DEF FinalInv, Started
  <2> QED BY <2>1, <2>2
<1> QED BY <1>3, <1>4

\* Where the ball thread comes from, and what it changes there.
LEMMA BallGoes ==
  ASSUME BallThread
  PROVE  /\ bpc' = "own" => OpenRound
         /\ bpc' = "open" => bpc = "retake"
         /\ bpc' = "retake" => bpc = "test" /\ game_state = "RUNNING"
         /\ bpc' \in Deciding => bpc \in Deciding \/ OwnCheck
         /\ bpc' \in Collecting => bpc \in {"own"} \cup Collecting
         /\ ~OpenRound => UNCHANGED reach
         /\ OpenRound => bpc = "open" /\ bpc' = "own"
         /\ OwnCheck => bpc = "own" /\ bpc' = "collect" /\ next_colli'.idx = Nobody
         /\ PickColumn => bpc = "pick"
         /\ Snapshot => bpc = "snapshot" /\ bpc' = "test"
BY DEF BallThread, BallStep, Deciding, Collecting, AfterColumn, roundVars, Announce,
       Snapshot, BeginRound, SkipRound, RetakeVerdict, OpenRound, OwnCheck, SkipColumn,
       AwaitColumn, PickColumn, CloseRound, Confirm, Boost, Prepare, Send

\* What the ball thread does to the state of the game.
LEMMA BallEnds ==
  ASSUME BallThread
  PROVE  \/ UNCHANGED game_state
         \/ bpc = "snapshot" /\ tot_remaining_bricks = 0 /\ game_state' = "WON"
         \/ OwnCheck /\ reach = "bar" /\ game_state' = "LOST"
BY BallFrame DEF Snapshot, OwnCheck, BallStep

LEMMA BallFinalInv ==
  ASSUME FinalInv, BallThread
  PROVE  Reached' /\ Started'
<1>1. BookInv /\ PhaseInv
  BY DEF FinalInv, BookInv
<1>2. /\ CanRun(Ball)
      /\ UNCHANGED <<pc, column_colli, tot_remaining_bricks>>
      /\ ~OwnCheck /\ ~PickColumn => UNCHANGED next_colli
  BY BallFrame
<1>3. Reached'
  <2>1. CASE OpenRound
    <3>1. bpc = "open" /\ bpc' = "own"
      BY <2>1, BallGoes
    <3>2. \A c \in Columns : pc[c] \notin BeforeBreak
      BY <1>1, <1>2, <3>1, BallAlone DEF BetweenRounds, AtStart, Gone, BeforeBreak
    <3> QED BY <1>2, <3>1, <3>2 DEF Reached, Deciding, Collecting
  <2>2. CASE ~OpenRound
    <3>1. UNCHANGED reach /\ bpc' # "own"
      BY <2>2, BallGoes
    <3>2. bpc' \in Collecting => bpc \in {"own"} \cup Collecting
      BY BallGoes
    <3>3. bpc' \in {"own"} \cup Collecting =>
            \A c \in Columns :
              pc'[c] \in BeforeBreak /\ column_colli'[c].happened => reach' = "bricks"
      BY <1>2, <3>1, <3>2 DEF FinalInv, Reached
    <3>4. bpc' \in Deciding /\ next_colli'.idx # Nobody => reach' = "bricks"
      <4>1. CASE OwnCheck
        BY <4>1, BallGoes
      <4>2. CASE PickColumn
        <5>1. bpc = "pick" /\ i \in Columns /\ AtArbitration(i)
          BY <1>1, <4>2, BallGoes DEF PhaseInv, TypeInv, IndexInv, BookInv, Retained
        <5>2. column_colli[i].happened => reach = "bricks"
          BY <5>1 DEF FinalInv, Reached, Collecting, AtArbitration, BeforeBreak
        <5>3. next_colli.idx # Nobody => reach = "bricks"
          BY <5>1 DEF FinalInv, Reached, Deciding, Collecting
        <5> QED BY <3>1, <4>2, <5>2, <5>3 DEF PickColumn, Sooner
      <4>3. CASE ~OwnCheck /\ ~PickColumn
        <5>1. UNCHANGED next_colli /\ (bpc' \in Deciding => bpc \in Deciding)
          BY <1>2, <4>3, BallGoes
        <5> QED BY <3>1, <5>1 DEF FinalInv, Reached
      <4> QED BY <4>1, <4>2, <4>3
    <3> QED BY <3>3, <3>4 DEF Reached
  <2> QED BY <2>1, <2>2
<1>4. Started'
  <2>1. bpc' = "own" => tot_remaining_bricks # 0
    BY <1>1, BallGoes DEF BookInv, EndInv
  <2>2. CASE OwnCheck
    <3>1. /\ bpc = "own" /\ bpc' = "collect" /\ UNCHANGED reach
          /\ game_state \in {"RUNNING", "PAUSED"} /\ tot_remaining_bricks # 0
      BY <2>2, BallGoes DEF FinalInv, Started, OpenRound, BallStep
    <3> QED BY <1>2, <2>2, <3>1, BallEnds DEF Started, Deciding, Collecting
  <2>3. CASE ~OwnCheck
    <3>1. game_state' = "LOST" => tot_remaining_bricks # 0
      BY <2>3, BallEnds DEF FinalInv, Started
    <3>2. bpc' \in {"retake", "open", "own"} =>
            UNCHANGED game_state /\ game_state \in {"RUNNING", "PAUSED"}
      BY <2>3, BallGoes, BallEnds DEF FinalInv, Started
    <3>3. bpc' \in Deciding => bpc \in Deciding /\ UNCHANGED <<reach, game_state>>
      BY <2>3, BallGoes, BallEnds DEF Deciding, Collecting
    <3> QED BY <1>2, <2>1, <3>1, <3>2, <3>3 DEF FinalInv, Started
  <2> QED BY <2>2, <2>3
<1> QED BY <1>3, <1>4

LEMMA NextFinalInv == FinalInv /\ [Next]_vars => FinalInv'
<1> SUFFICES ASSUME FinalInv, [Next]_vars PROVE Reached' /\ Started'
  BY NextBookInv DEF FinalInv
<1>1. CASE \E c \in Columns : Column(c)
  BY <1>1, ColumnFinalInv
<1>2. CASE BallThread
  BY <1>2, BallFinalInv
<1>3. CASE CenterPress \/ UNCHANGED vars
  <2>1. /\ UNCHANGED <<pc, bpc, column_colli, next_colli, tot_remaining_bricks, reach>>
        /\ game_state' = "LOST" => game_state = "LOST"
        /\ game_state = "LOST" => game_state' = "LOST"
        /\ game_state \in {"RUNNING", "PAUSED"} => game_state' \in {"RUNNING", "PAUSED"}
    BY <1>3 DEF CenterPress, vars, wall, columnVars, roundVars
  <2> QED BY <2>1 DEF FinalInv, Reached, Started
<1> QED BY <1>1, <1>2, <1>3 DEF Next

LEMMA FinalInvariance == Spec => []FinalInv
BY InitFinalInv, NextFinalInv, PTL DEF Spec

LEMMA EndStays ==
  ASSUME FinalInv, [Next]_vars, game_state \in {"WON", "LOST"}
  PROVE  game_state' = game_state
<1>1. CASE \E c \in Columns : Column(c)
  BY <1>1, ColumnFrame DEF FinalInv, BookInv
<1>2. CASE BallThread
  <2>1. bpc = "snapshot" /\ tot_remaining_bricks = 0 => game_state = "WON"
    BY DEF FinalInv, Started
  <2>2. ~OwnCheck
    BY <1>2, BallGoes DEF FinalInv, BookInv, EndInv, Started
  <2> QED BY <1>2, <2>1, <2>2, BallEnds
<1>3. CASE CenterPress \/ UNCHANGED vars
  BY <1>3 DEF CenterPress, vars
<1> QED BY <1>1, <1>2, <1>3 DEF Next

\* For any sizes, no step of any thread and no press changes the state of a game
\* that is WON or LOST (main_model.c:136-147, 348, 392): the losing round breaks
\* no brick, so the snapshot that follows does not find the wall empty.
THEOREM GameOverStays == Spec => EndIsFinal
<1>1. FinalInv /\ [Next]_vars =>
        [(game_state \in {"WON", "LOST"}) => (game_state' = game_state)]_vars
  BY EndStays
<1> QED BY <1>1, FinalInvariance, PTL DEF Spec, EndIsFinal

-----------------------------------------------------------------------------
(* The message tells the end of the game.                                  *)

ShownEmpty == \A c \in Columns : Standing(model_state.bricks, c) = {}

\* From the snapshot to the message, WON goes with an empty wall.
TellsTheEnd ==
  /\ bpc \in Playing \cup {"prepare"} => (game_state = "WON" <=> ShownEmpty)
  /\ bpc = "send" => (model_state.game_state = "WON" <=> ShownEmpty)

LEMMA InitTellsTheEnd == Init => TellsTheEnd
BY DEF Init, TellsTheEnd, Playing, Deciding, Collecting

LEMMA BallPath ==
  ASSUME BallThread
  PROVE  /\ bpc' \in Playing \cup {"prepare"} => bpc \in Playing \/ bpc' = "test"
         /\ bpc' = "send" => bpc = "prepare"
BY DEF BallThread, BallStep, Playing, Deciding, Collecting, AfterColumn, Announce,
       Snapshot, BeginRound, SkipRound, RetakeVerdict, OpenRound, OwnCheck, SkipColumn,
       AwaitColumn, PickColumn, CloseRound, Confirm, Boost, Prepare, Send

LEMMA NextTellsTheEnd == FinalInv /\ TellsTheEnd /\ [Next]_vars => TellsTheEnd'
<1> SUFFICES ASSUME FinalInv, TellsTheEnd, [Next]_vars PROVE TellsTheEnd'
  OBVIOUS
<1>1. BookInv /\ PhaseInv
  BY DEF FinalInv, BookInv
<1>2. CASE \E c \in Columns : Column(c)
  <2>1. UNCHANGED <<bpc, game_state, model_state>>
    BY <1>1, <1>2, ColumnFrame
  <2> QED BY <2>1 DEF TellsTheEnd, ShownEmpty, Standing
<1>3. CASE Snapshot
  <2>1. /\ bpc' = "test" /\ model_state'.bricks = bricks
        /\ game_state' = IF tot_remaining_bricks = 0 THEN "WON" ELSE game_state
    BY <1>1, <1>3, BookTypes DEF Snapshot, BallStep, Messages
  <2>2. game_state = "WON" => tot_remaining_bricks = 0
    BY <1>1 DEF BookInv, EndInv
  <2>3. tot_remaining_bricks = 0 <=> \A c \in Columns : Standing(bricks, c) = {}
    <3>1. tot_remaining_bricks = 0 <=> StandingBricks = {}
      BY <1>1, FiniteStanding DEF BookInv, Balanced
    <3>2. ASSUME NEW c \in Columns, NEW r \in Standing(bricks, c)
          PROVE  <<c, r>> \in StandingBricks
      BY DEF StandingBricks, Standing
    <3>3. \A b \in StandingBricks : b[1] \in Columns /\ b[2] \in Standing(bricks, b[1])
      BY DEF StandingBricks
    <3> QED BY <3>1, <3>2, <3>3
  <2>4. ShownEmpty' <=> \A c \in Columns : Standing(bricks, c) = {}
    BY <2>1 DEF ShownEmpty, Standing
  <2> QED BY <2>1, <2>2, <2>3, <2>4 DEF TellsTheEnd
<1>4. CASE BallThread /\ ~Snapshot
  <2>1. ShownEmpty' <=> ShownEmpty
    <3>1. model_state'.bricks = model_state.bricks
      BY <1>1, <1>4, BallFrame, BookTypes DEF Prepare, Messages
    <3> QED BY <3>1 DEF ShownEmpty, Standing
  <2>2. game_state' = "WON" <=> game_state = "WON"
    <3>1. OwnCheck => game_state # "WON"
      BY <1>4, BallGoes DEF FinalInv, Started
    <3> QED BY <1>4, <3>1, BallFrame DEF OwnCheck
  <2>3. /\ bpc' \in Playing \cup {"prepare"} => bpc \in Playing
        /\ bpc' = "send" => bpc = "prepare"
    <3>1. bpc' # "test"
      BY <1>4 DEF BallThread, BallStep, AfterColumn, Announce, Snapshot, BeginRound,
         SkipRound, RetakeVerdict, OpenRound, OwnCheck, SkipColumn, AwaitColumn,
         PickColumn, CloseRound, Confirm, Boost, Prepare, Send
    <3> QED BY <1>4, <3>1, BallPath
  <2>4. bpc' = "send" => model_state'.game_state = game_state
    <3>1. bpc' = "send" => Prepare
      BY <1>4 DEF BallThread, BallStep, AfterColumn, Announce, Snapshot, BeginRound,
         SkipRound, RetakeVerdict, OpenRound, OwnCheck, SkipColumn, AwaitColumn,
         PickColumn, CloseRound, Confirm, Boost, Send
    <3> QED BY <1>1, <3>1, BookTypes DEF Prepare, Messages
  <2>5. bpc' = "send" => bpc' \notin Playing \cup {"prepare"}
    BY DEF Playing, Deciding, Collecting
  <2> QED BY <2>1, <2>2, <2>3, <2>4, <2>5 DEF TellsTheEnd
<1>5. CASE CenterPress \/ UNCHANGED vars
  <2>1. /\ UNCHANGED <<bpc, model_state>>
        /\ game_state' = "WON" <=> game_state = "WON"
    BY <1>5 DEF CenterPress, vars
  <2> QED BY <2>1 DEF TellsTheEnd, ShownEmpty, Standing
<1> QED BY <1>2, <1>3, <1>4, <1>5 DEF Next

\* For any sizes, the message whose game_state is WON (main_model.c:514) is the
\* one whose wall (346) is empty, although the two are copied in different steps.
THEOREM MessageTellsWhoWon == Spec => []MessageTellsTheEnd
<1>1. TellsTheEnd => MessageTellsTheEnd
  BY DEF TellsTheEnd, ShownEmpty, MessageTellsTheEnd
<1> QED BY <1>1, InitTellsTheEnd, NextTellsTheEnd, FinalInvariance, PTL DEF Spec

-----------------------------------------------------------------------------
(* The rounds play Breakout.                                               *)

LEMMA SameBricks == B!Bricks = Columns \X Rows
BY DEF B!Bricks, Columns, Rows

\* What the player sees does not change with a step that touches none of it.
LEMMA Unseen ==
  ASSUME UNCHANGED <<score, game_state>>, Holders' = Holders,
         BricksOf(bricks)' = BricksOf(bricks),
         BricksOf(model_state.bricks)' = BricksOf(model_state.bricks)
  PROVE  UNCHANGED B!vars
BY DEF B!vars

\* Before its break the round has broken nothing.
LEMMA NothingBrokenYet ==
  ASSUME FinalInv, bpc \in Playing,
         \A c \in Columns, r \in Rows : ~HasBroken(c, r)
  PROVE  BricksOf(bricks) = BricksOf(model_state.bricks)
<1>1. \A c \in Columns, r \in Rows :
        bricks[c][r] # "BROKEN" <=> model_state.bricks[c][r] # "BROKEN"
  BY DEF FinalInv, BookInv, BrokenThisRound, NothingRepaired
<1> QED BY <1>1 DEF BricksOf, Standing

\* A column that can run has bricks unless it is leaving.
LEMMA BricksLeft ==
  ASSUME BookInv, NEW c \in Columns, pc[c] \notin {"unlock", "surrender", "exited"}
  PROVE  \E r \in Rows : <<c, r>> \in BricksOf(bricks)
<1>1. remaining_bricks[c] # 0
  BY DEF BookInv, PhaseInv, Leaving
<1>2. Standing(bricks, c) # {}
  BY <1>1, FiniteStanding DEF BookInv, Counted
<1> QED BY <1>2 DEF BricksOf, Standing

\* The bricks and the message of a column's step outside its break.
LEMMA ColumnSees ==
  ASSUME BookInv, NEW c \in Columns, Column(c), ~Break(c)
  PROVE  /\ UNCHANGED <<score, game_state>>
         /\ BricksOf(bricks)' = BricksOf(bricks)
         /\ BricksOf(model_state.bricks)' = BricksOf(model_state.bricks)
<1>1. PhaseInv
  BY DEF BookInv
<1>2. UNCHANGED <<score, game_state, model_state>>
  BY <1>1, ColumnFrame
<1>3. \A d \in Columns, r \in Rows : bricks'[d][r] = "BROKEN" <=> bricks[d][r] = "BROKEN"
  <2>1. CASE Relabel(c)
    BY <1>1, <2>1, BookTypes DEF Relabel
  <2>2. CASE ~Relabel(c)
    BY <1>1, <2>2, ColumnFrame
  <2> QED BY <2>1, <2>2
<1> QED BY <1>2, <1>3 DEF BricksOf, Standing

LEMMA BreakStrikes ==
  ASSUME FinalInv, NEW c \in Columns, Break(c)
  PROVE  \E b \in B!Bricks : B!Strike(b)
<1> DEFINE r == hit_row[c]
<1>1. BookInv /\ PhaseInv /\ LabelInv
  BY DEF FinalInv, BookInv
<1>2. /\ pc[c] = "break" /\ pc' = [pc EXCEPT ![c] = "unlock"] /\ blocked[c] = "none"
      /\ bricks' = [bricks EXCEPT ![c][r] = "BROKEN"]
      /\ score' = score + Increment(c)
      /\ UNCHANGED <<game_state, golden, model_state>>
  BY DEF Break, ColumnStep, CanRun, Ready, columnVars
<1>3. bpc = "boost" /\ Won(c) /\ r \in Standing(bricks, c) /\ r \in Rows
  BY <1>1, <1>2, BreakFinds DEF Standing
<1> HIDE DEF r
<1>4. <<c, r>> \in BricksOf(bricks) /\ <<c, r>> \in B!Bricks
  BY <1>3, SameBricks DEF BricksOf
<1>5. \A d \in Columns, q \in Rows :
        bricks'[d][q] = IF d = c /\ q = r THEN "BROKEN" ELSE bricks[d][q]
  BY <1>1, <1>2, <1>3, BookTypes
<1>6. BricksOf(bricks)' = BricksOf(bricks) \ {<<c, r>>}
  BY <1>5 DEF BricksOf, Standing
<1>7. BricksOf(bricks) = BricksOf(model_state.bricks)
  <2>1. \A d \in Columns, q \in Rows : ~HasBroken(d, q)
    BY <1>2, <1>3 DEF HasBroken, Won, BeforeBreak
  <2> QED BY <1>3, <2>1, NothingBrokenYet DEF Playing, Deciding
<1>8. B!Played
  <2>1. reach = "bricks"
    BY <1>3, ThreadIds DEF FinalInv, Reached, Deciding, Won
  <2> QED BY <1>3, <2>1 DEF FinalInv, Started, Deciding, B!Played
<1>9. score' = score + IF c \in Holders THEN 2 ELSE 1
  <2>1. bricks[c][r] = "GOLDEN" <=> golden[c]
    BY <1>1, <1>2, <1>3 DEF LabelInv, LabelsMatchHolders
  <2>2. c \in Holders <=> golden[c]
    BY <1>2 DEF Holders
  <2> QED BY <1>2, <2>1, <2>2 DEF Increment, SCORE_INC_GOLDEN, SCORE_INC_NORMAL, r
<1>10. Holders' = Holders
  BY <1>1, <1>2, BookTypes DEF Holders
<1>11. BricksOf(model_state.bricks)' = BricksOf(model_state.bricks)
  BY <1>2 DEF BricksOf, Standing
<1>12. B!Strike(<<c, r>>)
  BY <1>2, <1>4, <1>6, <1>7, <1>8, <1>9, <1>10, <1>11 DEF B!Strike
<1> QED BY <1>4, <1>12

\* The golden resource changes hands while the game is played.
LEMMA GoldenSteps ==
  ASSUME FinalInv, NEW c \in Columns, Column(c),
         GoldenTake(c) \/ GoldenGiveBack(c) \/ Surrender(c)
  PROVE  \/ \E b \in B!Bricks : B!TakeGold(b)
         \/ \E d \in Holders : B!ReturnGold(d)
<1>1. BookInv /\ PhaseInv /\ GoldenInv /\ blocked[c] = "none"
  BY DEF FinalInv, BookInv, GoldenTake, GoldenGiveBack, Surrender, ColumnStep, CanRun, Ready
<1>2. /\ pc \in [Columns -> ColumnSteps] /\ golden \in [Columns -> BOOLEAN]
      /\ sem["golden_brick"] \in Int
  BY <1>1, BookTypes DEF PhaseInv, TypeInv, TypeOK, Semaphores
<1>3. /\ UNCHANGED <<score, game_state>>
      /\ BricksOf(bricks)' = BricksOf(bricks)
      /\ BricksOf(model_state.bricks)' = BricksOf(model_state.bricks)
  BY <1>1, ColumnSees DEF GoldenTake, GoldenGiveBack, Surrender, Break, ColumnStep
<1>4. B!Played
  <2>1. CASE GoldenTake(c) \/ GoldenGiveBack(c)
    <3>1. bpc = "own"
      BY <1>1, <2>1, PhaseOfColumnStep
         DEF GoldenTake, GoldenGiveBack, ColumnStep, CheckSteps
    <3> QED BY <3>1 DEF FinalInv, Started, B!Played
  <2>2. CASE Surrender(c)
    <3>1. bpc = "boost" /\ Won(c)
      BY <1>1, <2>2, PhaseOfColumnStep
         DEF Surrender, ColumnStep, VerdictSteps, BookInv, Winners
    <3>2. reach = "bricks"
      BY <3>1, ThreadIds DEF FinalInv, Reached, Deciding, Won
    <3> QED BY <3>1, <3>2 DEF FinalInv, Started, Deciding, B!Played
  <2> QED BY <2>1, <2>2
<1>5. CASE GoldenTake(c)
  <2>1. /\ pc[c] = "golden" /\ ~golden[c] /\ sem["golden_brick"] > 0
        /\ Holders' = Holders \cup {c} /\ c \notin Holders
    BY <1>2, <1>5 DEF GoldenTake, ColumnStep, TryWait, Holders
  <2>2. PICK r \in Rows : <<c, r>> \in BricksOf(bricks)
    BY <1>1, <2>1, BricksLeft
  <2>3. Cardinality(Holders) < NB_GOLDEN_COLS
    BY <1>1, <1>2, <2>1, HoldersFinite, FS_CardinalityType, SizesAssumption
       DEF GoldenInv, GoldenConserved
  <2>4. B!Cardinality(Holders) = Cardinality(Holders)
    BY DEF Cardinality, B!Cardinality
  <2>5. B!TakeGold(<<c, r>>) /\ <<c, r>> \in B!Bricks
    BY <1>3, <1>4, <2>1, <2>2, <2>3, <2>4, SameBricks DEF B!TakeGold
  <2> QED BY <2>5
<1>6. CASE GoldenGiveBack(c) \/ Surrender(c)
  <2>1. golden[c] /\ pc[c] # "exited"
    BY <1>1, <1>6 DEF GoldenInv, GivesWhatItHolds, GoldenGiveBack, Surrender, ColumnStep
  <2>2. c \in Holders /\ Holders' = Holders \ {c}
    BY <1>2, <1>6, <2>1 DEF GoldenGiveBack, Surrender, ColumnStep, columnVars, Holders
  <2> QED BY <1>3, <1>4, <2>2 DEF B!ReturnGold
<1> QED BY <1>5, <1>6

LEMMA ColumnPlays ==
  ASSUME FinalInv, NEW c \in Columns, Column(c)
  PROVE  [B!Next]_(B!vars)
<1>1. BookInv /\ PhaseInv
  BY DEF FinalInv, BookInv
<1>2. CASE Break(c)
  BY <1>2, BreakStrikes DEF B!Next
<1>3. CASE GoldenTake(c) \/ GoldenGiveBack(c) \/ Surrender(c)
  BY <1>3, GoldenSteps DEF B!Next
<1>4. CASE ~(Break(c) \/ GoldenTake(c) \/ GoldenGiveBack(c) \/ Surrender(c))
  <2>1. Holders' = Holders
    BY <1>1, <1>4, BookTypes
       DEF Holders, Column, ColumnStep, columnVars, AfterBreak, StartWait, StartPost,
           GoldenRelease, GoldenKeep, Relabel, CheckMiss, CheckHit, Report, ArbWait,
           ArbPost, Verdict, LockBricks, UnlockBricks
  <2> QED BY <1>1, <1>4, <2>1, ColumnSees, Unseen
<1> QED BY <1>2, <1>3, <1>4

LEMMA BallPlays ==
  ASSUME FinalInv, BallThread
  PROVE  [B!Next]_(B!vars)
<1>1. BookInv /\ PhaseInv
  BY DEF FinalInv, BookInv
<1>2. CanRun(Ball) /\ UNCHANGED <<pc, bricks, score, golden>>
  BY BallFrame
<1>3. Holders' = Holders /\ BricksOf(bricks)' = BricksOf(bricks)
  BY <1>2 DEF Holders, BricksOf, Standing
<1>4. tot_remaining_bricks = 0 <=> BricksOf(bricks) = {}
  BY <1>1, FiniteStanding DEF BookInv, Balanced, BricksOf, StandingBricks
<1>5. CASE Snapshot
  <2>1. /\ bpc = "snapshot"
        /\ model_state'.bricks = bricks
        /\ game_state' = IF tot_remaining_bricks = 0 THEN "WON" ELSE game_state
    BY <1>1, <1>5, BookTypes DEF Snapshot, BallStep, Messages
  <2>2. BricksOf(model_state.bricks)' = BricksOf(bricks)
    BY <2>1 DEF BricksOf, Standing
  <2>3. ASSUME NEW c \in Holders
        PROVE  \E b \in BricksOf(bricks) : b[1] = c
    <3>1. c \in Columns /\ AtStart(c)
      BY <1>1, <1>2, <2>1, BallAlone DEF BetweenRounds, Holders, Gone
    <3> QED BY <1>1, <3>1, BricksLeft DEF AtStart
  <2>4. B!Show
    BY <1>2, <1>3, <1>4, <2>1, <2>2, <2>3 DEF B!Show
  <2> QED BY <2>4 DEF B!Next
<1>6. CASE ~Snapshot
  <2>1. BricksOf(model_state.bricks)' = BricksOf(model_state.bricks)
    <3>1. model_state'.bricks = model_state.bricks
      BY <1>1, <1>6, BallFrame, BookTypes DEF Prepare, Messages
    <3> QED BY <3>1 DEF BricksOf, Standing
  <2>2. CASE UNCHANGED game_state
    BY <1>2, <1>3, <2>1, <2>2, Unseen
  <2>3. CASE OwnCheck /\ game_state' = "LOST"
    <3>1. bpc = "own"
      BY <2>3, BallGoes
    <3>2. BricksOf(bricks) = BricksOf(model_state.bricks)
      BY <3>1, NothingBrokenYet DEF HasBroken, Playing
    <3>3. B!Played /\ BricksOf(bricks) # {}
      BY <1>4, <3>1 DEF FinalInv, Started, B!Played
    <3>4. B!Lose
      BY <1>2, <1>3, <2>1, <2>3, <3>2, <3>3 DEF B!Lose
    <3> QED BY <3>4 DEF B!Next
  <2>4. UNCHANGED game_state \/ (OwnCheck /\ game_state' = "LOST")
    BY <1>6, BallFrame DEF OwnCheck
  <2> QED BY <2>2, <2>3, <2>4
<1> QED BY <1>5, <1>6

\* For any sizes, the threads of main_model.c (193-535) play Breakout: at most one
\* brick breaks between two messages, none before the start, in a losing round or
\* after the end, points match the gold, and a message without bricks says WON.
THEOREM ThreadsPlayBreakout == Spec => PlaysBreakout
<1>1. Init => B!Init
  <2> SUFFICES ASSUME Init PROVE B!Init
    OBVIOUS
  <2>1. BricksOf(bricks) = B!Bricks /\ BricksOf(model_state.bricks) = B!Bricks
    BY SameBricks DEF Init, BricksOf, Standing
  <2>2. Holders = {}
    BY DEF Init, Holders
  <2> QED BY <2>1, <2>2 DEF Init, B!Init
<1>2. FinalInv /\ [Next]_vars => [B!Next]_(B!vars)
  <2> SUFFICES ASSUME FinalInv, [Next]_vars PROVE [B!Next]_(B!vars)
    OBVIOUS
  <2>1. CASE \E c \in Columns : Column(c)
    BY <2>1, ColumnPlays
  <2>2. CASE BallThread
    BY <2>2, BallPlays
  <2>3. CASE CenterPress \/ UNCHANGED vars
    <3>1. /\ UNCHANGED <<score, bricks, model_state, pc, golden>>
          /\ UNCHANGED game_state \/ CenterPress
      BY <2>3 DEF CenterPress, vars, wall, columnVars
    <3>2. /\ Holders' = Holders /\ BricksOf(bricks)' = BricksOf(bricks)
          /\ BricksOf(model_state.bricks)' = BricksOf(model_state.bricks)
      BY <3>1 DEF Holders, BricksOf, Standing
    <3>3. CASE CenterPress
      <4>1. B!Press
        BY <3>1, <3>2, <3>3 DEF CenterPress, B!Press
      <4> QED BY <4>1 DEF B!Next
    <3> QED BY <3>1, <3>2, <3>3, Unseen
  <2> QED BY <2>1, <2>2, <2>3 DEF Next
<1> QED BY <1>1, <1>2, FinalInvariance, PTL DEF Spec, PlaysBreakout, B!Spec

-----------------------------------------------------------------------------
(* Two messages in turn.                                                   *)

\* Between the end of a round and the next snapshot, at most one brick of the
\* shown wall has gone, and only if the game is played; before the game starts
\* the wall is the shown one.
WallIsNear ==
  /\ bpc \in {"prepare", "send", "snapshot"} =>
       \A b, d \in BrokenSinceSnapshot : b = d
  /\ bpc = "prepare" /\ BrokenSinceSnapshot # {} => game_state \in {"RUNNING", "PAUSED"}
  /\ bpc \in {"send", "snapshot"} /\ BrokenSinceSnapshot # {} => Last \in {"RUNNING", "PAUSED"}
  /\ bpc \in {"test", "prepare"} /\ game_state = "WAITING" => bricks = model_state.bricks
  /\ bpc \in {"announce", "send", "snapshot"} /\ Last = "WAITING" =>
       bricks = model_state.bricks

\* The state of the last message is one the game has come from.
StateIsNear ==
  /\ Last \in {"WON", "LOST"} => game_state = Last
  /\ game_state = "WAITING" => Last = "WAITING"
  /\ bpc = "announce" => stored = FALSE

\* Bricks rest outside of the rounds.
LEMMA WallAtRest ==
  ASSUME PhaseInv, NEW c \in Columns, Column(c),
         bpc \in {"announce", "test", "prepare", "send", "snapshot"}
  PROVE  UNCHANGED bricks
<1>1. ~Break(c) /\ ~Relabel(c)
  BY ColumnFrame, PhaseOfColumnStep DEF Break, Relabel, ColumnStep, CheckSteps, VerdictSteps
<1> QED BY <1>1, ColumnFrame

\* From where the ball thread gets to a step outside of the rounds.
LEMMA BallOutside ==
  ASSUME BallThread
  PROVE  /\ bpc' = "announce" => bpc = "announce"
         /\ bpc' = "snapshot" => bpc \in {"announce", "send"}
         /\ bpc' = "test" => Snapshot
         /\ bpc' = "prepare" => bpc \in {"test", "boost"}
         /\ bpc' = "send" => Prepare
         /\ Snapshot => bpc = "snapshot" /\ bpc' = "test"
         /\ Prepare => bpc = "prepare" /\ bpc' = "send"
         /\ OwnCheck => bpc = "own" /\ bpc' = "collect"
BY DEF BallThread, BallStep, AfterColumn, Announce, Snapshot, BeginRound,
       SkipRound, RetakeVerdict, OpenRound, OwnCheck, SkipColumn, AwaitColumn,
       PickColumn, CloseRound, Confirm, Boost, Prepare, Send

\* What the two steps that store into the message store.
LEMMA Stores ==
  ASSUME PhaseInv
  PROVE  /\ Snapshot => /\ model_state'.bricks = bricks
                        /\ model_state'.game_state = model_state.game_state
         /\ Prepare => /\ model_state'.bricks = model_state.bricks
                       /\ model_state'.game_state = game_state
BY BookTypes DEF Snapshot, Prepare, BallStep, Messages

\* The state of the last message changes where the ball thread stores one.
LEMMA LastMoves ==
  ASSUME PhaseInv, BallThread, stored' = IF Storing THEN TRUE ELSE stored
  PROVE  /\ Prepare => Last' = game_state
         /\ ~Prepare => Last' = Last /\ stored' = stored
<1>1. Storing <=> Prepare
  BY BallOutside
     DEF Storing, BallThread, BallStep, AfterColumn, Announce, Snapshot, BeginRound,
         SkipRound, RetakeVerdict, OpenRound, OwnCheck, SkipColumn, AwaitColumn,
         PickColumn, CloseRound, Confirm, Boost, Send
<1>2. ~Prepare => model_state'.game_state = model_state.game_state
  BY BallFrame, Stores
<1> QED BY <1>1, <1>2, Stores DEF Last

\* ... and nowhere else.
LEMMA LastStays ==
  ASSUME UNCHANGED <<bpc, model_state>>, stored' = IF Storing THEN TRUE ELSE stored
  PROVE  Last' = Last /\ stored' = stored
BY DEF Last, Storing

LEMMA SameBroken ==
  ASSUME UNCHANGED bricks, model_state'.bricks = model_state.bricks
  PROVE  BrokenSinceSnapshot' = BrokenSinceSnapshot
BY DEF BrokenSinceSnapshot, Standing

LEMMA NoneBroken ==
  ASSUME bricks = model_state.bricks
  PROVE  BrokenSinceSnapshot = {}
BY DEF BrokenSinceSnapshot, Standing

\* The wall at the end of a round, played or skipped.
LEMMA RoundEndsNear ==
  ASSUME FinalInv, RoundBreaksTheHitBrick, WallIsNear, CanRun(Ball),
         bpc \in {"test", "boost"}
  PROVE  /\ \A b, d \in BrokenSinceSnapshot : b = d
         /\ BrokenSinceSnapshot # {} => game_state \in {"RUNNING", "PAUSED"}
         /\ game_state = "WAITING" => bricks = model_state.bricks
<1>1. CASE bpc = "test"
  <2>1. BrokenSinceSnapshot = {}
    BY <1>1 DEF FinalInv, BookInv, BrokenThisRound, Playing, HasBroken,
                BrokenSinceSnapshot, Standing
  <2> QED BY <1>1, <2>1 DEF WallIsNear
<1>2. CASE bpc = "boost"
  <2>1. /\ \A b, d \in BrokenSinceSnapshot : b = d
        /\ BrokenSinceSnapshot # {} => next_colli.idx # Nobody
    BY <1>2 DEF RoundBreaksTheHitBrick
  <2>2. next_colli.idx # Nobody => reach = "bricks"
    BY <1>2 DEF FinalInv, Reached, Deciding
  <2>3. game_state \in {"RUNNING", "PAUSED"} \/ (game_state = "LOST" /\ reach = "bar")
    BY <1>2 DEF FinalInv, Started, Deciding
  <2> QED BY <2>1, <2>2, <2>3
<1> QED BY <1>1, <1>2

LEMMA NextWallIsNear ==
  ASSUME FinalInv, RoundBreaksTheHitBrick, WallIsNear, StateIsNear, [Next]_vars,
         stored' = IF Storing THEN TRUE ELSE stored
  PROVE  WallIsNear'
<1>1. PhaseInv
  BY DEF FinalInv, BookInv
<1>2. CASE \E c \in Columns : Column(c)
  <2>1. UNCHANGED <<bpc, game_state, model_state>>
    BY <1>1, <1>2, ColumnFrame
  <2>2. Last' = Last
    BY <2>1, LastStays
  <2>3. CASE bpc \in {"announce", "test", "prepare", "send", "snapshot"}
    <3>1. UNCHANGED bricks
      BY <1>1, <1>2, <2>3, WallAtRest
    <3> QED BY <2>1, <2>2, <3>1, SameBroken DEF WallIsNear
  <2>4. CASE bpc \notin {"announce", "test", "prepare", "send", "snapshot"}
    BY <2>1, <2>4 DEF WallIsNear
  <2> QED BY <2>3, <2>4
<1>3. CASE BallThread
  <2>1. CanRun(Ball) /\ UNCHANGED bricks
    BY <1>3, BallFrame
  <2>2. ~Snapshot => model_state'.bricks = model_state.bricks
    BY <1>1, <1>3, BallFrame, Stores
  <2>3. ~Snapshot => BrokenSinceSnapshot' = BrokenSinceSnapshot
    BY <2>1, <2>2, SameBroken
  <2>4. CASE bpc' = "announce"
    <3>1. bpc = "announce" /\ ~Snapshot /\ ~Prepare
      BY <1>3, <2>4, BallOutside
    <3>2. Last' = Last
      BY <1>1, <1>3, <3>1, LastMoves
    <3> QED BY <2>1, <2>2, <2>4, <3>1, <3>2 DEF WallIsNear
  <2>5. CASE bpc' = "snapshot"
    <3>1. bpc \in {"announce", "send"} /\ UNCHANGED model_state /\ ~Snapshot /\ ~Prepare
      BY <1>3, <2>5, BallOutside, BallFrame
    <3>2. Last' = Last
      BY <1>1, <1>3, <3>1, LastMoves
    <3>3. bpc = "announce" => BrokenSinceSnapshot = {}
      BY NoneBroken DEF WallIsNear, StateIsNear, Last
    <3> QED BY <2>1, <2>3, <2>5, <3>1, <3>2, <3>3 DEF WallIsNear
  <2>6. CASE bpc' = "test"
    <3>1. model_state'.bricks = bricks'
      BY <1>1, <1>3, <2>1, <2>6, BallOutside, Stores
    <3> QED BY <2>6, <3>1 DEF WallIsNear
  <2>7. CASE bpc' = "prepare"
    <3>1. bpc \in {"test", "boost"} /\ UNCHANGED <<model_state, game_state>>
      BY <1>3, <2>7, BallOutside, BallFrame
    <3>2. BrokenSinceSnapshot' = BrokenSinceSnapshot
      BY <1>3, <2>3, <2>7, BallOutside
    <3> QED BY <2>1, <2>7, <3>1, <3>2, RoundEndsNear DEF WallIsNear
  <2>8. CASE bpc' = "send"
    <3>1. Prepare /\ bpc = "prepare"
      BY <1>3, <2>8, BallOutside
    <3>2. Last' = game_state /\ model_state'.bricks = model_state.bricks
      BY <1>1, <1>3, <3>1, Stores, LastMoves
    <3>3. BrokenSinceSnapshot' = BrokenSinceSnapshot
      BY <2>1, <3>2, SameBroken
    <3> QED BY <2>1, <2>8, <3>1, <3>2, <3>3 DEF WallIsNear
  <2>9. CASE bpc' \notin {"announce", "snapshot", "test", "prepare", "send"}
    BY <2>9 DEF WallIsNear
  <2> QED BY <2>4, <2>5, <2>6, <2>7, <2>8, <2>9
<1>4. CASE CenterPress \/ UNCHANGED vars
  <2>1. /\ UNCHANGED <<bpc, bricks, model_state>>
        /\ game_state \in {"RUNNING", "PAUSED"} => game_state' \in {"RUNNING", "PAUSED"}
        /\ game_state' = "WAITING" => game_state = "WAITING"
    BY <1>4 DEF CenterPress, vars, wall
  <2> QED BY <2>1, SameBroken, LastStays DEF WallIsNear
<1> QED BY <1>2, <1>3, <1>4 DEF Next

LEMMA NextStateIsNear ==
  ASSUME FinalInv, StateIsNear, [Next]_vars, stored' = IF Storing THEN TRUE ELSE stored
  PROVE  StateIsNear'
<1>1. PhaseInv
  BY DEF FinalInv, BookInv
<1>2. /\ game_state \in {"WON", "LOST"} => game_state' = game_state
      /\ game_state' = "WAITING" => game_state = "WAITING"
  <2>1. game_state \in {"WON", "LOST"} => game_state' = game_state
    BY EndStays
  <2>2. game_state' = "WAITING" => game_state = "WAITING"
    <3>1. CASE \E c \in Columns : Column(c)
      BY <1>1, <3>1, ColumnFrame
    <3>2. CASE BallThread
      BY <3>2, BallEnds
    <3>3. CASE CenterPress \/ UNCHANGED vars
      BY <3>3 DEF CenterPress, vars
    <3> QED BY <3>1, <3>2, <3>3 DEF Next
  <2> QED BY <2>1, <2>2
<1>3. CASE UNCHANGED <<bpc, model_state>>
  BY <1>2, <1>3, LastStays DEF StateIsNear
<1>4. CASE BallThread
  <2>1. CASE Prepare
    <3>1. Last' = game_state /\ UNCHANGED game_state /\ bpc' = "send"
      BY <1>1, <1>4, <2>1, LastMoves, BallFrame, BallOutside
    <3> QED BY <3>1 DEF StateIsNear
  <2>2. CASE ~Prepare
    <3>1. Last' = Last /\ stored' = stored /\ (bpc' = "announce" => bpc = "announce")
      BY <1>1, <1>4, <2>2, LastMoves, BallOutside
    <3> QED BY <1>2, <3>1 DEF StateIsNear
  <2> QED BY <2>1, <2>2
<1>5. CASE \E c \in Columns : Column(c)
  BY <1>1, <1>3, <1>5, ColumnFrame
<1>6. CASE CenterPress \/ UNCHANGED vars
  BY <1>3, <1>6 DEF CenterPress, vars, wall
<1> QED BY <1>4, <1>5, <1>6 DEF Next

\* The wall copied at the start of a round follows the one shown before.
LEMMA SnapshotFollows ==
  ASSUME FinalInv, WallIsNear, Snapshot
  PROVE  /\ model_state'.game_state = model_state.game_state
         /\ M!WallFollows(Last, WallOf(model_state), WallOf(model_state)')
<1> DEFINE v == WallOf(model_state)
           w == WallOf(model_state)'
<1>1. PhaseInv /\ BallThread /\ bpc = "snapshot"
  BY DEF FinalInv, BookInv, BallThread, Snapshot, BallStep
<1>2. model_state'.bricks = bricks /\ model_state'.game_state = model_state.game_state
  BY <1>1, Stores
<1>3. w = [b \in Columns \X Rows |-> bricks[b[1]][b[2]]]
  BY <1>2 DEF WallOf
<1>4. v = [b \in Columns \X Rows |-> model_state.bricks[b[1]][b[2]]]
  BY DEF WallOf
<1> HIDE DEF v, w
<1>5. /\ M!StandingIn(v) = {b \in Columns \X Rows : model_state.bricks[b[1]][b[2]] # "BROKEN"}
      /\ M!StandingIn(w) = {b \in Columns \X Rows : bricks[b[1]][b[2]] # "BROKEN"}
  BY <1>3, <1>4 DEF M!StandingIn
<1>6. M!StandingIn(w) \subseteq M!StandingIn(v)
  BY <1>5 DEF FinalInv, BookInv, NothingRepaired
<1>7. M!StandingIn(v) \ M!StandingIn(w) = BrokenSinceSnapshot
  BY <1>5 DEF BrokenSinceSnapshot, Standing
<1>8. M!Cardinality(M!StandingIn(v) \ M!StandingIn(w)) <= 1
  <2>1. \A b, d \in BrokenSinceSnapshot : b = d
    BY <1>1 DEF WallIsNear
  <2>2. BrokenSinceSnapshot = {} \/ \E b : BrokenSinceSnapshot = {b}
    BY <2>1
  <2>3. Cardinality(BrokenSinceSnapshot) <= 1
    <3>1. \A b : Cardinality({b}) = 1
      BY FS_Singleton
    <3>2. Cardinality({}) = 0
      BY FS_EmptySet
    <3>3. CASE BrokenSinceSnapshot = {}
      BY <3>2, <3>3
    <3>4. CASE \E b : BrokenSinceSnapshot = {b}
      <4>1. PICK b : BrokenSinceSnapshot = {b}
        BY <3>4
      <4>2. Cardinality(BrokenSinceSnapshot) = 1
        BY <3>1, <4>1, Zenon
      <4> QED BY <4>2
    <3> QED BY <2>2, <3>3, <3>4
  <2>4. M!Cardinality(BrokenSinceSnapshot) = Cardinality(BrokenSinceSnapshot)
    BY DEF Cardinality, M!Cardinality
  <2> QED BY <1>7, <2>3, <2>4
<1>9. M!StandingIn(w) # M!StandingIn(v) => M!Played(Last)
  BY <1>1, <1>6, <1>7 DEF WallIsNear, M!Played
<1>10. w # v => Last # "WAITING"
  BY <1>1, <1>3, <1>4 DEF WallIsNear
<1> QED BY <1>2, <1>6, <1>8, <1>9, <1>10 DEF M!WallFollows, v, w

\* The state stored at the end of a round follows the one of the last message.
LEMMA PrepareFollows ==
  ASSUME FinalInv, TellsTheEnd, StateIsNear, Prepare
  PROVE  /\ WallOf(model_state)' = WallOf(model_state)
         /\ M!StateFollows(Last, WallOf(model_state)', model_state'.game_state)
<1> DEFINE w == WallOf(model_state)
<1>1. PhaseInv /\ bpc = "prepare"
  BY DEF FinalInv, BookInv, Prepare, BallStep
<1>2. model_state'.bricks = model_state.bricks /\ model_state'.game_state = game_state
  BY <1>1, Stores
<1>3. WallOf(model_state)' = w
  BY <1>2 DEF WallOf
<1>4. w = [b \in Columns \X Rows |-> model_state.bricks[b[1]][b[2]]]
  BY DEF WallOf
<1> HIDE DEF w
<1>5. M!StandingIn(w) = {b \in Columns \X Rows : model_state.bricks[b[1]][b[2]] # "BROKEN"}
  BY <1>4 DEF M!StandingIn
<1>6. game_state = "WON" <=> M!StandingIn(w) = {}
  <2>1. game_state = "WON" <=> \A c \in Columns : Standing(model_state.bricks, c) = {}
    BY <1>1 DEF TellsTheEnd, ShownEmpty
  <2>2. ASSUME NEW c \in Columns, NEW r \in Standing(model_state.bricks, c)
        PROVE  <<c, r>> \in M!StandingIn(w)
    BY <1>5 DEF Standing
  <2>3. \A b \in M!StandingIn(w) : b[1] \in Columns /\ b[2] \in Standing(model_state.bricks, b[1])
    BY <1>5 DEF Standing
  <2> QED BY <2>1, <2>2, <2>3
<1>7. M!StateFollows(Last, w, game_state)
  BY <1>6 DEF StateIsNear, M!StateFollows, M!Over
<1> QED BY <1>2, <1>3, <1>7 DEF w

\* For any sizes, what the ball thread stores into the message (main_model.c 346,
\* 514) follows the message before from the first one on: this is what System
\* assumes of the sender.
THEOREM RoundsSendWhatFollows == SpecH => MessagesFollow
<1>1. InitH => Init /\ WallIsNear /\ StateIsNear
  BY DEF InitH, Init, WallIsNear, StateIsNear, Last
<1>2. [NextH]_<<vars, stored>> => [Next]_vars /\ stored' = IF Storing THEN TRUE ELSE stored
  <2>1. ASSUME UNCHANGED <<vars, stored>> PROVE stored' = IF Storing THEN TRUE ELSE stored
    BY <2>1 DEF Storing, vars
  <2> QED BY <2>1 DEF NextH
<1>3. ASSUME FinalInv, TellsTheEnd, WallIsNear, StateIsNear, [Next]_vars
      PROVE  MessageFollows
  <2>1. PhaseInv
    BY <1>3 DEF FinalInv, BookInv
  <2>2. CASE Snapshot
    <3>1. Copying /\ ~Storing
      BY <2>1, <2>2, BallOutside DEF Copying, Storing, Snapshot, BallStep
    <3> QED BY <1>3, <2>2, <3>1, SnapshotFollows DEF MessageFollows
  <2>3. CASE Prepare
    <3>1. Storing /\ ~Copying
      BY <2>3 DEF Copying, Storing, Prepare, BallStep
    <3> QED BY <1>3, <2>3, <3>1, PrepareFollows DEF MessageFollows
  <2>4. CASE ~Snapshot /\ ~Prepare
    <3>1. UNCHANGED model_state /\ ~Copying /\ ~Storing
      <4>1. CASE \E c \in Columns : Column(c)
        BY <2>1, <4>1, ColumnFrame DEF Copying, Storing
      <4>2. CASE BallThread
        BY <2>4, <4>2, BallFrame
           DEF Copying, Storing, BallThread, BallStep, AfterColumn, Announce, BeginRound,
               SkipRound, RetakeVerdict, OpenRound, OwnCheck, SkipColumn, AwaitColumn,
               PickColumn, CloseRound, Confirm, Boost, Send
      <4>3. CASE CenterPress \/ UNCHANGED vars
        BY <4>3 DEF CenterPress, vars, Copying, Storing
      <4> QED BY <1>3, <4>1, <4>2, <4>3 DEF Next
    <3> QED BY <3>1 DEF MessageFollows, WallOf
  <2> QED BY <2>2, <2>3, <2>4
<1>4. SpecH => Spec
  BY <1>1, <1>2, PTL DEF SpecH, Spec
<1>5. FinalInv /\ TellsTheEnd /\ WallIsNear /\ StateIsNear /\ RoundBreaksTheHitBrick
      /\ [NextH]_<<vars, stored>> => (WallIsNear /\ StateIsNear)' /\ MessageFollows
  BY <1>2, <1>3, NextWallIsNear, NextStateIsNear
<1>6. SpecH => [](FinalInv /\ TellsTheEnd /\ RoundBreaksTheHitBrick)
  BY <1>4, InitTellsTheEnd, NextTellsTheEnd, FinalInvariance, RoundBreaksOneBrick,
     PTL DEF Spec
<1> QED BY <1>1, <1>5, <1>6, PTL DEF SpecH, MessagesFollow

=============================================================================
