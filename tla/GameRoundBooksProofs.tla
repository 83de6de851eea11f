------------------------ MODULE GameRoundBooksProofs ------------------------
(***************************************************************************)
(* What a round does to the wall: the soonest collision is retained, its   *)
(* brick and no other is broken, the books balance, and the message to the *)
(* display shows a wall between rounds.  For any sizes.                    *)
(***************************************************************************)
EXTENDS GameRoundPhasesProofs

-----------------------------------------------------------------------------
(* The inductive invariant.                                                *)

\* Every column counts its own standing bricks.
Counted == \A c \in Columns : remaining_bricks[c] = Cardinality(Standing(bricks, c))

StandingBricks == {b \in Columns \X Rows : b[2] \in Standing(bricks, b[1])}

\* The total counts them all; the score is worth the broken ones.
Balanced ==
  LET broken == NB_COLUMNS * NB_ROWS - Cardinality(StandingBricks)
  IN /\ tot_remaining_bricks = Cardinality(StandingBricks)
     /\ score >= broken * SCORE_INC_NORMAL
     /\ score <= broken * SCORE_INC_GOLDEN

\* From its check until its break, a column that found a collision has a
\* standing brick to break, and its report bears its own name.
BeforeBreak == {"report", "arb_wait", "arb_post", "verdict", "lock", "break"}

HitStands ==
  \A c \in Columns :
    /\ column_colli[c].happened => column_colli[c].iter < MAX_ITER
    /\ pc[c] \in BeforeBreak =>
         /\ column_colli[c].idx = c
         /\ column_colli[c].happened => hit_row[c] \in Standing(bricks, c)

\* The retained collision is the ball's own or a report of this round.
Deciding == Collecting \cup {"boost"}

Retained ==
  /\ bpc = "pick" => AtArbitration(i)
  /\ bpc \in Deciding =>
       /\ ~next_colli.happened => next_colli.iter = MAX_ITER
       /\ next_colli.idx # Nobody => next_colli = column_colli[next_colli.idx]
       /\ next_colli.idx # Nobody /\ bpc # "boost" => AtArbitration(next_colli.idx)
       /\ next_colli.idx # Nobody => next_colli.happened

\* Only the winner breaks.
Winners ==
  \A c \in Columns : pc[c] \in {"lock", "break", "unlock", "surrender"} => Won(c)

\* Collisions collected so far are not sooner than the retained one.
Collected(c) ==
  /\ AtArbitration(c)
  /\ bpc \in {"close", "confirm"} \/ (bpc \in {"collect", "pick"} /\ c < i)

SoonestSoFar ==
  \A c \in Columns : Collected(c) /\ column_colli[c].happened =>
    next_colli.happened /\ next_colli.iter <= column_colli[c].iter

\* What this round has broken: nothing before the verdict, then the brick of
\* the winner once it is past its break.
HasBroken(c, r) ==
  /\ bpc = "boost" /\ Won(c) /\ r = hit_row[c]
  /\ pc[c] \notin BeforeBreak

Playing == {"test", "retake", "open", "own"} \cup Deciding

BrokenThisRound ==
  bpc \in Playing =>
    \A c \in Columns, r \in Rows :
      model_state.bricks[c][r] # "BROKEN" /\ bricks[c][r] = "BROKEN"
        <=> HasBroken(c, r)

\* Bricks are never repaired.
NothingRepaired ==
  \A c \in Columns, r \in Rows :
    model_state.bricks[c][r] = "BROKEN" => bricks[c][r] = "BROKEN"

\* The end of the game.
EndInv ==
  /\ game_state = "WON" => tot_remaining_bricks = 0
  /\ bpc = "test" /\ tot_remaining_bricks = 0 => game_state = "WON"
  /\ bpc \in {"retake", "open"} => tot_remaining_bricks # 0

BookInv ==
  /\ PhaseInv /\ GoldenInv /\ LabelInv
  /\ Counted /\ Balanced /\ HitStands /\ Retained /\ Winners /\ SoonestSoFar
  /\ BrokenThisRound /\ NothingRepaired /\ MessageNotTorn /\ EndInv

-----------------------------------------------------------------------------
(* Frames and counting.                                                    *)

\* The types the proofs below use.
LEMMA BookTypes ==
  ASSUME PhaseInv
  PROVE  /\ pc \in [Columns -> ColumnSteps] /\ bpc \in BallSteps
         /\ bricks \in [Columns -> [Rows -> Labels]] /\ hit_row \in [Columns -> Rows]
         /\ column_colli \in [Columns -> Collisions] /\ next_colli \in Collisions
         /\ model_state \in Messages /\ model_state.bricks \in [Columns -> [Rows -> Labels]]
         /\ remaining_bricks \in [Columns -> Int] /\ tot_remaining_bricks \in Int
         /\ score \in Nat /\ golden \in [Columns -> BOOLEAN] /\ game_state \in GameStates
BY DEF PhaseInv, TypeInv, TypeOK, Wall, Messages

\* What no step of a column thread touches, and what only some do.
LEMMA ColumnFrame ==
  ASSUME NEW c \in Columns, Column(c), PhaseInv
  PROVE  /\ UNCHANGED <<bpc, next_colli, i, game_state, model_state>>
         /\ blocked[c] = "none"
         /\ \A d \in Columns : d # c => pc'[d] = pc[d]
         /\ ~CheckHit(c) /\ ~CheckMiss(c) => UNCHANGED <<hit_row, column_colli>>
         /\ ~Break(c) /\ ~Relabel(c) => UNCHANGED bricks
         /\ ~Break(c) => UNCHANGED <<score, remaining_bricks, tot_remaining_bricks>>
<1>1. pc \in [Columns -> ColumnSteps]
  BY BookTypes
<1> QED BY <1>1
  DEF Column, ColumnStep, CanRun, Ready, wall, columnVars, roundVars,
      StartWait, StartPost, GoldenRelease, GoldenGiveBack, GoldenTake, GoldenKeep,
      Relabel, CheckMiss, CheckHit, Report, ArbWait, ArbPost, Verdict, LockBricks,
      Break, UnlockBricks, Surrender

\* Only the ball thread raises the speed.
LEMMA ColumnBoosts ==
  ASSUME NEW c \in Columns, Column(c)
  PROVE  UNCHANGED boosts
BY DEF Column, roundVars, StartWait, StartPost, GoldenRelease, GoldenGiveBack,
       GoldenTake, GoldenKeep, Relabel, CheckMiss, CheckHit, Report, ArbWait,
       ArbPost, Verdict, LockBricks, Break, UnlockBricks, Surrender

\* Where a column goes from where it is.
LEMMA ColumnGoes ==
  ASSUME NEW c \in Columns, Column(c), PhaseInv
  PROVE  /\ pc'[c] \in BeforeBreak => pc[c] \in BeforeBreak \/ CheckHit(c) \/ CheckMiss(c)
         /\ pc[c] \in BeforeBreak /\ pc'[c] \notin BeforeBreak =>
              Break(c) \/ (Verdict(c) /\ ~Won(c))
         /\ pc'[c] \in {"lock", "break", "unlock", "surrender"} =>
              \/ pc[c] \in {"lock", "break", "unlock"}
              \/ Verdict(c) /\ Won(c)
<1>1. pc \in [Columns -> ColumnSteps]
  BY BookTypes
<1> QED BY <1>1
  DEF Column, ColumnStep, BeforeBreak, AfterBreak,
      StartWait, StartPost, GoldenRelease, GoldenGiveBack, GoldenTake, GoldenKeep,
      Relabel, CheckMiss, CheckHit, Report, ArbWait, ArbPost, Verdict, LockBricks,
      Break, UnlockBricks, Surrender

LEMMA FiniteWall ==
  /\ IsFiniteSet(Columns) /\ IsFiniteSet(Rows) /\ IsFiniteSet(Columns \X Rows)
  /\ Cardinality(Columns) = NB_COLUMNS /\ Cardinality(Rows) = NB_ROWS
  /\ Cardinality(Columns \X Rows) = NB_COLUMNS * NB_ROWS
<1>1. IsFiniteSet(Columns) /\ Cardinality(Columns) = NB_COLUMNS
  BY SizesAssumption, FS_Interval DEF Columns
<1>2. IsFiniteSet(Rows) /\ Cardinality(Rows) = NB_ROWS
  BY SizesAssumption, FS_Interval DEF Rows
<1> QED BY <1>1, <1>2, FS_Product

LEMMA FiniteStanding ==
  /\ \A c \in Columns : /\ IsFiniteSet(Standing(bricks, c))
                        /\ Cardinality(Standing(bricks, c)) \in Nat
                        /\ Cardinality(Standing(bricks, c)) = 0 <=> Standing(bricks, c) = {}
  /\ IsFiniteSet(StandingBricks)
  /\ Cardinality(StandingBricks) \in Nat
  /\ Cardinality(StandingBricks) = 0 <=> StandingBricks = {}
<1>1. \A c \in Columns : IsFiniteSet(Standing(bricks, c))
  BY FiniteWall, FS_Subset DEF Standing
<1>2. IsFiniteSet(StandingBricks)
  BY FiniteWall, FS_Subset DEF StandingBricks
<1> QED BY <1>1, <1>2, FS_CardinalityType, FS_EmptySet

-----------------------------------------------------------------------------
(* The steps of a column.                                                  *)

\* The parts that are proved here, the others being invariant by themselves.
Books ==
  /\ Counted /\ Balanced /\ HitStands /\ Retained /\ Winners /\ SoonestSoFar
  /\ BrokenThisRound /\ NothingRepaired /\ MessageNotTorn /\ EndInv

\* A column about to break is the winner, and its brick stands.
LEMMA BreakFinds ==
  ASSUME BookInv, NEW c \in Columns, pc[c] = "break", blocked[c] = "none"
  PROVE  bpc = "boost" /\ Won(c) /\ hit_row[c] \in Standing(bricks, c)
<1>1. bpc = "boost"
  BY PhaseOfColumnStep DEF BookInv, VerdictSteps
<1>2. Won(c)
  BY DEF BookInv, Winners
<1>3. next_colli = column_colli[c] /\ next_colli.happened
  BY <1>1, <1>2, ThreadIds DEF BookInv, Retained, Deciding, Won
<1> QED BY <1>1, <1>2, <1>3 DEF BookInv, HitStands, BeforeBreak

LEMMA BreakBooks ==
  ASSUME BookInv, NEW c \in Columns, Break(c)
  PROVE  Books'
<1> DEFINE r == hit_row[c]
<1>1. PhaseInv
  BY DEF BookInv
<1>2. /\ pc[c] = "break" /\ pc' = [pc EXCEPT ![c] = "unlock"] /\ blocked[c] = "none"
      /\ bricks' = [bricks EXCEPT ![c][r] = "BROKEN"]
      /\ score' = score + Increment(c)
      /\ tot_remaining_bricks' = tot_remaining_bricks - 1
      /\ remaining_bricks' = [remaining_bricks EXCEPT ![c] = @ - 1]
      /\ UNCHANGED <<bpc, blocked, game_state, golden, hit_row, column_colli,
                     model_state, next_colli, i>>
  BY DEF Break, ColumnStep, CanRun, Ready, columnVars, roundVars
<1>3. bpc = "boost" /\ Won(c) /\ r \in Standing(bricks, c) /\ r \in Rows
  BY <1>2, BreakFinds DEF Standing
<1> HIDE DEF r
<1>4. /\ \A d \in Columns, q \in Rows :
           bricks'[d][q] = IF d = c /\ q = r THEN "BROKEN" ELSE bricks[d][q]
      /\ \A d \in Columns : d # c => remaining_bricks'[d] = remaining_bricks[d]
      /\ remaining_bricks'[c] = remaining_bricks[c] - 1
      /\ pc'[c] = "unlock" /\ \A d \in Columns : d # c => pc'[d] = pc[d]
  BY <1>1, <1>2, <1>3, BookTypes
<1>5. /\ Standing(bricks, c)' = Standing(bricks, c) \ {r}
      /\ \A d \in Columns : d # c => Standing(bricks, d)' = Standing(bricks, d)
  BY <1>4 DEF Standing
<1>6. Counted'
  <2>1. Cardinality(Standing(bricks, c)') = Cardinality(Standing(bricks, c)) - 1
    BY <1>3, <1>5, FiniteStanding, FS_RemoveElement
  <2>2. Counted
    BY DEF BookInv
  <2>3. ASSUME NEW d \in Columns
        PROVE  remaining_bricks'[d] = Cardinality(Standing(bricks, d)')
    BY <1>4, <1>5, <2>1, <2>2 DEF Counted
  <2> QED BY <2>3 DEF Counted
<1>7. Balanced'
  <2>1. <<c, r>> \in StandingBricks
    BY <1>3 DEF StandingBricks
  <2>2. StandingBricks' = StandingBricks \ {<<c, r>>}
    BY <1>4 DEF StandingBricks, Standing
  <2>3. Cardinality(StandingBricks') = Cardinality(StandingBricks) - 1
    BY <2>1, <2>2, FiniteStanding, FS_RemoveElement
  <2>4. NB_COLUMNS * NB_ROWS \in Nat
    BY SizesAssumption
  <2>5. Increment(c) \in {1, 2}
    BY DEF Increment, SCORE_INC_GOLDEN, SCORE_INC_NORMAL
  <2> QED
    BY <1>1, <1>2, <2>3, <2>4, <2>5, FiniteStanding, BookTypes
       DEF BookInv, Balanced, SCORE_INC_GOLDEN, SCORE_INC_NORMAL
<1>8. HitStands'
  BY <1>2, <1>4, <1>5 DEF BookInv, HitStands, BeforeBreak
<1>9. Retained'
  BY <1>2, <1>3 DEF BookInv, Retained
<1>10. Winners'
  BY <1>2, <1>3, <1>4 DEF BookInv, Winners, Won
<1>11. SoonestSoFar'
  BY <1>2, <1>3 DEF SoonestSoFar, Collected
<1>12. NothingRepaired' /\ BrokenThisRound'
  <2>1. model_state.bricks[c][r] # "BROKEN"
    BY <1>3 DEF BookInv, NothingRepaired, Standing
  <2>2. NothingRepaired'
    BY <1>2, <1>4 DEF BookInv, NothingRepaired
  <2>3. \A d \in Columns, q \in Rows :
          HasBroken(d, q)' <=> HasBroken(d, q) \/ (d = c /\ q = r)
    BY <1>2, <1>3, <1>4, ThreadIds DEF HasBroken, Won, BeforeBreak, r
  <2>4. ~HasBroken(c, r)
    BY <1>2 DEF HasBroken, BeforeBreak
  <2>5. BrokenThisRound'
    BY <1>2, <1>3, <1>4, <2>1, <2>3, <2>4 DEF BookInv, BrokenThisRound, Playing, Deciding
  <2> QED BY <2>2, <2>5
<1>13. MessageNotTorn'
  BY <1>2 DEF BookInv, MessageNotTorn, ShownGolden
<1>14. EndInv'
  <2>1. <<c, r>> \in StandingBricks
    BY <1>3 DEF StandingBricks
  <2>2. tot_remaining_bricks # 0
    BY <2>1, FiniteStanding DEF BookInv, Balanced
  <2> QED BY <1>2, <1>3, <2>2 DEF BookInv, EndInv
<1> QED BY <1>6, <1>7, <1>8, <1>9, <1>10, <1>11, <1>12, <1>13, <1>14 DEF Books

\* A step that leaves the wall and its books alone keeps the books.
LEMMA WallIdle ==
  ASSUME BookInv, UNCHANGED <<bricks, score, remaining_bricks, tot_remaining_bricks>>
  PROVE  Counted' /\ Balanced'
BY DEF BookInv, Counted, Balanced, StandingBricks, Standing

\* A column's step outside its break: the phase, the decision and the message stay.
LEMMA ColumnDecision ==
  ASSUME BookInv, NEW c \in Columns, Column(c), ~Break(c),
         \A d \in Columns, q \in Rows :
           bricks'[d][q] = "BROKEN" <=> bricks[d][q] = "BROKEN"
  PROVE  /\ Retained' /\ Winners' /\ SoonestSoFar' /\ BrokenThisRound'
         /\ NothingRepaired' /\ MessageNotTorn' /\ EndInv'
<1>1. PhaseInv
  BY DEF BookInv
<1>2. /\ UNCHANGED <<bpc, next_colli, i, game_state, model_state, tot_remaining_bricks>>
      /\ blocked[c] = "none"
      /\ \A d \in Columns : d # c => pc'[d] = pc[d]
  BY <1>1, ColumnFrame
<1>3. bpc \notin Collecting
  BY <1>1, <1>2 DEF PhaseInv, Places, PlaceOf, BetweenRounds, Collecting,
     AtArbitration, Gone, Column, ColumnStep, StartWait, StartPost, GoldenRelease,
     GoldenGiveBack, GoldenTake, GoldenKeep, Relabel, CheckMiss, CheckHit, Report,
     ArbWait, ArbPost, Verdict, LockBricks, Break, UnlockBricks, Surrender
<1>4. bpc = "boost" => UNCHANGED <<hit_row, column_colli>>
  <2>1. CheckHit(c) \/ CheckMiss(c) => bpc = "own"
    BY <1>1, <1>2, PhaseOfColumnStep DEF CheckHit, CheckMiss, ColumnStep, CheckSteps
  <2> QED BY <1>1, <2>1, ColumnFrame
<1>5. Retained'
  <2>1. bpc # "pick" /\ (bpc \in Deciding => bpc = "boost")
    BY <1>3 DEF Deciding, Collecting
  <2> QED BY <1>2, <1>4, <2>1 DEF BookInv, Retained, Deciding, Collecting
<1>6. Winners'
  <2>1. \A d \in Columns : Won(d)' <=> Won(d)
    BY <1>2 DEF Won
  <2>2. pc'[c] \in {"lock", "break", "unlock", "surrender"} => Won(c)
    BY <1>1, ColumnGoes DEF BookInv, Winners
  <2> QED BY <1>2, <2>1, <2>2 DEF BookInv, Winners
<1>7. SoonestSoFar'
  BY <1>2, <1>3 DEF SoonestSoFar, Collected, Collecting
<1>8. BrokenThisRound'
  <2>1. bpc = "boost" /\ Won(c) => (pc'[c] \in BeforeBreak <=> pc[c] \in BeforeBreak)
    <3>1. CheckHit(c) \/ CheckMiss(c) => bpc = "own"
      BY <1>1, <1>2, PhaseOfColumnStep DEF CheckHit, CheckMiss, ColumnStep, CheckSteps
    <3> QED BY <1>1, <3>1, ColumnGoes
  <2>2. \A d \in Columns, q \in Rows : HasBroken(d, q)' <=> HasBroken(d, q)
    BY <1>2, <1>4, <2>1 DEF HasBroken, Won
  <2> QED BY <1>2, <2>2 DEF BookInv, BrokenThisRound
<1>9. NothingRepaired' /\ MessageNotTorn' /\ EndInv'
  BY <1>2 DEF BookInv, NothingRepaired, MessageNotTorn, ShownGolden, EndInv
<1> QED BY <1>5, <1>6, <1>7, <1>8, <1>9

\* The report is written with the check, and names a standing brick.
LEMMA CheckBooks ==
  ASSUME BookInv, NEW c \in Columns, CheckHit(c) \/ CheckMiss(c)
  PROVE  Books'
<1>1. PhaseInv /\ Column(c) /\ ~Break(c)
  BY DEF BookInv, Column, CheckHit, CheckMiss, Break, ColumnStep
<1>2. UNCHANGED <<bricks, score, remaining_bricks, tot_remaining_bricks>>
  BY DEF CheckHit, CheckMiss, wall
<1>3. \A d \in Columns : d # c =>
        pc'[d] = pc[d] /\ column_colli'[d] = column_colli[d] /\ hit_row'[d] = hit_row[d]
  BY <1>1, ColumnFrame, BookTypes DEF CheckHit, CheckMiss
<1>4. /\ column_colli'[c].idx = c
      /\ column_colli'[c].happened =>
           column_colli'[c].iter < MAX_ITER /\ hit_row'[c] \in Standing(bricks, c)
  <2>1. CASE CheckMiss(c)
    BY <1>1, <2>1, BookTypes DEF CheckMiss
  <2>2. CASE CheckHit(c)
    <3>1. PICK k \in 0 .. MAX_ITER - 1, r \in Rows :
            /\ bricks[c][r] # "BROKEN"
            /\ hit_row' = [hit_row EXCEPT ![c] = r]
            /\ column_colli' = [column_colli EXCEPT ![c] =
                 [idx |-> c, happened |-> TRUE, iter |-> k]]
      BY <2>2 DEF CheckHit
    <3>2. k < MAX_ITER
      BY SizesAssumption
    <3> QED BY <1>1, <3>1, <3>2, BookTypes DEF Standing
  <2> QED BY <2>1, <2>2
<1>5. HitStands'
  BY <1>2, <1>3, <1>4 DEF BookInv, HitStands, Standing
<1>6. Counted' /\ Balanced'
  BY <1>2, WallIdle
<1> QED BY <1>1, <1>2, <1>5, <1>6, ColumnDecision DEF Books

\* Relabelling breaks and repairs nothing.
LEMMA RelabelBooks ==
  ASSUME BookInv, NEW c \in Columns, Relabel(c)
  PROVE  Books'
<1>1. PhaseInv /\ Column(c) /\ ~Break(c)
  BY DEF BookInv, Column, Relabel, Break, ColumnStep
<1>2. \A d \in Columns, q \in Rows :
        bricks'[d][q] = "BROKEN" <=> bricks[d][q] = "BROKEN"
  BY <1>1, BookTypes DEF Relabel
<1>3. \A d \in Columns : Standing(bricks, d)' = Standing(bricks, d)
  BY <1>2 DEF Standing
<1>4. StandingBricks' = StandingBricks
  BY <1>3 DEF StandingBricks
<1>5. UNCHANGED <<score, remaining_bricks, tot_remaining_bricks, hit_row, column_colli>>
  BY DEF Relabel, columnVars
<1>6. Counted' /\ Balanced'
  BY <1>3, <1>4, <1>5 DEF BookInv, Counted, Balanced
<1>7. HitStands'
  <2>1. /\ \A d \in Columns : d # c => pc'[d] = pc[d]
        /\ pc'[c] \in BeforeBreak => pc[c] \in BeforeBreak
    BY <1>1, ColumnFrame, BookTypes DEF Relabel, ColumnStep, BeforeBreak
  <2> QED BY <1>3, <1>5, <2>1 DEF BookInv, HitStands
<1> QED BY <1>1, <1>2, <1>6, <1>7, ColumnDecision DEF Books

LEMMA ColumnBooks ==
  ASSUME BookInv, NEW c \in Columns, Column(c)
  PROVE  Books'
<1>1. CASE Break(c)
  BY <1>1, BreakBooks
<1>2. CASE CheckHit(c) \/ CheckMiss(c)
  BY <1>2, CheckBooks
<1>3. CASE Relabel(c)
  BY <1>3, RelabelBooks
<1>4. CASE ~Break(c) /\ ~CheckHit(c) /\ ~CheckMiss(c) /\ ~Relabel(c)
  <2>1. /\ UNCHANGED <<bricks, score, remaining_bricks, tot_remaining_bricks, hit_row,
                       column_colli>>
        /\ \A d \in Columns : d # c => pc'[d] = pc[d]
        /\ pc'[c] \in BeforeBreak => pc[c] \in BeforeBreak
    BY <1>4, ColumnFrame, ColumnGoes DEF BookInv
  <2>2. HitStands'
    BY <2>1 DEF BookInv, HitStands, Standing
  <2>3. Counted' /\ Balanced'
    BY <2>1, WallIdle
  <2> QED BY <1>4, <2>1, <2>2, <2>3, ColumnDecision DEF Books
<1> QED BY <1>1, <1>2, <1>3, <1>4

-----------------------------------------------------------------------------
(* The steps of the ball thread.                                           *)

\* A step of the ball touches neither the wall nor what the columns keep.
LEMMA BallFrame ==
  ASSUME BallThread
  PROVE  /\ CanRun(Ball)
         /\ UNCHANGED <<pc, bricks, score, remaining_bricks, tot_remaining_bricks,
                        golden, hit_row, column_colli>>
         /\ ~OwnCheck /\ ~PickColumn => UNCHANGED next_colli
         /\ ~Snapshot /\ ~Prepare => UNCHANGED model_state
         /\ ~Snapshot /\ ~OwnCheck => UNCHANGED game_state
BY DEF BallThread, BallStep, wall, columnVars, roundVars, Announce, Snapshot, BeginRound,
       SkipRound, RetakeVerdict, OpenRound, OwnCheck, SkipColumn, AwaitColumn,
       PickColumn, CloseRound, Confirm, Boost, Prepare, Send

\* When the ball steps, no column is near a verdict.
LEMMA NobodyActs ==
  ASSUME PhaseInv, CanRun(Ball)
  PROVE  \A c \in Columns : pc[c] \in {"start_post", "arb_post", "exited"}
BY QuietForBall DEF AtStart, AtArbitration, Gone

\* Parts that every step of the ball keeps for the same reasons.
LEMMA BallKeeps ==
  ASSUME BookInv, BallThread
  PROVE  Counted' /\ Balanced' /\ HitStands' /\ Winners'
<1>1. Counted' /\ Balanced'
  BY BallFrame, WallIdle
<1>2. HitStands'
  BY BallFrame DEF BookInv, HitStands, Standing
<1>3. Winners'
  BY BallFrame, NobodyActs DEF BookInv, Winners
<1> QED BY <1>1, <1>2, <1>3

\* The critical section at the top of the loop copies a wall no column repaints.
LEMMA SnapshotBooks ==
  ASSUME BookInv, Snapshot
  PROVE  Books'
<1>1. BallThread /\ PhaseInv /\ GoldenInv /\ LabelInv
  BY DEF BookInv, BallThread
<1>2. /\ bpc = "snapshot" /\ bpc' = "test" /\ CanRun(Ball)
      /\ UNCHANGED <<pc, bricks, golden, tot_remaining_bricks>>
      /\ model_state' = [model_state EXCEPT !.score = score, !.bricks = bricks]
      /\ game_state' = IF tot_remaining_bricks = 0 THEN "WON" ELSE game_state
  BY DEF Snapshot, BallStep, wall, columnVars
<1>3. model_state'.bricks = bricks
  BY <1>1, <1>2, BookTypes DEF Messages
<1>4. Retained' /\ SoonestSoFar'
  BY <1>2 DEF Retained, SoonestSoFar, Collected, Deciding, Collecting
<1>5. BrokenThisRound' /\ NothingRepaired'
  BY <1>2, <1>3 DEF BrokenThisRound, NothingRepaired, HasBroken
<1>6. MessageNotTorn'
  <2>1. ASSUME NEW c \in ShownGolden'
        PROVE  c \in Holders /\ \A r \in Rows : bricks[c][r] # "NORMAL"
    <3>1. c \in Columns
      BY DEF ShownGolden
    <3>2. PICK q \in Rows : bricks[c][q] = "GOLDEN"
      BY <1>3 DEF ShownGolden
    <3>3. pc[c] # "relabel"
      BY <1>1, <1>2, <3>1, NobodyActs
    <3>4. q \in Standing(bricks, c)
      BY <3>2 DEF Standing
    <3>5. golden[c]
      BY <1>1, <3>1, <3>2, <3>3, <3>4 DEF LabelInv, LabelsMatchHolders
    <3>6. pc[c] # "exited"
      <4>1. remaining_bricks[c] # 0
        BY <3>1, <3>4, FiniteStanding DEF BookInv, Counted
      <4> QED BY <1>1, <3>1, <4>1 DEF PhaseInv, Leaving
    <3>7. \A r \in Rows : bricks[c][r] # "NORMAL"
      BY <1>1, <3>1, <3>3, <3>5 DEF LabelInv, LabelsMatchHolders, Standing
    <3> QED BY <3>1, <3>5, <3>6, <3>7 DEF Holders
  <2>2. ShownGolden' \subseteq Holders
    BY <2>1
  <2>3. Cardinality(ShownGolden') <= Cardinality(Holders)
    BY <2>2, HoldersFinite, FS_Subset
  <2>4. /\ Cardinality(Holders) \in Nat /\ Cardinality(ShownGolden') \in Nat
        /\ sem["golden_brick"] \in Int
    BY <1>1, <2>2, HoldersFinite, FS_Subset, FS_CardinalityType
       DEF PhaseInv, TypeInv, TypeOK, Semaphores
  <2>5. Cardinality(ShownGolden') <= NB_GOLDEN_COLS
    BY <1>1, <2>3, <2>4, SizesAssumption DEF GoldenInv, GoldenConserved
  <2> QED BY <1>3, <2>1, <2>5 DEF MessageNotTorn
<1>7. EndInv'
  BY <1>2 DEF BookInv, EndInv
<1> QED BY <1>1, <1>4, <1>5, <1>6, <1>7, BallKeeps DEF Books

\* Outside the snapshot the message keeps its wall, and what the round has broken
\* is what the columns have broken.
LEMMA BallWall ==
  ASSUME BookInv, BallThread, ~Snapshot
  PROVE  BrokenThisRound' /\ NothingRepaired' /\ MessageNotTorn' /\ EndInv'
<1>1. PhaseInv
  BY DEF BookInv
<1>2. /\ CanRun(Ball)
      /\ UNCHANGED <<pc, bricks, tot_remaining_bricks, hit_row>>
      /\ ~OwnCheck /\ ~PickColumn => UNCHANGED next_colli
      /\ ~OwnCheck => UNCHANGED game_state
  BY BallFrame
<1>3. model_state'.bricks = model_state.bricks
  BY <1>1, BallFrame, BookTypes DEF Prepare, Messages
<1>4. NothingRepaired' /\ MessageNotTorn'
  BY <1>2, <1>3 DEF BookInv, NothingRepaired, MessageNotTorn, ShownGolden
<1>5. /\ bpc' # "test"
      /\ bpc' \in Playing => bpc \in Playing /\ bpc # "boost"
      /\ bpc' = "boost" => bpc = "confirm" /\ UNCHANGED next_colli
      /\ bpc' = "retake" => bpc = "test" /\ game_state = "RUNNING"
      /\ bpc' = "open" => bpc = "retake"
  BY DEF BallThread, BallStep, Playing, Deciding, Collecting, AfterColumn, roundVars,
         Announce, Snapshot, BeginRound, SkipRound, RetakeVerdict, OpenRound, OwnCheck,
         SkipColumn, AwaitColumn, PickColumn, CloseRound, Confirm, Boost, Prepare, Send
<1>6. BrokenThisRound'
  <2> SUFFICES ASSUME bpc' \in Playing, NEW c \in Columns, NEW r \in Rows
               PROVE  model_state.bricks[c][r] # "BROKEN" /\ bricks[c][r] = "BROKEN"
                        <=> HasBroken(c, r)'
    BY <1>2, <1>3 DEF BrokenThisRound
  <2>1. ~HasBroken(c, r)
    BY <1>5 DEF HasBroken
  <2>2. ~HasBroken(c, r)'
    <3> SUFFICES ASSUME HasBroken(c, r)' PROVE FALSE
      OBVIOUS
    <3>1. bpc = "confirm" /\ Won(c)
      BY <1>5 DEF HasBroken, Won
    <3>2. AtArbitration(next_colli.idx) /\ next_colli.idx = c
      BY <3>1, ThreadIds DEF BookInv, Retained, Deciding, Collecting, Won
    <3>3. pc[c] = "arb_post"
      BY <3>2 DEF AtArbitration
    <3> QED BY <1>2, <3>3 DEF HasBroken, BeforeBreak
  <2> QED BY <1>5, <2>1, <2>2 DEF BookInv, BrokenThisRound
<1>7. EndInv'
  <2>1. game_state' = "WON" => game_state = "WON"
    BY <1>2 DEF OwnCheck
  <2> QED BY <1>2, <1>5, <2>1 DEF BookInv, EndInv
<1> QED BY <1>4, <1>6, <1>7

\* While the ball collects, the columns stay at the arbitration.
LEMMA StayAtArbitration ==
  ASSUME PhaseInv, BallThread, bpc \in {"own"} \cup Collecting, bpc' \in Collecting
  PROVE  \A c \in Columns : AtArbitration(c)' <=> AtArbitration(c)
<1>1. PhaseInv'
  BY BallPhaseInv
<1>2. \A c \in Columns : AtArbitration(c) \/ Gone(c)
  BY BallAlone, BallFrame
<1>3. \A c \in Columns : AtArbitration(c)' \/ Gone(c)'
  BY <1>1 DEF PhaseInv, Places, PlaceOf
<1> QED BY <1>2, <1>3, BallFrame DEF AtArbitration, Gone

\* The ball's own collision opens the arbitration.
LEMMA OwnCheckBooks ==
  ASSUME BookInv, OwnCheck
  PROVE  Retained' /\ SoonestSoFar'
<1>1. bpc = "own" /\ bpc' = "collect" /\ i' = 0
  BY DEF OwnCheck, BallStep
<1>2. \/ next_colli' = [idx |-> Nobody, happened |-> FALSE, iter |-> MAX_ITER]
      \/ \E k \in 0 .. MAX_ITER - 1 :
           next_colli' = [idx |-> Nobody, happened |-> TRUE, iter |-> k]
  BY DEF OwnCheck
<1>3. Retained'
  BY <1>1, <1>2 DEF Retained, Deciding, Collecting
<1>4. SoonestSoFar'
  BY <1>1 DEF SoonestSoFar, Collected, Columns
<1> QED BY <1>3, <1>4

\* A column that has left has nothing to collect.
LEMMA SkipColumnBooks ==
  ASSUME BookInv, SkipColumn
  PROVE  Retained' /\ SoonestSoFar'
<1>1. /\ PhaseInv /\ BallThread /\ CanRun(Ball)
      /\ bpc = "collect" /\ remaining_bricks[i] = 0 /\ i' = i + 1
      /\ bpc' \in {"collect", "close"}
      /\ bpc' = "close" => i + 1 = NB_COLUMNS
      /\ UNCHANGED <<next_colli, column_colli>>
  BY DEF BookInv, BallThread, SkipColumn, BallStep, AfterColumn, columnVars
<1>2. \A c \in Columns : AtArbitration(c)' <=> AtArbitration(c)
  BY <1>1, StayAtArbitration DEF Collecting
<1>3. i \in Columns /\ i \in Int /\ \A c \in Columns : c \in Int /\ c < NB_COLUMNS
  BY <1>1, SizesAssumption DEF PhaseInv, TypeInv, IndexInv, Columns
<1>4. ~AtArbitration(i)
  BY <1>1, <1>3 DEF PhaseInv, Leaving, AtArbitration
<1>5. Retained'
  <2>1. next_colli.idx # Nobody => next_colli.idx \in Columns
    BY <1>1, BookTypes DEF Collisions
  <2> QED BY <1>1, <1>2, <2>1 DEF BookInv, Retained, Deciding, Collecting
<1>6. SoonestSoFar'
  <2>1. ASSUME NEW c \in Columns, Collected(c)'
        PROVE  Collected(c)
    <3>1. AtArbitration(c) /\ c # i /\ c < i + 1
      BY <1>1, <1>2, <1>3, <1>4, <2>1 DEF Collected
    <3> QED BY <1>1, <1>3, <3>1 DEF Collected
  <2> QED BY <1>1, <2>1 DEF BookInv, SoonestSoFar
<1> QED BY <1>5, <1>6

LEMMA AwaitColumnBooks ==
  ASSUME BookInv, AwaitColumn
  PROVE  Retained' /\ SoonestSoFar'
<1>1. /\ PhaseInv /\ BallThread /\ CanRun(Ball)
      /\ bpc = "collect" /\ bpc' = "pick" /\ remaining_bricks[i] # 0
      /\ UNCHANGED <<i, next_colli, column_colli>>
  BY DEF BookInv, BallThread, AwaitColumn, BallStep, columnVars, roundVars
<1>2. \A c \in Columns : AtArbitration(c)' <=> AtArbitration(c)
  BY <1>1, StayAtArbitration DEF Collecting
<1>3. i \in Columns
  BY <1>1 DEF PhaseInv, TypeInv, IndexInv
<1>4. AtArbitration(i)
  BY <1>1, <1>3, BallAlone DEF PhaseInv, Collecting, Leaving, Gone
<1>5. \A c \in Columns : c = i => AtArbitration(c)'
  BY <1>2, <1>4
<1>6. Retained'
  <2>1. next_colli.idx # Nobody => next_colli.idx \in Columns
    BY <1>1, BookTypes DEF Collisions
  <2>2. AtArbitration(i)'
    BY <1>1, <1>3, <1>5 DEF AtArbitration
  <2> QED BY <1>1, <1>2, <2>1, <2>2 DEF BookInv, Retained, Deciding, Collecting
<1>7. SoonestSoFar'
  BY <1>1, <1>2 DEF BookInv, SoonestSoFar, Collected
<1> QED BY <1>6, <1>7

\* The retained collision is replaced by a sooner one only.
LEMMA PickColumnBooks ==
  ASSUME BookInv, PickColumn
  PROVE  Retained' /\ SoonestSoFar'
<1>1. /\ PhaseInv /\ BallThread /\ CanRun(Ball)
      /\ bpc = "pick" /\ i' = i + 1
      /\ bpc' \in {"collect", "close"}
      /\ bpc' = "close" => i + 1 = NB_COLUMNS
      /\ next_colli' = IF Sooner(column_colli[i], next_colli)
                       THEN column_colli[i] ELSE next_colli
      /\ UNCHANGED column_colli
  BY DEF BookInv, BallThread, PickColumn, BallStep, AfterColumn, columnVars
<1>2. \A c \in Columns : AtArbitration(c)' <=> AtArbitration(c)
  BY <1>1, StayAtArbitration DEF Collecting
<1>3. i \in Columns /\ i \in Int /\ \A c \in Columns : c \in Int /\ c < NB_COLUMNS
  BY <1>1, SizesAssumption DEF PhaseInv, TypeInv, IndexInv, Columns
<1>4. AtArbitration(i) /\ column_colli[i].idx = i
  BY <1>1, <1>3 DEF BookInv, Retained, HitStands, AtArbitration, BeforeBreak
<1>5. /\ next_colli.iter \in 0 .. MAX_ITER /\ next_colli.happened \in BOOLEAN
      /\ \A c \in Columns : /\ column_colli[c].iter \in 0 .. MAX_ITER
                            /\ column_colli[c].happened \in BOOLEAN
                            /\ column_colli[c].happened => column_colli[c].iter < MAX_ITER
      /\ next_colli.idx # Nobody => next_colli.idx \in Columns
  BY <1>1, BookTypes DEF BookInv, HitStands, Collisions
<1>6. CASE Sooner(column_colli[i], next_colli)
  <2>1. /\ next_colli' = column_colli[i] /\ column_colli[i].happened
        /\ column_colli[i].iter < next_colli.iter
    BY <1>1, <1>6 DEF Sooner
  <2>2. /\ next_colli'.idx = i /\ next_colli'.happened
        /\ next_colli' = column_colli'[next_colli'.idx]
    BY <1>1, <1>4, <2>1
  <2>3. \A c \in Columns : c = i => AtArbitration(c)'
    BY <1>2, <1>4
  <2>4. AtArbitration(next_colli.idx)'
    BY <1>3, <2>2, <2>3 DEF AtArbitration
  <2>5. Retained'
    BY <1>1, <2>2, <2>4 DEF Retained
  <2>6. ASSUME NEW c \in Columns, Collected(c)', column_colli[c].happened
        PROVE  next_colli'.iter <= column_colli[c].iter
    <3>1. AtArbitration(c) /\ c < i + 1
      BY <1>1, <1>2, <1>3, <2>6 DEF Collected
    <3>2. CASE c = i
      BY <1>5, <2>1, <3>2
    <3>3. CASE c < i
      <4>1. next_colli.iter <= column_colli[c].iter
        BY <1>1, <2>6, <3>1, <3>3 DEF BookInv, SoonestSoFar, Collected
      <4> QED BY <1>3, <1>5, <2>1, <4>1
    <3> QED BY <1>3, <3>1, <3>2, <3>3
  <2>7. SoonestSoFar'
    BY <1>1, <2>2, <2>6 DEF SoonestSoFar
  <2> QED BY <2>5, <2>7
<1>7. CASE ~Sooner(column_colli[i], next_colli)
  <2>1. next_colli' = next_colli
    BY <1>1, <1>7
  <2>2. column_colli[i].happened => next_colli.iter <= column_colli[i].iter
    BY <1>3, <1>5, <1>7 DEF Sooner
  <2>3. column_colli[i].happened => next_colli.happened
    BY <1>1, <1>3, <1>5, <2>2, SizesAssumption DEF BookInv, Retained, Deciding, Collecting
  <2>4. Retained'
    BY <1>1, <1>2, <1>5, <2>1 DEF BookInv, Retained, Deciding, Collecting
  <2>5. ASSUME NEW c \in Columns, Collected(c)', column_colli[c].happened
        PROVE  next_colli.happened /\ next_colli.iter <= column_colli[c].iter
    <3>1. AtArbitration(c) /\ c < i + 1
      BY <1>1, <1>2, <1>3, <2>5 DEF Collected
    <3>2. CASE c = i
      BY <2>2, <2>3, <2>5, <3>2
    <3>3. CASE c < i
      BY <1>1, <2>5, <3>1, <3>3 DEF BookInv, SoonestSoFar, Collected
    <3> QED BY <1>3, <3>1, <3>2, <3>3
  <2>6. SoonestSoFar'
    BY <1>1, <2>1, <2>5 DEF SoonestSoFar
  <2> QED BY <2>4, <2>6
<1> QED BY <1>6, <1>7

LEMMA CloseRoundBooks ==
  ASSUME BookInv, CloseRound
  PROVE  Retained' /\ SoonestSoFar'
<1>1. /\ PhaseInv /\ BallThread
      /\ bpc = "close" /\ bpc' = "confirm"
      /\ UNCHANGED <<next_colli, column_colli>>
  BY DEF BookInv, BallThread, CloseRound, BallStep, columnVars, roundVars
<1>2. \A c \in Columns : AtArbitration(c)' <=> AtArbitration(c)
  BY <1>1, StayAtArbitration DEF Collecting
<1>3. next_colli.idx # Nobody => next_colli.idx \in Columns
  BY <1>1, BookTypes DEF Collisions
<1>4. Retained'
  BY <1>1, <1>2, <1>3 DEF BookInv, Retained, Deciding, Collecting
<1>5. SoonestSoFar'
  BY <1>1, <1>2 DEF BookInv, SoonestSoFar, Collected
<1> QED BY <1>4, <1>5

LEMMA ConfirmBooks ==
  ASSUME BookInv, Confirm
  PROVE  Retained' /\ SoonestSoFar'
<1>1. bpc = "confirm" /\ bpc' = "boost" /\ UNCHANGED <<next_colli, column_colli>>
  BY DEF Confirm, BallStep, columnVars, roundVars
<1> QED BY <1>1 DEF BookInv, Retained, SoonestSoFar, Collected, Deciding, Collecting

LEMMA BallBooks ==
  ASSUME BookInv, BallThread
  PROVE  Books'
<1>1. CASE Snapshot
  BY <1>1, SnapshotBooks
<1>2. CASE ~Snapshot
  <2>1. Retained' /\ SoonestSoFar'
    <3>1. CASE \/ OwnCheck \/ SkipColumn \/ AwaitColumn \/ PickColumn \/ CloseRound
               \/ Confirm
      BY <3>1, OwnCheckBooks, SkipColumnBooks, AwaitColumnBooks, PickColumnBooks,
         CloseRoundBooks, ConfirmBooks
    <3>2. CASE \/ Announce \/ BeginRound \/ SkipRound \/ RetakeVerdict \/ OpenRound
               \/ Boost \/ Prepare \/ Send
      <4>1. bpc' \notin Deciding
        BY <3>2 DEF BallStep, Deciding, Collecting, Announce, BeginRound, SkipRound,
                    RetakeVerdict, OpenRound, Boost, Prepare, Send
      <4> QED BY <4>1 DEF Retained, SoonestSoFar, Collected, Deciding, Collecting
    <3> QED BY <1>2, <3>1, <3>2 DEF BallThread
  <2> QED BY <1>2, <2>1, BallKeeps, BallWall DEF Books
<1> QED BY <1>1, <1>2

-----------------------------------------------------------------------------
(* The invariant holds.                                                    *)

LEMMA InitBookInv == Init => BookInv
<1> SUFFICES ASSUME Init PROVE BookInv
  OBVIOUS
<1>1. PhaseInv /\ GoldenInv /\ LabelInv
  BY InitPhaseInv, InitGoldenInv, InitLabelInv
<1>2. /\ pc = [c \in Columns |-> "start_wait"] /\ bpc = "announce"
      /\ bricks = [c \in Columns |-> [r \in Rows |-> "NORMAL"]]
      /\ model_state.bricks = bricks /\ score = 0 /\ game_state = "WAITING"
      /\ remaining_bricks = [c \in Columns |-> NB_ROWS]
      /\ tot_remaining_bricks = NB_COLUMNS * NB_ROWS
      /\ column_colli = [c \in Columns |-> NoCollision]
  BY DEF Init
<1>3. \A c \in Columns : Standing(bricks, c) = Rows
  BY <1>2 DEF Standing
<1>4. Counted
  BY <1>2, <1>3, FiniteWall DEF Counted
<1>5. Balanced
  <2>1. StandingBricks = Columns \X Rows
    BY <1>3 DEF StandingBricks
  <2>2. NB_COLUMNS * NB_ROWS \in Nat
    BY SizesAssumption
  <2> QED BY <1>2, <2>1, <2>2, FiniteWall
          DEF Balanced, SCORE_INC_NORMAL, SCORE_INC_GOLDEN
<1>6. HitStands /\ Winners
  BY <1>2 DEF HitStands, BeforeBreak, Winners, NoCollision
<1>7. Retained /\ SoonestSoFar /\ BrokenThisRound
  BY <1>2 DEF Retained, SoonestSoFar, Collected, BrokenThisRound, Deciding, Collecting,
              Playing
<1>8. NothingRepaired /\ EndInv
  BY <1>2 DEF NothingRepaired, EndInv
<1>9. MessageNotTorn
  <2>1. ShownGolden = {}
    BY <1>2 DEF ShownGolden
  <2> QED BY <2>1, FS_EmptySet, SizesAssumption DEF MessageNotTorn
<1> QED BY <1>1, <1>4, <1>5, <1>6, <1>7, <1>8, <1>9 DEF BookInv

LEMMA NextBookInv == BookInv /\ [Next]_vars => BookInv'
<1> SUFFICES ASSUME BookInv, [Next]_vars PROVE BookInv'
  OBVIOUS
<1>1. PhaseInv' /\ GoldenInv' /\ LabelInv'
  BY NextPhaseInv, NextGoldenInv, NextLabelInv DEF BookInv
<1> SUFFICES Books'
  BY <1>1 DEF BookInv, Books
<1>2. CASE \E c \in Columns : Column(c)
  BY <1>2, ColumnBooks
<1>3. CASE BallThread
  BY <1>3, BallBooks
<1>4. CASE CenterPress \/ UNCHANGED vars
  <2>1. /\ UNCHANGED <<pc, bpc, blocked, bricks, score, remaining_bricks,
                       tot_remaining_bricks, hit_row, column_colli, model_state,
                       next_colli, i>>
        /\ game_state' = "WON" <=> game_state = "WON"
    BY <1>4 DEF CenterPress, vars, sync, wall, columnVars, roundVars
  <2>2. Counted' /\ Balanced'
    BY <2>1, WallIdle
  <2>3. HitStands' /\ Winners'
    BY <2>1 DEF BookInv, HitStands, Winners, Won, Standing
  <2>4. Retained' /\ SoonestSoFar'
    BY <2>1 DEF BookInv, Retained, SoonestSoFar, Collected, AtArbitration
  <2>5. BrokenThisRound' /\ NothingRepaired' /\ MessageNotTorn' /\ EndInv'
    BY <2>1 DEF BookInv, BrokenThisRound, HasBroken, Won, NothingRepaired,
                MessageNotTorn, ShownGolden, EndInv
  <2> QED BY <2>2, <2>3, <2>4, <2>5 DEF Books
<1> QED BY <1>2, <1>3, <1>4 DEF Next

LEMMA BookInvariance == Spec => []BookInv
BY InitBookInv, NextBookInv, PTL DEF Spec

-----------------------------------------------------------------------------
(* The theorems.                                                           *)

\* For a wall of any size, remaining_bricks, tot_remaining_bricks and the score
\* (main_model.c:317-320) agree with the bricks that stand after every step, so
\* the unsigned counters never wrap.
THEOREM BooksAlwaysBalance == Spec => []BooksBalance
<1>1. BookInv => BooksBalance
  <2> SUFFICES ASSUME BookInv PROVE BooksBalance
    OBVIOUS
  <2>1. NB_COLUMNS * NB_ROWS \in Nat
    BY SizesAssumption
  <2> QED
    BY <2>1, FiniteStanding, BookTypes
    DEF BookInv, Counted, Balanced, StandingBricks, BooksBalance, SCORE_INC_NORMAL,
        SCORE_INC_GOLDEN
<1> QED BY <1>1, BookInvariance, PTL

\* For any number of columns and golden resources, the wall copied into the
\* message (main_model.c:346) has no half-painted column and no golden one too many.
THEOREM MessageIsWhole == Spec => []MessageNotTorn
<1>1. BookInv => MessageNotTorn
  BY DEF BookInv
<1> QED BY <1>1, BookInvariance, PTL

\* For any number of columns, a round breaks the brick of the collision it
\* retained and no other (main_model.c:308-326).
THEOREM RoundBreaksOneBrick == Spec => []RoundBreaksTheHitBrick
<1>1. BookInv => RoundBreaksTheHitBrick
  <2> SUFFICES ASSUME BookInv, bpc = "boost", CanRun(Ball)
               PROVE  BrokenSinceSnapshot =
                        IF next_colli.happened /\ next_colli.idx # Nobody
                        THEN {<<next_colli.idx, hit_row[next_colli.idx]>>} ELSE {}
    BY DEF RoundBreaksTheHitBrick
  <2>1. PhaseInv
    BY DEF BookInv
  <2>2. \A c \in Columns : pc[c] \notin BeforeBreak
    BY <2>1, BallAlone DEF AtStart, Gone, BeforeBreak
  <2>3. \A c \in Columns, r \in Rows :
          <<c, r>> \in BrokenSinceSnapshot <=> Won(c) /\ r = hit_row[c]
    BY <2>2 DEF BookInv, BrokenThisRound, Playing, Deciding, HasBroken,
                BrokenSinceSnapshot, Standing
  <2>4. BrokenSinceSnapshot \subseteq Columns \X Rows
    BY DEF BrokenSinceSnapshot
  <2>5. /\ hit_row \in [Columns -> Rows]
        /\ next_colli.idx # Nobody => next_colli.idx \in Columns
    BY <2>1, BookTypes DEF Collisions
  <2>6. CASE next_colli.happened /\ next_colli.idx # Nobody
    BY <2>3, <2>4, <2>5, <2>6 DEF Won
  <2>7. CASE ~(next_colli.happened /\ next_colli.idx # Nobody)
    BY <2>3, <2>4, <2>7, ThreadIds DEF Won
  <2> QED BY <2>6, <2>7
<1> QED BY <1>1, BookInvariance, PTL

\* For any number of columns, the arbitration (main_model.c:404-427) retains the
\* soonest collision of this round, having heard every column that has bricks.
THEOREM SoonestCollisionWins == Spec => []SoonestWins
<1>1. BookInv => SoonestWins
  <2> SUFFICES ASSUME BookInv, bpc = "confirm", NEW c \in Columns,
                      Standing(model_state.bricks, c) # {}
               PROVE  /\ pc[c] \in {"arb_wait", "arb_post"}
                      /\ column_colli[c].happened =>
                           next_colli.happened /\ next_colli.iter <= column_colli[c].iter
    BY DEF SoonestWins
  <2>1. PICK r \in Rows : model_state.bricks[c][r] # "BROKEN"
    BY DEF Standing
  <2>2. bricks[c][r] # "BROKEN"
    BY <2>1 DEF BookInv, BrokenThisRound, Playing, Deciding, Collecting, HasBroken
  <2>3. remaining_bricks[c] # 0
    BY <2>2, FiniteStanding DEF BookInv, Counted, Standing
  <2>4. AtArbitration(c)
    BY <2>3 DEF BookInv, PhaseInv, Leaving, Places, PlaceOf, Collecting, Gone
  <2> QED BY <2>4 DEF AtArbitration, BookInv, SoonestSoFar, Collected
<1> QED BY <1>1, BookInvariance, PTL

\* For a wall of any size, a round opens only while bricks stand and the game is
\* won only when none does (main_model.c:348, 351).
THEOREM WonOnlyOnEmptyWall == Spec => []WonOnEmptyWall
<1>1. BookInv => WonOnEmptyWall
  <2> SUFFICES ASSUME BookInv PROVE WonOnEmptyWall
    OBVIOUS
  <2> QED BY FiniteStanding DEF BookInv, EndInv, Balanced, WonOnEmptyWall
<1> QED BY <1>1, BookInvariance, PTL

-----------------------------------------------------------------------------
(* The speed.                                                              *)

\* During a round the raises count the multiples in the score of its snapshot,
\* and the score has at most the points of one brick more, none before the break.
\* From the round's end to the next snapshot they count those in the score.
BoostInv ==
  /\ bpc \in Playing =>
       /\ boosts = model_state.score \div SCORE_VEL_STEP
       /\ model_state.score <= score /\ score <= model_state.score + SCORE_INC_GOLDEN
       /\ bpc # "boost" => score = model_state.score
       /\ \A c \in Columns : Won(c) /\ pc[c] \in BeforeBreak => score = model_state.score
  /\ bpc \notin Playing => boosts = score \div SCORE_VEL_STEP

\* One round crosses at most one multiple.
LEMMA OneMultiple ==
  ASSUME NEW m \in Nat, NEW n \in Nat, NEW d \in Nat, d >= SCORE_INC_GOLDEN,
         m <= n, n <= m + SCORE_INC_GOLDEN
  PROVE  /\ m \div d \in Int
         /\ n \div d = IF m \div d < n \div d THEN (m \div d) + 1 ELSE m \div d
<1> DEFINE q == m \div d
           p == n \div d
<1>1. d > 0 /\ d >= 2
  BY DEF SCORE_INC_GOLDEN
<1>2. q \in Int /\ d * q <= m /\ m < d * q + d
  BY <1>1
<1>3. p \in Int /\ d * p <= n /\ n < d * p + d
  BY <1>1
<1> HIDE DEF q, p
<1>4. d * p \in Int /\ d * q \in Int
  BY <1>2, <1>3
<1>5. d * (p + 1) = d * p + d /\ d * (q + 2) = d * q + d + d
  BY <1>2, <1>3
<1>6. d * q < d * (p + 1) /\ d * p < d * (q + 2)
  BY <1>1, <1>2, <1>3, <1>4, <1>5 DEF SCORE_INC_GOLDEN
<1>7. \A a, b \in Int : d * a < d * b => a < b
  BY <1>1
<1>8. q < p + 1 /\ p < q + 2
  BY <1>2, <1>3, <1>6, <1>7
<1>9. p = IF q < p THEN q + 1 ELSE q
  BY <1>2, <1>3, <1>8
<1> QED BY <1>2, <1>9 DEF q, p

LEMMA NextBoostInv ==
  ASSUME SCORE_VEL_STEP >= SCORE_INC_GOLDEN, BookInv, BoostInv, [Next]_vars
  PROVE  BoostInv'
<1>1. PhaseInv /\ score \in Nat /\ model_state.score \in Nat /\ SCORE_VEL_STEP \in Nat
  BY BookTypes, ThresholdAssumption DEF BookInv, Messages
<1>2. CASE \E c \in Columns : Column(c)
  <2>1. PICK c \in Columns : Column(c)
    BY <1>2
  <2>2. /\ UNCHANGED <<bpc, next_colli, model_state, boosts>>
        /\ \A d \in Columns : d # c => pc'[d] = pc[d]
        /\ ~Break(c) => UNCHANGED score
    BY <1>1, <2>1, ColumnFrame, ColumnBoosts
  <2>3. CASE Break(c)
    <3>1. /\ pc[c] = "break" /\ blocked[c] = "none" /\ pc' = [pc EXCEPT ![c] = "unlock"]
          /\ score' = score + Increment(c)
      BY <2>3 DEF Break, ColumnStep, CanRun, Ready
    <3>2. bpc = "boost" /\ Won(c)
      BY <3>1, BreakFinds
    <3>3. score = model_state.score /\ boosts = model_state.score \div SCORE_VEL_STEP
      BY <3>1, <3>2 DEF BoostInv, BeforeBreak, Playing, Deciding
    <3>4. Increment(c) \in 1 .. 2
      BY DEF Increment, SCORE_INC_GOLDEN, SCORE_INC_NORMAL
    <3>5. \A d \in Columns : Won(d) => pc'[d] \notin BeforeBreak
      BY <1>1, <3>1, <3>2, BookTypes DEF Won, BeforeBreak
    <3>6. /\ model_state.score <= score' /\ score' <= model_state.score + SCORE_INC_GOLDEN
      BY <1>1, <3>1, <3>3, <3>4 DEF SCORE_INC_GOLDEN
    <3>7. \A d \in Columns : Won(d)' <=> Won(d)
      BY <2>2 DEF Won
    <3>8. "boost" \in Playing
      BY DEF Playing, Deciding
    <3> QED BY <2>2, <3>2, <3>3, <3>5, <3>6, <3>7, <3>8 DEF BoostInv
  <2>4. CASE ~Break(c)
    <3>1. ASSUME NEW d \in Columns, Won(d)', pc'[d] \in BeforeBreak, bpc = "boost"
          PROVE  Won(d) /\ pc[d] \in BeforeBreak
      <4>1. ~CheckHit(c) /\ ~CheckMiss(c)
        BY <1>1, <3>1, ColumnFrame, PhaseOfColumnStep, <2>1
           DEF CheckHit, CheckMiss, ColumnStep, CheckSteps
      <4> QED BY <1>1, <2>1, <2>2, <3>1, <4>1, ColumnGoes DEF Won
    <3> QED BY <2>2, <2>4, <3>1 DEF BoostInv
  <2> QED BY <2>3, <2>4
<1>3. CASE BallThread
  <2>1. UNCHANGED <<pc, score>> /\ CanRun(Ball)
    BY <1>3, BallFrame
  <2>2. CASE Snapshot
    <3>1. bpc = "snapshot" /\ bpc' = "test" /\ UNCHANGED boosts /\ model_state'.score = score
      BY <1>1, <2>2, BookTypes DEF Snapshot, BallStep, Messages, roundVars
    <3>2. boosts = score \div SCORE_VEL_STEP
      BY <3>1 DEF BoostInv, Playing, Deciding, Collecting
    <3> QED BY <1>1, <2>1, <3>1, <3>2 DEF BoostInv, Playing, SCORE_INC_GOLDEN
  <2>3. CASE Boost
    <3>1. /\ bpc = "boost" /\ bpc' = "prepare"
          /\ boosts' = IF model_state.score \div SCORE_VEL_STEP < score \div SCORE_VEL_STEP
                       THEN boosts + 1 ELSE boosts
      BY <2>3 DEF Boost, BallStep
    <3>2. /\ boosts = model_state.score \div SCORE_VEL_STEP
          /\ model_state.score <= score /\ score <= model_state.score + SCORE_INC_GOLDEN
      BY <3>1 DEF BoostInv, Playing, Deciding
    <3>3. score \div SCORE_VEL_STEP =
            IF model_state.score \div SCORE_VEL_STEP < score \div SCORE_VEL_STEP
            THEN (model_state.score \div SCORE_VEL_STEP) + 1
            ELSE model_state.score \div SCORE_VEL_STEP
      BY <1>1, <3>2, OneMultiple
    <3>4. boosts' = score \div SCORE_VEL_STEP
      BY <3>1, <3>2, <3>3, Zenon
    <3>5. "prepare" \notin Playing
      BY DEF Playing, Deciding, Collecting
    <3> QED BY <2>1, <3>1, <3>4, <3>5 DEF BoostInv
  <2>4. CASE SkipRound
    <3>1. bpc = "test" /\ bpc' = "prepare" /\ UNCHANGED <<boosts, model_state>>
      BY <2>4 DEF SkipRound, BallStep, roundVars
    <3>2. boosts = score \div SCORE_VEL_STEP
      BY <3>1 DEF BoostInv, Playing
    <3> QED BY <2>1, <3>1, <3>2 DEF BoostInv, Playing, Deciding, Collecting
  <2>5. CASE ~Snapshot /\ ~Boost /\ ~SkipRound
    <3>1. /\ UNCHANGED boosts
          /\ bpc' \in Playing <=> bpc \in Playing
          /\ bpc # "boost"
      BY <1>3, <2>5
         DEF Playing, Deciding, Collecting, BallThread, BallStep, AfterColumn, roundVars,
             Announce, BeginRound, RetakeVerdict, OpenRound, OwnCheck, SkipColumn,
             AwaitColumn, PickColumn, CloseRound, Confirm, Prepare, Send
    <3>2. model_state'.score = model_state.score
      BY <1>1, <1>3, <2>5, BallFrame, BookTypes DEF Prepare, Messages
    <3>3. bpc \in Playing => score = model_state.score
      BY <3>1 DEF BoostInv
    <3> QED BY <1>1, <2>1, <3>1, <3>2, <3>3 DEF BoostInv, SCORE_INC_GOLDEN
  <2> QED BY <2>2, <2>3, <2>4, <2>5
<1>4. CASE CenterPress \/ UNCHANGED vars
  <2>1. UNCHANGED <<pc, bpc, score, model_state, next_colli, boosts>>
    BY <1>4 DEF CenterPress, vars, wall, roundVars
  <2> QED BY <2>1 DEF BoostInv, Won
<1> QED BY <1>2, <1>3, <1>4 DEF Next

\* If a multiple of the step cannot be jumped by one brick, which holds for the
\* program's 10 and 2 points, the speed has been raised once for every multiple
\* the score has passed (main_model.c:440-444), for any size of the wall.
THEOREM SpeedFollowsScore ==
  ASSUME SCORE_VEL_STEP >= SCORE_INC_GOLDEN
  PROVE  Spec => []OneBoostPerStep
<1>1. Init => BoostInv
  <2>1. 0 \div SCORE_VEL_STEP = 0
    BY ThresholdAssumption
  <2> QED BY <2>1 DEF Init, BoostInv, Playing, Deciding, Collecting
<1>2. BookInv /\ BoostInv /\ [Next]_vars => BoostInv'
  BY NextBoostInv
<1>3. BoostInv => OneBoostPerStep
  BY DEF BoostInv, OneBoostPerStep, Playing, Deciding, Collecting
<1> QED BY <1>1, <1>2, <1>3, BookInvariance, PTL DEF Spec

=============================================================================
