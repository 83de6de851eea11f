--------------------------- MODULE GameRoundProofs --------------------------
(***************************************************************************)
(* Type correctness of the round, and conservation of the golden resource, *)
(* for any number of columns, rows and golden columns.                     *)
(***************************************************************************)
EXTENDS GameRoundProperties, FiniteSetTheorems, TLAPS

-----------------------------------------------------------------------------
(* Types.                                                                  *)

\* thread_ball indexes the arrays of the columns within their bounds.
IndexInv == bpc \in {"collect", "pick"} => i \in Columns

TypeInv == TypeOK /\ IndexInv

\* The ball thread is none of the column threads, and Nobody is no thread.
LEMMA ThreadIds ==
  /\ Columns \subseteq Threads
  /\ Ball \in Threads
  /\ Ball \notin Columns
  /\ Nobody \notin Columns
  /\ \A t \in Threads : t \in Columns \/ t = Ball
BY SizesAssumption DEF Columns, Threads, Ball, Nobody

LEMMA InitTypeInv == Init => TypeInv
<1> SUFFICES ASSUME Init PROVE TypeInv
  OBVIOUS
<1> USE SizesAssumption DEF Init
<1>1. model_state \in Messages /\ bricks \in Wall
  BY DEF Messages, Wall, Labels, GameStates
<1>2. NoCollision \in Collisions
  BY DEF NoCollision, Collisions, Columns
<1>3. NB_COLUMNS * NB_ROWS \in Int
  OBVIOUS
<1>4. column_colli \in [Columns -> Collisions] /\ next_colli \in Collisions
  BY <1>2
<1>5. hit_row \in [Columns -> Rows]
  BY DEF Rows
<1>6. sem \in [Semaphores -> Int] /\ pc \in [Columns -> ColumnSteps]
  BY DEF Semaphores, ColumnSteps
<1>7. /\ remaining_bricks \in [Columns -> Int] /\ tot_remaining_bricks \in Int
      /\ check_done \in [Columns -> Int] /\ score \in Nat /\ boosts \in Nat
      /\ i \in 0 .. NB_COLUMNS
  BY <1>3
<1>8. /\ blocked \in [Threads -> {"none", "start_check", "arbitration_done", "check_done"}]
      /\ golden \in [Columns -> BOOLEAN] /\ moving \in BOOLEAN
      /\ mtx_bricks \in Columns \cup {Nobody} /\ game_state \in GameStates
      /\ bpc \in BallSteps /\ reach \in {"none", "bricks", "bar"}
  BY DEF GameStates, BallSteps
<1>9. TypeOK
  BY <1>1, <1>4, <1>5, <1>6, <1>7, <1>8 DEF TypeOK
<1>10. IndexInv
  BY DEF IndexInv
<1> QED BY <1>9, <1>10 DEF TypeInv

\* No step of a column thread leaves the types.
LEMMA ColumnTypeInv ==
  ASSUME TypeInv, NEW c \in Columns, Column(c)
  PROVE  TypeInv'
<1> USE SizesAssumption, ThreadIds
    DEF TypeInv, IndexInv, TypeOK, sync, wall, columnVars, roundVars,
        ColumnStep, ColumnSteps, Semaphores
<1>1. CASE StartWait(c)
  BY <1>1 DEF StartWait, Wait
<1>2. CASE StartPost(c)
  BY <1>2 DEF StartPost, Post
<1>3. CASE GoldenRelease(c)
  BY <1>3 DEF GoldenRelease, TryWait
<1>4. CASE GoldenGiveBack(c)
  BY <1>4 DEF GoldenGiveBack, Post
<1>5. CASE GoldenTake(c)
  BY <1>5 DEF GoldenTake, TryWait
<1>6. CASE GoldenKeep(c)
  BY <1>6 DEF GoldenKeep
<1>7. CASE Relabel(c)
  BY <1>7 DEF Relabel, Wall, Labels
<1>8. CASE CheckMiss(c)
  BY <1>8 DEF CheckMiss, Collisions
<1>9. CASE CheckHit(c)
  BY <1>9 DEF CheckHit, Collisions
<1>10. CASE Report(c)
  BY <1>10 DEF Report, PostCheckDone
<1>11. CASE ArbWait(c)
  BY <1>11 DEF ArbWait, Wait
<1>12. CASE ArbPost(c)
  BY <1>12 DEF ArbPost, Post
<1>13. CASE Verdict(c)
  BY <1>13 DEF Verdict
<1>14. CASE LockBricks(c)
  BY <1>14 DEF LockBricks
<1>15. CASE Break(c)
  BY <1>15 DEF Break, Wall, Labels, Increment, Releases, SCORE_INC_GOLDEN,
               SCORE_INC_NORMAL
<1>16. CASE UnlockBricks(c)
  BY <1>16 DEF UnlockBricks, AfterBreak
<1>17. CASE Surrender(c)
  BY <1>17 DEF Surrender, Post
<1> QED
  BY <1>1, <1>2, <1>3, <1>4, <1>5, <1>6, <1>7, <1>8, <1>9, <1>10, <1>11, <1>12,
     <1>13, <1>14, <1>15, <1>16, <1>17 DEF Column

\* No step of the ball thread leaves the types.
LEMMA BallTypeInv ==
  ASSUME TypeInv, BallThread
  PROVE  TypeInv'
<1> USE SizesAssumption, ThreadIds
    DEF TypeInv, IndexInv, TypeOK, sync, wall, columnVars, roundVars,
        BallStep, BallSteps, Semaphores
<1>1. CASE Announce
  BY <1>1 DEF Announce, Post
<1>2. CASE Snapshot
  BY <1>2 DEF Snapshot, Messages, GameStates
<1>3. CASE BeginRound
  BY <1>3 DEF BeginRound
<1>4. CASE SkipRound
  BY <1>4 DEF SkipRound
<1>5. CASE RetakeVerdict
  BY <1>5 DEF RetakeVerdict, Wait
<1>6. CASE OpenRound
  BY <1>6 DEF OpenRound, Post
<1>7. CASE OwnCheck
  <2>1. next_colli' \in Collisions
    <3>1. CASE next_colli' = [idx |-> Nobody, happened |-> FALSE, iter |-> MAX_ITER]
      BY <3>1 DEF Collisions
    <3>2. ASSUME NEW k \in 0 .. MAX_ITER - 1,
                 next_colli' = [idx |-> Nobody, happened |-> TRUE, iter |-> k]
          PROVE  next_colli' \in Collisions
      <4>1. k \in 0 .. MAX_ITER
        OBVIOUS
      <4> QED BY <3>2, <4>1 DEF Collisions
    <3> QED BY <1>7, <3>1, <3>2 DEF OwnCheck
  <2>2. game_state' \in GameStates
    BY <1>7 DEF OwnCheck, GameStates
  <2>3. bpc' = "collect" /\ i' = 0 /\ 0 \in Columns
    BY <1>7 DEF OwnCheck, Columns
  <2>4. UNCHANGED <<pc, sync, mtx_bricks, wall, columnVars, model_state, reach,
                    moving, boosts>>
    BY <1>7 DEF OwnCheck
  <2> QED BY <2>1, <2>2, <2>3, <2>4
<1>8. CASE SkipColumn
  BY <1>8 DEF SkipColumn, AfterColumn, Columns
<1>9. CASE AwaitColumn
  BY <1>9 DEF AwaitColumn, WaitCheckDone
<1>10. CASE PickColumn
  BY <1>10 DEF PickColumn, AfterColumn, Columns
<1>11. CASE CloseRound
  BY <1>11 DEF CloseRound, Wait
<1>12. CASE Confirm
  BY <1>12 DEF Confirm, Post
<1>13. CASE Boost
  BY <1>13 DEF Boost
<1>14. CASE Prepare
  BY <1>14 DEF Prepare, Messages
<1>15. CASE Send
  BY <1>15 DEF Send
<1> QED
  BY <1>1, <1>2, <1>3, <1>4, <1>5, <1>6, <1>7, <1>8, <1>9, <1>10, <1>11, <1>12,
     <1>13, <1>14, <1>15 DEF BallThread

\* Every step keeps the types.
LEMMA NextTypeInv == TypeInv /\ [Next]_vars => TypeInv'
<1> SUFFICES ASSUME TypeInv, [Next]_vars PROVE TypeInv'
  OBVIOUS
<1>1. CASE \E c \in Columns : Column(c)
  BY <1>1, ColumnTypeInv
<1>2. CASE BallThread
  BY <1>2, BallTypeInv
<1>3. CASE CenterPress
  BY <1>3 DEF CenterPress, TypeInv, IndexInv, TypeOK, sync, wall, columnVars,
              roundVars, GameStates
<1>4. CASE UNCHANGED vars
  BY <1>4 DEF vars, TypeInv, IndexInv, TypeOK, sync, wall, columnVars, roundVars
<1> QED BY <1>1, <1>2, <1>3, <1>4 DEF Next

LEMMA TypeInvariance == Spec => []TypeInv
BY InitTypeInv, NextTypeInv, PTL DEF Spec

\* For any sizes, every variable of the round keeps its type (main_model.c:51-69).
THEOREM TypeCorrect == Spec => []TypeOK
<1>1. TypeInv => TypeOK
  BY DEF TypeInv
<1> QED BY <1>1, TypeInvariance, PTL

-----------------------------------------------------------------------------
(* The golden resource.  Conservation is not inductive by itself: a column *)
(* must really hold the unit it is about to give back.                     *)

GivesWhatItHolds == \A c \in Columns : pc[c] \in {"give_back", "surrender"} => golden[c]

GoldenInv == TypeInv /\ GoldenConserved /\ GivesWhatItHolds

LEMMA HoldersFinite == IsFiniteSet(Columns) /\ IsFiniteSet(Holders)
<1>1. IsFiniteSet(Columns)
  BY SizesAssumption, FS_Interval DEF Columns
<1> QED BY <1>1, FS_Subset DEF Holders

LEMMA InitGoldenInv == Init => GoldenInv
<1> SUFFICES ASSUME Init PROVE GoldenInv
  OBVIOUS
<1>1. Holders = {}
  BY DEF Init, Holders
<1>2. sem["golden_brick"] = NB_GOLDEN_COLS
  BY DEF Init, Semaphores
<1>3. GoldenConserved
  BY <1>1, <1>2, FS_EmptySet, SizesAssumption DEF GoldenConserved
<1>4. GivesWhatItHolds
  BY DEF Init, GivesWhatItHolds
<1> QED BY <1>3, <1>4, InitTypeInv DEF GoldenInv

\* A step that neither moves a unit nor changes a holder keeps the invariant.
LEMMA GoldenIdle ==
  ASSUME GoldenInv, TypeInv', GivesWhatItHolds',
         sem'["golden_brick"] = sem["golden_brick"], Holders' = Holders
  PROVE  GoldenInv'
BY DEF GoldenInv, GoldenConserved

\* A column that is not a holder takes a free unit.
LEMMA GoldenTaken ==
  ASSUME GoldenInv, TypeInv', GivesWhatItHolds', NEW c \in Columns,
         c \notin Holders, Holders' = Holders \cup {c},
         sem["golden_brick"] > 0, sem'["golden_brick"] = sem["golden_brick"] - 1
  PROVE  GoldenInv'
<1>1. sem["golden_brick"] \in Int
  BY DEF GoldenInv, TypeInv, TypeOK, Semaphores
<1>2. Cardinality(Holders') = Cardinality(Holders) + 1
  BY HoldersFinite, FS_AddElement
<1>3. Cardinality(Holders) \in Nat
  BY HoldersFinite, FS_CardinalityType
<1> QED BY <1>1, <1>2, <1>3, SizesAssumption DEF GoldenInv, GoldenConserved

\* A holder gives its unit back.
LEMMA GoldenGiven ==
  ASSUME GoldenInv, TypeInv', GivesWhatItHolds', NEW c \in Columns,
         c \in Holders, Holders' = Holders \ {c},
         sem'["golden_brick"] = sem["golden_brick"] + 1
  PROVE  GoldenInv'
<1>1. sem["golden_brick"] \in Int
  BY DEF GoldenInv, TypeInv, TypeOK, Semaphores
<1>2. Cardinality(Holders') = Cardinality(Holders) - 1
  BY HoldersFinite, FS_RemoveElement
<1>3. Cardinality(Holders) \in Nat
  BY HoldersFinite, FS_CardinalityType
<1> QED BY <1>1, <1>2, <1>3, SizesAssumption DEF GoldenInv, GoldenConserved

LEMMA ColumnGoldenInv ==
  ASSUME GoldenInv, NEW c \in Columns, Column(c)
  PROVE  GoldenInv'
<1>1. TypeInv'
  BY ColumnTypeInv DEF GoldenInv
<1> USE <1>1 DEF columnVars, sync, ColumnStep, Semaphores
<1>2. /\ pc \in [Columns -> ColumnSteps] /\ golden \in [Columns -> BOOLEAN]
      /\ sem \in [Semaphores -> Int]
  BY DEF GoldenInv, TypeInv, TypeOK
<1>3. GivesWhatItHolds
  BY DEF GoldenInv
<1>4. CASE GoldenGiveBack(c)
  <2>1. pc[c] = "give_back" /\ golden[c]
    BY <1>3, <1>4 DEF GoldenGiveBack, GivesWhatItHolds
  <2>2. c \in Holders /\ Holders' = Holders \ {c}
    BY <1>2, <1>4, <2>1 DEF GoldenGiveBack, Holders
  <2>3. sem'["golden_brick"] = sem["golden_brick"] + 1
    BY <1>2, <1>4 DEF GoldenGiveBack, Post
  <2>4. GivesWhatItHolds'
    BY <1>2, <1>3, <1>4 DEF GoldenGiveBack, GivesWhatItHolds
  <2> QED BY <2>2, <2>3, <2>4, GoldenGiven
<1>5. CASE Surrender(c)
  <2>1. pc[c] = "surrender" /\ golden[c]
    BY <1>3, <1>5 DEF Surrender, GivesWhatItHolds
  <2>2. c \in Holders /\ Holders' = Holders \ {c}
    BY <1>2, <1>5, <2>1 DEF Surrender, Holders
  <2>3. sem'["golden_brick"] = sem["golden_brick"] + 1
    BY <1>2, <1>5 DEF Surrender, Post
  <2>4. GivesWhatItHolds'
    BY <1>2, <1>3, <1>5 DEF Surrender, GivesWhatItHolds
  <2> QED BY <2>2, <2>3, <2>4, GoldenGiven
<1>6. CASE GoldenTake(c)
  <2>1. c \notin Holders /\ Holders' = Holders \cup {c}
    BY <1>2, <1>6 DEF GoldenTake, Holders
  <2>2. sem["golden_brick"] > 0 /\ sem'["golden_brick"] = sem["golden_brick"] - 1
    BY <1>2, <1>6 DEF GoldenTake, TryWait
  <2>3. GivesWhatItHolds'
    BY <1>2, <1>3, <1>6 DEF GoldenTake, GivesWhatItHolds
  <2> QED BY <2>1, <2>2, <2>3, GoldenTaken
<1>7. CASE GoldenRelease(c)
  <2>1. Holders' = Holders /\ GivesWhatItHolds'
    BY <1>2, <1>3, <1>7 DEF GoldenRelease, Holders, GivesWhatItHolds
  <2>2. sem'["golden_brick"] = sem["golden_brick"]
    BY <1>2, <1>7 DEF GoldenRelease, TryWait
  <2> QED BY <2>1, <2>2, GoldenIdle
<1>8. CASE UnlockBricks(c)
  <2>1. Holders' = Holders /\ GivesWhatItHolds'
    BY <1>2, <1>3, <1>8 DEF UnlockBricks, AfterBreak, Holders, GivesWhatItHolds
  <2>2. sem'["golden_brick"] = sem["golden_brick"]
    BY <1>8 DEF UnlockBricks
  <2> QED BY <2>1, <2>2, GoldenIdle
<1>9. CASE StartWait(c) \/ StartPost(c) \/ ArbWait(c) \/ ArbPost(c) \/ Report(c)
  <2>1. Holders' = Holders /\ GivesWhatItHolds'
    BY <1>2, <1>3, <1>9
       DEF StartWait, StartPost, ArbWait, ArbPost, Report, Holders, GivesWhatItHolds
  <2>2. sem'["golden_brick"] = sem["golden_brick"]
    BY <1>2, <1>9
       DEF StartWait, StartPost, ArbWait, ArbPost, Report, Wait, Post, PostCheckDone
  <2> QED BY <2>1, <2>2, GoldenIdle
<1>10. CASE GoldenKeep(c) \/ Relabel(c) \/ CheckMiss(c) \/ CheckHit(c) \/ Verdict(c)
            \/ LockBricks(c) \/ Break(c)
  <2>1. Holders' = Holders /\ GivesWhatItHolds'
    BY <1>2, <1>3, <1>10
       DEF GoldenKeep, Relabel, CheckMiss, CheckHit, Verdict, LockBricks, Break,
           Holders, GivesWhatItHolds
  <2>2. sem'["golden_brick"] = sem["golden_brick"]
    BY <1>2, <1>10
       DEF GoldenKeep, Relabel, CheckMiss, CheckHit, Verdict, LockBricks, Break
  <2> QED BY <2>1, <2>2, GoldenIdle
<1> QED BY <1>4, <1>5, <1>6, <1>7, <1>8, <1>9, <1>10 DEF Column

\* The ball thread and the buttons touch neither golden nor golden_brick.
LEMMA BallGoldenInv ==
  ASSUME GoldenInv, BallThread
  PROVE  GoldenInv'
<1>1. TypeInv'
  BY BallTypeInv DEF GoldenInv
<1>2. UNCHANGED <<pc, golden>>
  BY DEF BallThread, BallStep, columnVars, Announce, Snapshot, BeginRound, SkipRound,
         RetakeVerdict, OpenRound, OwnCheck, SkipColumn, AwaitColumn, PickColumn,
         CloseRound, Confirm, Boost, Prepare, Send
<1>3. sem'["golden_brick"] = sem["golden_brick"]
  BY DEF GoldenInv, TypeInv, TypeOK, Semaphores, sync, Wait, Post, WaitCheckDone,
         BallThread, Announce, Snapshot, BeginRound, SkipRound, RetakeVerdict,
         OpenRound, OwnCheck, SkipColumn, AwaitColumn, PickColumn, CloseRound,
         Confirm, Boost, Prepare, Send
<1>4. Holders' = Holders /\ GivesWhatItHolds'
  BY <1>2 DEF GoldenInv, Holders, GivesWhatItHolds
<1> QED BY <1>1, <1>3, <1>4, GoldenIdle

LEMMA NextGoldenInv == GoldenInv /\ [Next]_vars => GoldenInv'
<1> SUFFICES ASSUME GoldenInv, [Next]_vars PROVE GoldenInv'
  OBVIOUS
<1>1. CASE \E c \in Columns : Column(c)
  BY <1>1, ColumnGoldenInv
<1>2. CASE BallThread
  BY <1>2, BallGoldenInv
<1>3. CASE CenterPress \/ UNCHANGED vars
  <2>1. TypeInv'
    BY NextTypeInv DEF GoldenInv
  <2>2. UNCHANGED <<pc, golden, sem>>
    BY <1>3 DEF CenterPress, vars, sync, columnVars
  <2>3. Holders' = Holders /\ GivesWhatItHolds'
    BY <2>2 DEF GoldenInv, Holders, GivesWhatItHolds
  <2> QED BY <2>1, <2>2, <2>3, GoldenIdle
<1> QED BY <1>1, <1>2, <1>3 DEF Next

\* For any sizes, units of the golden resource are neither lost nor forged, also
\* when a golden column ends its thread (main_model.c:215-226, 322-323).
THEOREM GoldenIsConserved == Spec => []GoldenConserved
<1>1. GoldenInv => GoldenConserved
  BY DEF GoldenInv
<1> QED BY <1>1, InitGoldenInv, NextGoldenInv, PTL DEF Spec

-----------------------------------------------------------------------------
(* Labels.  A column's bricks follow its local flag except while it        *)
(* relabels: inductive together with the types.                            *)

LabelInv == TypeInv /\ LabelsMatchHolders

LEMMA InitLabelInv == Init => LabelInv
<1> SUFFICES ASSUME Init PROVE LabelInv
  OBVIOUS
<1>1. LabelsMatchHolders
  BY DEF Init, LabelsMatchHolders, Standing
<1> QED BY <1>1, InitTypeInv DEF LabelInv

\* A step that leaves a column's bricks and flag alone, and does not end its
\* relabelling, leaves its labels matching.
LEMMA LabelsIdle ==
  ASSUME LabelInv, TypeInv', UNCHANGED <<bricks, golden>>,
         \A d \in Columns : pc'[d] = pc[d] \/ pc[d] # "relabel"
  PROVE  LabelInv'
BY DEF LabelInv, LabelsMatchHolders, Standing

LEMMA ColumnLabelInv ==
  ASSUME LabelInv, NEW c \in Columns, Column(c)
  PROVE  LabelInv'
<1>1. TypeInv'
  BY ColumnTypeInv DEF LabelInv
<1> USE <1>1 DEF columnVars, wall, ColumnStep
<1>2. /\ pc \in [Columns -> ColumnSteps] /\ golden \in [Columns -> BOOLEAN]
      /\ bricks \in [Columns -> [Rows -> Labels]] /\ hit_row \in [Columns -> Rows]
  BY DEF LabelInv, TypeInv, TypeOK, Wall
<1>3. LabelsMatchHolders
  BY DEF LabelInv
<1>4. CASE GoldenGiveBack(c) \/ GoldenTake(c)
  BY <1>2, <1>3, <1>4
     DEF GoldenGiveBack, GoldenTake, LabelInv, LabelsMatchHolders, Standing
<1>5. CASE Relabel(c)
  BY <1>2, <1>3, <1>5 DEF Relabel, LabelInv, LabelsMatchHolders, Standing
<1>6. CASE Break(c)
  BY <1>2, <1>3, <1>6 DEF Break, LabelInv, LabelsMatchHolders, Standing
<1>7. CASE GoldenRelease(c) \/ GoldenKeep(c) \/ CheckMiss(c) \/ CheckHit(c)
           \/ Verdict(c) \/ LockBricks(c) \/ UnlockBricks(c) \/ Surrender(c)
  <2>1. UNCHANGED <<bricks, golden>>
    BY <1>7 DEF GoldenRelease, GoldenKeep, CheckMiss, CheckHit, Verdict, LockBricks,
                UnlockBricks, Surrender
  <2>2. \A d \in Columns : pc'[d] = pc[d] \/ pc[d] # "relabel"
    BY <1>2, <1>7 DEF GoldenRelease, GoldenKeep, CheckMiss, CheckHit, Verdict,
                      LockBricks, UnlockBricks, Surrender
  <2> QED BY <2>1, <2>2, LabelsIdle
<1>8. CASE StartWait(c) \/ StartPost(c) \/ ArbWait(c) \/ ArbPost(c) \/ Report(c)
  <2>1. UNCHANGED <<bricks, golden>>
    BY <1>8 DEF StartWait, StartPost, ArbWait, ArbPost, Report
  <2>2. \A d \in Columns : pc'[d] = pc[d] \/ pc[d] # "relabel"
    BY <1>2, <1>8 DEF StartWait, StartPost, ArbWait, ArbPost, Report
  <2> QED BY <2>1, <2>2, LabelsIdle
<1> QED BY <1>4, <1>5, <1>6, <1>7, <1>8 DEF Column

LEMMA NextLabelInv == LabelInv /\ [Next]_vars => LabelInv'
<1> SUFFICES ASSUME LabelInv, [Next]_vars PROVE LabelInv'
  OBVIOUS
<1>1. CASE \E c \in Columns : Column(c)
  BY <1>1, ColumnLabelInv
<1>2. CASE BallThread \/ CenterPress \/ UNCHANGED vars
  <2>1. TypeInv'
    BY NextTypeInv DEF LabelInv
  <2>2. UNCHANGED <<pc, bricks, golden>>
    BY <1>2 DEF BallThread, BallStep, columnVars, wall, Announce, Snapshot, BeginRound,
           SkipRound, RetakeVerdict, OpenRound, OwnCheck, SkipColumn, AwaitColumn,
           PickColumn, CloseRound, Confirm, Boost, Prepare, Send, CenterPress, vars
  <2> QED BY <2>1, <2>2, LabelsIdle
<1> QED BY <1>1, <1>2 DEF Next

\* For any sizes, a column's standing bricks are golden exactly when its thread
\* holds the resource, except while it relabels them (main_model.c:218-230).
THEOREM LabelsFollowHolders == Spec => []LabelsMatchHolders
<1>1. LabelInv => LabelsMatchHolders
  BY DEF LabelInv
<1> QED BY <1>1, InitLabelInv, NextLabelInv, PTL DEF Spec

=============================================================================
