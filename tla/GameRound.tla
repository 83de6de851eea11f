----------------------------- MODULE GameRound ------------------------------
(***************************************************************************)
(* One round of the game model on MicroBlaze 1 (main_model.c): the ball    *)
(* thread opens a round, every column thread checks its own bricks against *)
(* the trajectory of the ball, the ball thread arbitrates between the      *)
(* collisions, and the column whose collision won breaks its brick.        *)
(*                                                                         *)
(* The threads meet through two turnstiles (sem_start_check and            *)
(* sem_arbitration_done) and one semaphore per column (sem_check_done),    *)
(* under Xilkernel's strict-priority scheduler: a thread takes a step only *)
(* when no ready thread has a higher priority; threads of equal priority   *)
(* interleave in any order (the kernel rotates them on its tick).  A       *)
(* thread's step runs from one kernel call, or one access to shared data,  *)
(* to the next; its program counter names the step it takes next.          *)
(***************************************************************************)
EXTENDS Integers, FiniteSets

CONSTANTS
  NB_COLUMNS,      \* columns of bricks, one thread each
  NB_ROWS,         \* bricks of a column
  NB_GOLDEN_COLS,  \* initial value of the semaphore golden_brick
  THRESH_GOLDEN,   \* points between two releases of the golden columns
  SCORE_VEL_STEP,  \* points between two increases of the ball's speed
  MAX_ITER         \* bound on iter_max, the positions tried in one round

ASSUME SizesAssumption ==
  /\ NB_COLUMNS \in Nat \ {0}
  /\ NB_ROWS \in Nat \ {0}
  /\ NB_GOLDEN_COLS \in Nat
  /\ MAX_ITER \in Nat \ {0}

ASSUME ThresholdAssumption ==
  /\ THRESH_GOLDEN \in Nat \ {0}
  /\ SCORE_VEL_STEP \in Nat \ {0}

Columns == 0 .. NB_COLUMNS - 1
Rows == 0 .. NB_ROWS - 1
Ball == NB_COLUMNS            \* identifies thread_ball
Threads == 0 .. NB_COLUMNS
Nobody == -1                  \* nobody holds the mutex; nobody's collision

GameStates == {"WAITING", "RUNNING", "WON", "LOST", "PAUSED"}
Labels == {"BROKEN", "NORMAL", "GOLDEN"}
Wall == [Columns -> [Rows -> Labels]]

SCORE_INC_NORMAL == 1
SCORE_INC_GOLDEN == 2

Semaphores ==
  {"start_check", "arbitration_done", "golden_brick", "golden_release"}

VARIABLES
  pc,              \* next step of each column thread
  bpc,             \* next step of the ball thread
  sem,             \* value of each semaphore, negative when threads wait on it
  check_done,      \* values of sem_check_done[]
  blocked,         \* the semaphore each thread waits on, or "none"
  mtx_bricks,      \* holder of the mutex, or Nobody
  game_state,
  bricks, score, remaining_bricks, tot_remaining_bricks,
  golden,          \* local of each column thread: it holds the golden resource
  hit_row,         \* local "row" of each column thread: the brick it reported
  column_colli,    \* each column's reported collision
  next_colli,      \* the collision the arbitration retained
  model_state,     \* local of thread_ball: the message to the display
  i,               \* local of thread_ball: the column it collects from
  reach,           \* where this round's trajectory leads: bricks, bar or none
  moving,          \* ball.c, ball.s have been computed from ball.angle
  boosts           \* times ball.vel was raised by SCORE_VEL_CHANGE

sync == <<sem, check_done, blocked>>
wall == <<bricks, score, remaining_bricks, tot_remaining_bricks>>
columnVars == <<golden, hit_row, column_colli>>
roundVars == <<next_colli, i, reach, moving, boosts>>
vars == <<pc, bpc, sync, mtx_bricks, game_state, wall, columnVars, model_state,
          roundVars>>

-----------------------------------------------------------------------------
(* Xilkernel: priorities, readiness, semaphores.                           *)

\* Mutant of Prio: the ball thread created with the priority of the columns.
PrioBallAsColumns(t) == 2

\* Smaller is more urgent.
Prio(t) == IF t = Ball THEN 3 ELSE 2

\* A thread about to lock mtx_bricks is ready only when the mutex is free.
WantsMutex(t) ==
  IF t = Ball THEN bpc \in {"snapshot", "collect", "boost"} ELSE pc[t] = "lock"

Ready(t) ==
  /\ blocked[t] = "none"
  /\ t \in Columns => pc[t] # "exited"
  /\ WantsMutex(t) => mtx_bricks = Nobody

CanRun(t) ==
  /\ Ready(t)
  /\ \A u \in Threads : Ready(u) => Prio(t) <= Prio(u)

Waiters(s) == {t \in Threads : blocked[t] = s}

\* The head of a wait queue ordered by priority; equal priorities in any order.
Urgent(s) == {t \in Waiters(s) : \A u \in Waiters(s) : Prio(t) <= Prio(u)}

Wait(t, s) ==
  /\ sem' = [sem EXCEPT ![s] = @ - 1]
  /\ blocked' = IF sem[s] <= 0 THEN [blocked EXCEPT ![t] = s] ELSE blocked
  /\ UNCHANGED check_done

TryWait(s) ==
  /\ sem[s] > 0
  /\ sem' = [sem EXCEPT ![s] = @ - 1]
  /\ UNCHANGED <<blocked, check_done>>

\* The count goes up; if it is still not positive, one waiter gets the token.
Post(s) ==
  /\ sem' = [sem EXCEPT ![s] = @ + 1]
  /\ IF sem[s] < 0 /\ Waiters(s) # {}
     THEN \E w \in Urgent(s) : blocked' = [blocked EXCEPT ![w] = "none"]
     ELSE UNCHANGED blocked
  /\ UNCHANGED check_done

\* sem_check_done[c]: only the ball thread ever waits on it.
WaitCheckDone(c) ==
  /\ check_done' = [check_done EXCEPT ![c] = @ - 1]
  /\ blocked' = IF check_done[c] <= 0
                THEN [blocked EXCEPT ![Ball] = "check_done"] ELSE blocked
  /\ UNCHANGED sem

PostCheckDone(c) ==
  /\ check_done' = [check_done EXCEPT ![c] = @ + 1]
  /\ blocked' = IF check_done[c] < 0 /\ blocked[Ball] = "check_done"
                THEN [blocked EXCEPT ![Ball] = "none"] ELSE blocked
  /\ UNCHANGED sem

ColumnStep(c, from, to) ==
  /\ pc[c] = from
  /\ CanRun(c)
  /\ pc' = [pc EXCEPT ![c] = to]
  /\ UNCHANGED bpc

BallStep(from, to) ==
  /\ bpc = from
  /\ CanRun(Ball)
  /\ bpc' = to
  /\ UNCHANGED pc

-----------------------------------------------------------------------------
(* Initial state: main_prog has created every thread and returned.         *)

NoCollision == [idx |-> 0, happened |-> FALSE, iter |-> 0]

Init ==
  /\ pc = [c \in Columns |-> "start_wait"]
  /\ bpc = "announce"
  /\ sem = [s \in Semaphores |-> IF s = "golden_brick" THEN NB_GOLDEN_COLS ELSE 0]
  /\ check_done = [c \in Columns |-> 0]
  /\ blocked = [t \in Threads |-> "none"]
  /\ mtx_bricks = Nobody
  /\ game_state = "WAITING"
  /\ bricks = [c \in Columns |-> [r \in Rows |-> "NORMAL"]]
  /\ score = 0
  /\ remaining_bricks = [c \in Columns |-> NB_ROWS]
  /\ tot_remaining_bricks = NB_COLUMNS * NB_ROWS
  /\ golden = [c \in Columns |-> FALSE]
  /\ hit_row = [c \in Columns |-> 0]
  /\ column_colli = [c \in Columns |-> NoCollision]
  /\ next_colli = NoCollision
  \* model_state lives on the stack of thread_ball and is not initialised; only
  \* its game_state is read (line 353) before it is written (line 514).
  /\ \E g \in GameStates :
       model_state = [game_state |-> g, score |-> 0, bricks |-> bricks]
  /\ i = 0
  /\ reach = "none"
  /\ moving = FALSE
  /\ boosts = 0

-----------------------------------------------------------------------------
(* thread_column                                                           *)

\* The first turnstile: wait for the round to open, let the next column in.
StartWait(c) ==
  /\ ColumnStep(c, "start_wait", "start_post")
  /\ Wait(c, "start_check")
  /\ UNCHANGED <<mtx_bricks, game_state, wall, columnVars, model_state, roundVars>>

\* Mutant of StartPost: the turnstile lets no further column in.
StartPostKeepsToken(c) ==
  /\ ColumnStep(c, "start_post", "golden")
  /\ UNCHANGED <<sync, mtx_bricks, game_state, wall, columnVars, model_state,
                 roundVars>>

StartPost(c) ==
  /\ ColumnStep(c, "start_post", "golden")
  /\ Post("start_check")
  /\ UNCHANGED <<mtx_bricks, game_state, wall, columnVars, model_state, roundVars>>

\* A golden column takes a release token, gives the resource back, and only
\* then turns its golden bricks back to normal (Relabel).
MustRelease(c) == golden[c] /\ sem["golden_release"] > 0

GoldenRelease(c) ==
  /\ ColumnStep(c, "golden", "give_back")
  /\ golden[c]
  /\ TryWait("golden_release")
  /\ UNCHANGED <<mtx_bricks, game_state, wall, columnVars, model_state, roundVars>>

GoldenGiveBack(c) ==
  /\ ColumnStep(c, "give_back", "relabel")
  /\ Post("golden_brick")
  /\ golden' = [golden EXCEPT ![c] = FALSE]
  /\ UNCHANGED <<mtx_bricks, game_state, wall, hit_row, column_colli,
                 model_state, roundVars>>

\* With probability 1/2 a normal column tries to become golden.
GoldenTake(c) ==
  /\ ColumnStep(c, "golden", "relabel")
  /\ ~MustRelease(c)
  /\ ~golden[c]
  /\ TryWait("golden_brick")
  /\ golden' = [golden EXCEPT ![c] = TRUE]
  /\ UNCHANGED <<mtx_bricks, game_state, wall, hit_row, column_colli,
                 model_state, roundVars>>

GoldenKeep(c) ==
  /\ ColumnStep(c, "golden", "check")
  /\ ~MustRelease(c)
  /\ UNCHANGED <<sync, mtx_bricks, game_state, wall, columnVars, model_state,
                 roundVars>>

\* Mutant of Relabel: a column that gave the resource back keeps its gold.
RelabelOnlyGolden(c) ==
  /\ ColumnStep(c, "relabel", "check")
  /\ bricks' = [bricks EXCEPT ![c] =
       [r \in Rows |-> IF golden[c] /\ bricks[c][r] = "NORMAL" THEN "GOLDEN"
                       ELSE bricks[c][r]]]
  /\ UNCHANGED <<sync, mtx_bricks, game_state, score, remaining_bricks,
                 tot_remaining_bricks, columnVars, model_state, roundVars>>

\* Mutant of Relabel: the loops stop one row early.
RelabelMissesLastRow(c) ==
  /\ ColumnStep(c, "relabel", "check")
  /\ bricks' = [bricks EXCEPT ![c] =
       [r \in Rows |-> IF bricks[c][r] = "BROKEN" \/ r = NB_ROWS - 1
                       THEN bricks[c][r]
                       ELSE IF golden[c] THEN "GOLDEN" ELSE "NORMAL"]]
  /\ UNCHANGED <<sync, mtx_bricks, game_state, score, remaining_bricks,
                 tot_remaining_bricks, columnVars, model_state, roundVars>>

\* The bricks that are not broken change label, outside mtx_bricks.
Relabel(c) ==
  /\ ColumnStep(c, "relabel", "check")
  /\ bricks' = [bricks EXCEPT ![c] =
       [r \in Rows |-> IF bricks[c][r] = "BROKEN" THEN "BROKEN"
                       ELSE IF golden[c] THEN "GOLDEN" ELSE "NORMAL"]]
  /\ UNCHANGED <<sync, mtx_bricks, game_state, score, remaining_bricks,
                 tot_remaining_bricks, columnVars, model_state, roundVars>>

\* The geometry is abstracted: a column whose bricks lie within reach of the
\* ball may find a collision at any position with any brick not broken.
CheckMiss(c) ==
  /\ ColumnStep(c, "check", "report")
  /\ column_colli' = [column_colli EXCEPT ![c] =
       [idx |-> c, happened |-> FALSE, iter |-> MAX_ITER]]
  /\ UNCHANGED <<sync, mtx_bricks, game_state, wall, golden, hit_row,
                 model_state, roundVars>>

\* Mutant of CheckHit: the row is read after the loop has gone past it.
CheckHitNextRow(c) ==
  /\ ColumnStep(c, "check", "report")
  /\ reach = "bricks"
  /\ \E k \in 0 .. MAX_ITER - 1, r \in Rows :
       /\ bricks[c][r] # "BROKEN"
       /\ hit_row' = [hit_row EXCEPT ![c] = r + 1]
       /\ column_colli' = [column_colli EXCEPT ![c] =
            [idx |-> c, happened |-> TRUE, iter |-> k]]
  /\ UNCHANGED <<sync, mtx_bricks, game_state, wall, golden, model_state,
                 roundVars>>

CheckHit(c) ==
  /\ ColumnStep(c, "check", "report")
  /\ reach = "bricks"
  /\ \E k \in 0 .. MAX_ITER - 1, r \in Rows :
       /\ bricks[c][r] # "BROKEN"
       /\ hit_row' = [hit_row EXCEPT ![c] = r]
       /\ column_colli' = [column_colli EXCEPT ![c] =
            [idx |-> c, happened |-> TRUE, iter |-> k]]
  /\ UNCHANGED <<sync, mtx_bricks, game_state, wall, golden, model_state,
                 roundVars>>

Report(c) ==
  /\ ColumnStep(c, "report", "arb_wait")
  /\ PostCheckDone(c)
  /\ UNCHANGED <<mtx_bricks, game_state, wall, columnVars, model_state, roundVars>>

\* The second turnstile: wait for the verdict, let the next column see it.
ArbWait(c) ==
  /\ ColumnStep(c, "arb_wait", "arb_post")
  /\ Wait(c, "arbitration_done")
  /\ UNCHANGED <<mtx_bricks, game_state, wall, columnVars, model_state, roundVars>>

ArbPost(c) ==
  /\ ColumnStep(c, "arb_post", "verdict")
  /\ Post("arbitration_done")
  /\ UNCHANGED <<mtx_bricks, game_state, wall, columnVars, model_state, roundVars>>

Won(c) == next_colli.happened /\ next_colli.idx = c

Verdict(c) ==
  /\ ColumnStep(c, "verdict", IF Won(c) THEN "lock" ELSE "start_wait")
  /\ UNCHANGED <<sync, mtx_bricks, game_state, wall, columnVars, model_state,
                 roundVars>>

LockBricks(c) ==
  /\ ColumnStep(c, "lock", "break")
  /\ mtx_bricks' = c
  /\ UNCHANGED <<sync, game_state, wall, columnVars, model_state, roundVars>>

\* Mutant of Increment: the label is tested after the brick was set to BROKEN.
IncrementOfBroken(c) == SCORE_INC_NORMAL

Increment(c) ==
  IF bricks[c][hit_row[c]] = "GOLDEN" THEN SCORE_INC_GOLDEN ELSE SCORE_INC_NORMAL

\* Crossing a multiple of THRESH_GOLDEN posts one release per golden column.
Releases(old, new) ==
  IF old \div THRESH_GOLDEN < new \div THRESH_GOLDEN THEN NB_GOLDEN_COLS ELSE 0

\* Under mtx_bricks; nobody ever blocks on golden_release, so its posts wake
\* no thread.
Break(c) ==
  /\ ColumnStep(c, "break", "unlock")
  /\ bricks' = [bricks EXCEPT ![c][hit_row[c]] = "BROKEN"]
  /\ sem' = [sem EXCEPT !["golden_release"] =
               @ + Releases(score, score + Increment(c))]
  /\ score' = score + Increment(c)
  /\ tot_remaining_bricks' = tot_remaining_bricks - 1
  /\ remaining_bricks' = [remaining_bricks EXCEPT ![c] = @ - 1]
  /\ UNCHANGED <<check_done, blocked, mtx_bricks, game_state, columnVars,
                 model_state, roundVars>>

\* Mutant of AfterBreak: the thread ends with the golden resource in its hands.
AfterBreakKeepsGold(c) ==
  IF remaining_bricks[c] # 0 THEN "start_wait" ELSE "exited"

\* A column without bricks ends its thread, giving the golden resource back.
AfterBreak(c) ==
  IF remaining_bricks[c] # 0 THEN "start_wait"
  ELSE IF golden[c] THEN "surrender" ELSE "exited"

UnlockBricks(c) ==
  /\ ColumnStep(c, "unlock", AfterBreak(c))
  /\ mtx_bricks' = Nobody
  /\ UNCHANGED <<sync, game_state, wall, columnVars, model_state, roundVars>>

Surrender(c) ==
  /\ ColumnStep(c, "surrender", "exited")
  /\ Post("golden_brick")
  /\ UNCHANGED <<mtx_bricks, game_state, wall, columnVars, model_state, roundVars>>

Column(c) ==
  \/ StartWait(c) \/ StartPost(c)
  \/ GoldenRelease(c) \/ GoldenGiveBack(c) \/ GoldenTake(c) \/ GoldenKeep(c)
  \/ Relabel(c) \/ CheckMiss(c) \/ CheckHit(c) \/ Report(c)
  \/ ArbWait(c) \/ ArbPost(c) \/ Verdict(c)
  \/ LockBricks(c) \/ Break(c) \/ UnlockBricks(c) \/ Surrender(c)

-----------------------------------------------------------------------------
(* thread_ball                                                             *)

\* Before its loop the thread posts the verdict of a round that never was.
Announce ==
  /\ BallStep("announce", "snapshot")
  /\ Post("arbitration_done")
  /\ UNCHANGED <<mtx_bricks, game_state, wall, columnVars, model_state, roundVars>>

\* Mutant of Snapshot: an empty wall goes unnoticed.
SnapshotNeverWins ==
  /\ BallStep("snapshot", "test")
  /\ model_state' = [model_state EXCEPT !.score = score, !.bricks = bricks]
  /\ UNCHANGED <<sync, mtx_bricks, game_state, wall, columnVars, roundVars>>

\* One critical section of mtx_bricks: copy the score and the wall, and
\* notice that the wall is empty.
Snapshot ==
  /\ BallStep("snapshot", "test")
  /\ model_state' = [model_state EXCEPT !.score = score, !.bricks = bricks]
  /\ game_state' = IF tot_remaining_bricks = 0 THEN "WON" ELSE game_state
  /\ UNCHANGED <<sync, mtx_bricks, wall, columnVars, roundVars>>

\* The random launch angle is taken over only if the previous message still
\* said WAITING.
BeginRound ==
  /\ BallStep("test", "retake")
  /\ game_state = "RUNNING"
  /\ moving' = (moving \/ model_state.game_state = "WAITING")
  /\ UNCHANGED <<sync, mtx_bricks, game_state, wall, columnVars, model_state,
                 next_colli, i, reach, boosts>>

SkipRound ==
  /\ BallStep("test", "prepare")
  /\ game_state # "RUNNING"
  /\ UNCHANGED <<sync, mtx_bricks, game_state, wall, columnVars, model_state,
                 roundVars>>

\* Mutant of RetakeVerdict: the token of the previous verdict stays.
RetakeNothing ==
  /\ BallStep("retake", "open")
  /\ UNCHANGED <<sync, mtx_bricks, game_state, wall, columnVars, model_state,
                 roundVars>>

\* Take back the token of the previous verdict: the second turnstile closes.
RetakeVerdict ==
  /\ BallStep("retake", "open")
  /\ Wait(Ball, "arbitration_done")
  /\ UNCHANGED <<mtx_bricks, game_state, wall, columnVars, model_state, roundVars>>

\* The bricks and the bar lie farther apart than one round can travel, so a
\* trajectory reaches at most one of them; a ball that does not move, neither.
OpenRound ==
  /\ BallStep("open", "own")
  /\ Post("start_check")
  /\ reach' \in IF moving THEN {"bricks", "bar"} ELSE {"none"}
  /\ UNCHANGED <<mtx_bricks, game_state, wall, columnVars, model_state,
                 next_colli, i, moving, boosts>>

\* Mutant of OwnCheck: a miss leaves the collision of the previous round.
OwnCheckKeepsOld ==
  /\ BallStep("own", "collect")
  /\ i' = 0
  /\ \/ UNCHANGED <<next_colli, game_state>>
     \/ /\ reach # "none"
        /\ \E k \in 0 .. MAX_ITER - 1 :
             next_colli' = [idx |-> Nobody, happened |-> TRUE, iter |-> k]
        /\ \/ UNCHANGED game_state
           \/ reach = "bar" /\ game_state' = "LOST"
  /\ UNCHANGED <<sync, mtx_bricks, wall, columnVars, model_state, reach, moving,
                 boosts>>

\* The ball's own check against the walls, the bar and the bottom; a miss
\* leaves iter at its bound.
OwnCheck ==
  /\ BallStep("own", "collect")
  /\ i' = 0
  /\ \/ /\ next_colli' = [idx |-> Nobody, happened |-> FALSE, iter |-> MAX_ITER]
        /\ UNCHANGED game_state
     \/ /\ reach # "none"
        /\ \E k \in 0 .. MAX_ITER - 1 :
             next_colli' = [idx |-> Nobody, happened |-> TRUE, iter |-> k]
        /\ \/ UNCHANGED game_state
           \/ reach = "bar" /\ game_state' = "LOST"
  /\ UNCHANGED <<sync, mtx_bricks, wall, columnVars, model_state, reach, moving,
                 boosts>>

AfterColumn == IF i + 1 = NB_COLUMNS THEN "close" ELSE "collect"

\* A column without bricks has left: it reports nothing.
SkipColumn ==
  /\ BallStep("collect", AfterColumn)
  /\ remaining_bricks[i] = 0
  /\ i' = i + 1
  /\ UNCHANGED <<sync, mtx_bricks, game_state, wall, columnVars, model_state,
                 next_colli, reach, moving, boosts>>

\* Mutant of AwaitColumn: a column that has left is waited for.
AwaitAnyColumn ==
  /\ BallStep("collect", "pick")
  /\ WaitCheckDone(i)
  /\ UNCHANGED <<mtx_bricks, game_state, wall, columnVars, model_state, roundVars>>

AwaitColumn ==
  /\ BallStep("collect", "pick")
  /\ remaining_bricks[i] # 0
  /\ WaitCheckDone(i)
  /\ UNCHANGED <<mtx_bricks, game_state, wall, columnVars, model_state, roundVars>>

\* Mutant of Sooner: the last collision wins.
SoonerLast(a, b) == a.happened

Sooner(a, b) == a.happened /\ a.iter < b.iter

PickColumn ==
  /\ BallStep("pick", AfterColumn)
  /\ next_colli' = IF Sooner(column_colli[i], next_colli)
                   THEN column_colli[i] ELSE next_colli
  /\ i' = i + 1
  /\ UNCHANGED <<sync, mtx_bricks, game_state, wall, columnVars, model_state,
                 reach, moving, boosts>>

\* Take back the token of the opening: the first turnstile closes.
CloseRound ==
  /\ BallStep("close", "confirm")
  /\ Wait(Ball, "start_check")
  /\ UNCHANGED <<mtx_bricks, game_state, wall, columnVars, model_state, roundVars>>

Confirm ==
  /\ BallStep("confirm", "boost")
  /\ Post("arbitration_done")
  /\ UNCHANGED <<mtx_bricks, game_state, wall, columnVars, model_state, roundVars>>

\* Mutant of Boost: any point since the last multiple raises the speed.
BoostEveryPoint ==
  /\ BallStep("boost", "prepare")
  /\ boosts' = IF model_state.score < score THEN boosts + 1 ELSE boosts
  /\ UNCHANGED <<sync, mtx_bricks, game_state, wall, columnVars, model_state,
                 next_colli, i, reach, moving>>

\* After yield(): the speed goes up when this round's points crossed a multiple
\* of the step.  The cap of the speed is left out; boosts counts the raises.
Boost ==
  /\ BallStep("boost", "prepare")
  /\ boosts' = IF model_state.score \div SCORE_VEL_STEP < score \div SCORE_VEL_STEP
               THEN boosts + 1 ELSE boosts
  /\ UNCHANGED <<sync, mtx_bricks, game_state, wall, columnVars, model_state,
                 next_colli, i, reach, moving>>

\* Mutant of Prepare: the message keeps the state of the previous one.
PrepareKeepsState ==
  /\ BallStep("prepare", "send")
  /\ UNCHANGED <<sync, mtx_bricks, game_state, wall, columnVars, model_state,
                 roundVars>>

Prepare ==
  /\ BallStep("prepare", "send")
  /\ model_state' = [model_state EXCEPT !.game_state = game_state]
  /\ UNCHANGED <<sync, mtx_bricks, game_state, wall, columnVars, roundVars>>

\* Sleep until the next frame and write the message to the mailbox.
Send ==
  /\ BallStep("send", "snapshot")
  /\ UNCHANGED <<sync, mtx_bricks, game_state, wall, columnVars, model_state,
                 roundVars>>

BallThread ==
  \/ Announce \/ Snapshot \/ BeginRound \/ SkipRound \/ RetakeVerdict
  \/ OpenRound \/ OwnCheck \/ SkipColumn \/ AwaitColumn \/ PickColumn
  \/ CloseRound \/ Confirm \/ Boost \/ Prepare \/ Send

-----------------------------------------------------------------------------
(* thread_buttons, priority 1: it pre-empts every thread above at any      *)
(* point, and none of them runs until it blocks again.  Only the centre    *)
(* button concerns the round.                                              *)

\* Mutant of CenterPress: whatever is not RUNNING resumes.
CenterPressResumesAll ==
  /\ game_state' = IF game_state = "RUNNING" THEN "PAUSED" ELSE "RUNNING"
  /\ UNCHANGED <<pc, bpc, sync, mtx_bricks, wall, columnVars, model_state,
                 roundVars>>

CenterPress ==
  /\ \/ game_state \in {"WAITING", "PAUSED"} /\ game_state' = "RUNNING"
     \/ game_state = "RUNNING" /\ game_state' = "PAUSED"
  /\ UNCHANGED <<pc, bpc, sync, mtx_bricks, wall, columnVars, model_state,
                 roundVars>>

Next == (\E c \in Columns : Column(c)) \/ BallThread \/ CenterPress

Spec == Init /\ [][Next]_vars

\* The scheduler runs the most urgent ready thread and rotates among equals on
\* its tick, so a thread that stays runnable runs.  Nobody has to press a button.
FairSpec ==
  /\ Spec
  /\ WF_vars(BallThread)
  /\ \A c \in Columns : WF_vars(Column(c))

=============================================================================
