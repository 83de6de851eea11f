------------------------ MODULE GameRoundPhasesProofs -----------------------
(***************************************************************************)
(* The phases of a round do not mix and the threads never all wait on one  *)
(* another, for any number of columns.  The turnstiles keep no count of    *)
(* the columns; what keeps the phases apart is where every column must     *)
(* stand at each step of the ball thread, and who carries the one token.   *)
(***************************************************************************)
EXTENDS GameRoundProofs

-----------------------------------------------------------------------------
(* The inductive invariant.                                                *)

Running(c, steps) == pc[c] \in steps /\ blocked[c] = "none"
AtStart(c) == pc[c] = "start_post" /\ blocked[c] = "start_check"
AtArbitration(c) == pc[c] = "arb_post" /\ blocked[c] = "arbitration_done"
Gone(c) == pc[c] = "exited" /\ blocked[c] = "none"

CheckSteps ==
  {"start_post", "golden", "give_back", "relabel", "check", "report", "arb_wait"}
VerdictSteps ==
  {"arb_post", "verdict", "lock", "break", "unlock", "surrender", "start_wait"}

BetweenRounds == {"snapshot", "test", "retake", "open", "prepare", "send"}
Collecting == {"collect", "pick", "close", "confirm"}

\* Where a column may be at each step of the ball thread.
PlaceOf(c) ==
  /\ bpc = "announce" => AtStart(c) \/ Running(c, {"start_wait"})
  /\ bpc \in BetweenRounds => AtStart(c) \/ Gone(c)
  /\ bpc = "own" =>
       AtStart(c) \/ Running(c, CheckSteps) \/ AtArbitration(c) \/ Gone(c)
  /\ bpc \in Collecting => AtArbitration(c) \/ Gone(c)
  /\ bpc = "boost" =>
       AtArbitration(c) \/ Running(c, VerdictSteps) \/ AtStart(c) \/ Gone(c)

Places == \A c \in Columns : PlaceOf(c)

\* The column that has passed a turnstile and not yet let the next one in.
Carries(c, step) == pc[c] = step /\ blocked[c] = "none"
Carried(step) == \E c \in Columns : Carries(c, step)

OneCarrier(step) ==
  \A c, d \in Columns : Carries(c, step) /\ Carries(d, step) => c = d

\* A turnstile has one token while it is open, in the semaphore or carried;
\* its count goes below zero by the columns that wait.
TokenOf(s, step, open) ==
  sem[s] = (IF open /\ ~Carried(step) THEN 1 ELSE 0) - Cardinality(Waiters(s))

StartOpen == bpc \in {"own", "collect", "pick", "close"}
ArbitrationOpen ==
  bpc \in {"boost", "prepare", "send", "snapshot", "test", "retake"}

Tokens ==
  /\ OneCarrier("start_post") /\ OneCarrier("arb_post")
  /\ TokenOf("start_check", "start_post", StartOpen)
  /\ TokenOf("arbitration_done", "arb_post", ArbitrationOpen)

\* While columns wait at an open turnstile, another is about to let them in.
NobodyForgotten ==
  /\ bpc = "own" /\ Waiters("start_check") # {} => Carried("start_post")
  /\ bpc = "boost" /\ Waiters("arbitration_done") # {} => Carried("arb_post")

\* A report not yet collected is a token of sem_check_done.
Pending(c) ==
  /\ pc[c] \in {"arb_wait", "arb_post"}
  /\ bpc = "own" \/ (bpc = "collect" /\ c >= i) \/ (bpc = "pick" /\ c > i)

Reports == \A c \in Columns : check_done[c] = IF Pending(c) THEN 1 ELSE 0

\* A column without bricks has left or is about to.
Leaving ==
  \A c \in Columns :
    /\ remaining_bricks[c] = 0 => pc[c] \in {"unlock", "surrender", "exited"}
    /\ pc[c] \in {"surrender", "exited"} => remaining_bricks[c] = 0

BallAwake == blocked[Ball] = "none"

MutexHeld ==
  \A c \in Columns : mtx_bricks = c <=> pc[c] \in {"break", "unlock"}

PhaseInv ==
  /\ TypeInv /\ Places /\ Tokens /\ NobodyForgotten /\ Reports /\ Leaving
  /\ BallAwake /\ MutexHeld

-----------------------------------------------------------------------------
(* Who can step when.                                                      *)

\* The ball thread steps only when every column waits or has left.
LEMMA QuietForBall ==
  ASSUME PhaseInv, CanRun(Ball)
  PROVE  \A c \in Columns : AtStart(c) \/ AtArbitration(c) \/ Gone(c)
<1> SUFFICES ASSUME NEW c \in Columns
             PROVE  AtStart(c) \/ AtArbitration(c) \/ Gone(c)
  OBVIOUS
<1>1. ~Ready(c)
  BY ThreadIds DEF CanRun, Prio
<1>2. bpc = "boost" => mtx_bricks = Nobody
  BY ThreadIds DEF CanRun, Ready, WantsMutex
<1>3. PlaceOf(c) /\ bpc \in BallSteps
  BY DEF PhaseInv, Places, TypeInv, TypeOK
<1>4. Running(c, {"start_wait"}) => Ready(c)
  BY ThreadIds DEF Running, Ready, WantsMutex
<1>5. Running(c, CheckSteps) => Ready(c)
  BY ThreadIds DEF Running, CheckSteps, Ready, WantsMutex
<1>6. Running(c, VerdictSteps) /\ mtx_bricks = Nobody => Ready(c)
  BY ThreadIds DEF Running, VerdictSteps, Ready, WantsMutex
<1> QED BY <1>1, <1>2, <1>3, <1>4, <1>5, <1>6
           DEF PlaceOf, BallSteps, BetweenRounds, Collecting

\* A column that steps is not blocked, and its step belongs to the phase.
LEMMA PhaseOfColumnStep ==
  ASSUME PhaseInv, NEW c \in Columns, blocked[c] = "none"
  PROVE  /\ pc[c] \in CheckSteps => bpc = "own"
         /\ pc[c] \in VerdictSteps \ {"start_wait"} => bpc = "boost"
         /\ pc[c] = "start_wait" => bpc \in {"announce", "boost"}
<1>1. PlaceOf(c) /\ bpc \in BallSteps
  BY DEF PhaseInv, Places, TypeInv, TypeOK
<1> QED BY <1>1 DEF PlaceOf, BallSteps, BetweenRounds, Collecting, AtStart,
                    AtArbitration, Gone, Running, CheckSteps, VerdictSteps

\* Only columns wait at the turnstiles, finitely many, and none on the golden
\* semaphores.
LEMMA WaitingColumns ==
  ASSUME PhaseInv, NEW s \in {"start_check", "arbitration_done"}
  PROVE  /\ Waiters(s) \subseteq Columns
         /\ IsFiniteSet(Waiters(s))
         /\ Cardinality(Waiters(s)) \in Nat
         /\ Waiters(s) # {} => Cardinality(Waiters(s)) > 0
<1>1. Waiters(s) \subseteq Columns
  BY ThreadIds DEF PhaseInv, BallAwake, Waiters
<1>2. IsFiniteSet(Waiters(s))
  BY <1>1, HoldersFinite, FS_Subset
<1> QED BY <1>1, <1>2, FS_CardinalityType, FS_EmptySet

LEMMA GoldenHasNoWaiters ==
  ASSUME PhaseInv
  PROVE  Waiters("golden_brick") = {}
BY DEF PhaseInv, TypeInv, TypeOK, Waiters

-----------------------------------------------------------------------------
(* What a column's step does to the turnstiles.                            *)

Turnstiles == Tokens /\ NobodyForgotten

\* A step that neither blocks, wakes nor moves a carrier leaves them alone.
LEMMA TurnstilesIdle ==
  ASSUME PhaseInv, UNCHANGED <<bpc, blocked>>,
         sem'["start_check"] = sem["start_check"],
         sem'["arbitration_done"] = sem["arbitration_done"],
         \A d \in Columns, step \in {"start_post", "arb_post"} :
           pc'[d] = step <=> pc[d] = step
  PROVE  Turnstiles'
<1>1. \A s : Waiters(s)' = Waiters(s)
  BY DEF Waiters
<1>2. \A d \in Columns, step \in {"start_post", "arb_post"} :
        Carries(d, step)' <=> Carries(d, step)
  BY DEF Carries
<1>3. \A step \in {"start_post", "arb_post"} : Carried(step)' <=> Carried(step)
  BY <1>2 DEF Carried
<1>4. Tokens /\ NobodyForgotten
  BY DEF PhaseInv
<1>5. Tokens'
  BY <1>1, <1>2, <1>3, <1>4 DEF Tokens, TokenOf, OneCarrier, StartOpen, ArbitrationOpen
<1> QED BY <1>1, <1>3, <1>4, <1>5 DEF Turnstiles, NobodyForgotten

\* A column that waits at a closed turnstile is counted below zero.
LEMMA TurnstileBlocks ==
  ASSUME PhaseInv, NEW c \in Columns, blocked[c] = "none",
         NEW s \in {"start_check", "arbitration_done"},
         sem[s] = 0 - Cardinality(Waiters(s)), Wait(c, s)
  PROVE  /\ blocked' = [blocked EXCEPT ![c] = s]
         /\ Waiters(s)' = Waiters(s) \cup {c}
         /\ \A r \in Semaphores \ {s} : Waiters(r)' = Waiters(r) /\ sem'[r] = sem[r]
         /\ sem'[s] = 0 - Cardinality(Waiters(s)')
<1>1. sem[s] <= 0 /\ blocked' = [blocked EXCEPT ![c] = s]
  BY WaitingColumns DEF Wait
<1>2. c \in Threads /\ blocked \in [Threads -> {"none", "start_check", "arbitration_done", "check_done"}]
      /\ sem \in [Semaphores -> Int] /\ s \in Semaphores
  BY ThreadIds DEF PhaseInv, TypeInv, TypeOK, Semaphores
<1>3. Waiters(s)' = Waiters(s) \cup {c} /\ c \notin Waiters(s)
  BY <1>1, <1>2 DEF Waiters
<1>4. Cardinality(Waiters(s)') = Cardinality(Waiters(s)) + 1
  BY <1>3, WaitingColumns, FS_AddElement
<1>5. sem' = [sem EXCEPT ![s] = @ - 1]
  BY DEF Wait
<1>6. \A r \in Semaphores \ {s} : Waiters(r)' = Waiters(r) /\ sem'[r] = sem[r]
  BY <1>1, <1>2, <1>5 DEF Waiters, Semaphores
<1> QED BY <1>1, <1>2, <1>3, <1>4, <1>5, <1>6, WaitingColumns

\* A post at a turnstile with waiters wakes exactly one of them, a column; without
\* waiters it leaves a token.
LEMMA TurnstilePosts ==
  ASSUME PhaseInv, NEW s \in {"start_check", "arbitration_done"},
         sem[s] = 0 - Cardinality(Waiters(s)), Post(s)
  PROVE  /\ \A r \in Semaphores \ {s} : sem'[r] = sem[r]
         /\ Waiters(s) = {} => UNCHANGED blocked /\ sem'[s] = 1
         /\ Waiters(s) # {} =>
              \E w \in Columns :
                /\ blocked[w] = s
                /\ blocked' = [blocked EXCEPT ![w] = "none"]
                /\ Waiters(s)' = Waiters(s) \ {w}
                /\ \A r \in Semaphores \ {s} : Waiters(r)' = Waiters(r)
                /\ sem'[s] = 0 - Cardinality(Waiters(s)')
<1>1. blocked \in [Threads -> {"none", "start_check", "arbitration_done", "check_done"}]
      /\ sem \in [Semaphores -> Int] /\ s \in Semaphores
  BY DEF PhaseInv, TypeInv, TypeOK, Semaphores
<1>2. sem' = [sem EXCEPT ![s] = @ + 1]
  BY DEF Post
<1>3. Waiters(s) = {} => UNCHANGED blocked /\ sem'[s] = 1
  BY <1>1, <1>2, FS_EmptySet DEF Post
<1>4. ASSUME Waiters(s) # {}
      PROVE  \E w \in Columns :
                /\ blocked[w] = s
                /\ blocked' = [blocked EXCEPT ![w] = "none"]
                /\ Waiters(s)' = Waiters(s) \ {w}
                /\ \A r \in Semaphores \ {s} : Waiters(r)' = Waiters(r)
                /\ sem'[s] = 0 - Cardinality(Waiters(s)')
  <2>1. sem[s] < 0
    BY <1>1, <1>4, WaitingColumns
  <2>2. PICK w \in Urgent(s) : blocked' = [blocked EXCEPT ![w] = "none"]
    BY <1>4, <2>1 DEF Post
  <2>3. w \in Waiters(s) /\ w \in Columns /\ w \in Threads /\ blocked[w] = s
    BY <2>2, WaitingColumns, ThreadIds DEF Urgent, Waiters
  <2>4. Waiters(s)' = Waiters(s) \ {w}
    BY <1>1, <2>2, <2>3 DEF Waiters
  <2>5. Cardinality(Waiters(s)') = Cardinality(Waiters(s)) - 1
    BY <2>3, <2>4, WaitingColumns, FS_RemoveElement
  <2>6. \A r \in Semaphores \ {s} : Waiters(r)' = Waiters(r)
    BY <1>1, <2>2, <2>3 DEF Waiters, Semaphores
  <2>7. sem'[s] = 0 - Cardinality(Waiters(s)')
    BY <1>1, <1>2, <2>5, WaitingColumns
  <2> QED BY <2>2, <2>3, <2>4, <2>6, <2>7
<1> QED BY <1>1, <1>2, <1>3, <1>4

-----------------------------------------------------------------------------
(* The steps of a column.                                                  *)

\* Steps inside a phase: no turnstile is touched.
LEMMA ColumnMove ==
  ASSUME PhaseInv, NEW c \in Columns, NEW to, blocked[c] = "none",
         pc' = [pc EXCEPT ![c] = to], UNCHANGED <<bpc, blocked>>,
         sem'["start_check"] = sem["start_check"],
         sem'["arbitration_done"] = sem["arbitration_done"],
         pc[c] \notin {"start_post", "arb_post"}, to \notin {"start_post", "arb_post"},
         \/ pc[c] \in CheckSteps /\ to \in CheckSteps
         \/ pc[c] \in VerdictSteps \ {"start_wait"} /\ to \in VerdictSteps \cup {"exited"}
  PROVE  Places' /\ Turnstiles' /\ BallAwake'
<1>1. pc \in [Columns -> ColumnSteps] /\ Places
  BY DEF PhaseInv, TypeInv, TypeOK
<1>2. \/ bpc = "own" /\ to \in CheckSteps
      \/ bpc = "boost" /\ to \in VerdictSteps \cup {"exited"}
  BY PhaseOfColumnStep
<1>3. PlaceOf(c)'
  BY <1>1, <1>2 DEF PlaceOf, Running, Gone, BetweenRounds, Collecting
<1>4. ASSUME NEW d \in Columns, d # c PROVE PlaceOf(d)'
  <2>1. PlaceOf(d) /\ pc'[d] = pc[d] /\ blocked'[d] = blocked[d] /\ bpc' = bpc
    BY <1>1, <1>4 DEF Places
  <2> QED BY <2>1 DEF PlaceOf, Running, AtStart, AtArbitration, Gone
<1>5. Turnstiles'
  <2>1. \A d \in Columns, step \in {"start_post", "arb_post"} :
          pc'[d] = step <=> pc[d] = step
    BY <1>1
  <2> QED BY <2>1, TurnstilesIdle
<1>6. BallAwake'
  BY DEF PhaseInv, BallAwake
<1> QED BY <1>3, <1>4, <1>5, <1>6 DEF Places

\* The parts of the invariant about one column at a time.
PerColumn == Reports /\ Leaving /\ MutexHeld

LEMMA PhaseInvParts ==
  ASSUME TypeInv', Places', Turnstiles', BallAwake', PerColumn'
  PROVE  PhaseInv'
BY DEF PhaseInv, Turnstiles, PerColumn

\* The golden steps and the collision check.
LEMMA CheckingStep ==
  ASSUME PhaseInv, NEW c \in Columns,
         \/ GoldenRelease(c) \/ GoldenGiveBack(c) \/ GoldenTake(c) \/ GoldenKeep(c)
         \/ Relabel(c) \/ CheckMiss(c) \/ CheckHit(c)
  PROVE  PhaseInv'
<1>1. TypeInv'
  BY ColumnTypeInv DEF PhaseInv, Column
<1>2. /\ pc \in [Columns -> ColumnSteps] /\ sem \in [Semaphores -> Int]
      /\ Reports /\ Leaving /\ MutexHeld
  BY DEF PhaseInv, TypeInv, TypeOK
<1>3. PICK to \in {"give_back", "relabel", "check", "report"} :
        /\ pc[c] \in {"golden", "give_back", "relabel", "check"}
        /\ pc' = [pc EXCEPT ![c] = to]
        /\ UNCHANGED <<bpc, i, check_done, remaining_bricks, mtx_bricks>>
  BY DEF GoldenRelease, GoldenGiveBack, GoldenTake, GoldenKeep, Relabel, CheckMiss,
         CheckHit, ColumnStep, TryWait, Post, sync, wall, roundVars
<1>4. blocked[c] = "none"
  BY DEF GoldenRelease, GoldenGiveBack, GoldenTake, GoldenKeep, Relabel, CheckMiss,
         CheckHit, ColumnStep, CanRun, Ready
<1>5. /\ UNCHANGED blocked
      /\ sem'["start_check"] = sem["start_check"]
      /\ sem'["arbitration_done"] = sem["arbitration_done"]
  BY <1>2, GoldenHasNoWaiters
     DEF GoldenRelease, GoldenGiveBack, GoldenTake, GoldenKeep, Relabel, CheckMiss,
         CheckHit, TryWait, Post, sync, Semaphores
<1>6. Places' /\ Turnstiles' /\ BallAwake'
  BY <1>3, <1>4, <1>5, ColumnMove DEF CheckSteps
<1>7. \A d \in Columns :
        d # c => pc'[d] = pc[d]
  BY <1>2, <1>3
<1>8. pc'[c] = to
  BY <1>2, <1>3
<1>9. Reports' /\ Leaving' /\ MutexHeld'
  BY <1>2, <1>3, <1>7, <1>8 DEF Reports, Pending, Leaving, MutexHeld
<1> QED BY <1>1, <1>6, <1>9, PhaseInvParts DEF PerColumn

\* The report: a token of the column's own semaphore.
LEMMA ReportStep ==
  ASSUME PhaseInv, NEW c \in Columns, Report(c)
  PROVE  PhaseInv'
<1>1. TypeInv'
  BY ColumnTypeInv DEF PhaseInv, Column
<1>2. /\ pc \in [Columns -> ColumnSteps] /\ check_done \in [Columns -> Int]
      /\ Reports /\ Leaving /\ MutexHeld /\ BallAwake
  BY DEF PhaseInv, TypeInv, TypeOK
<1>3. /\ pc[c] = "report" /\ pc' = [pc EXCEPT ![c] = "arb_wait"] /\ blocked[c] = "none"
      /\ check_done' = [check_done EXCEPT ![c] = @ + 1]
      /\ UNCHANGED <<bpc, i, sem, remaining_bricks, mtx_bricks>>
  BY DEF Report, ColumnStep, PostCheckDone, CanRun, Ready, roundVars, wall
<1>4. UNCHANGED blocked
  BY <1>2 DEF Report, PostCheckDone, BallAwake
<1>5. Places' /\ Turnstiles' /\ BallAwake'
  <2> DEFINE to == "arb_wait"
  <2>1. /\ pc' = [pc EXCEPT ![c] = to] /\ to \notin {"start_post", "arb_post"}
        /\ pc[c] \in CheckSteps /\ to \in CheckSteps
    BY <1>3 DEF CheckSteps
  <2> HIDE DEF to
  <2> QED BY <1>3, <1>4, <2>1, ColumnMove
<1>6. bpc = "own"
  BY <1>3, PhaseOfColumnStep DEF CheckSteps
<1>7. \A d \in Columns \ {c} : pc'[d] = pc[d] /\ check_done'[d] = check_done[d]
  BY <1>2, <1>3
<1>8. pc'[c] = "arb_wait" /\ check_done[c] = 0 /\ check_done'[c] = 1
  BY <1>2, <1>3 DEF Reports, Pending
<1>9. Reports' /\ Leaving' /\ MutexHeld'
  BY <1>2, <1>3, <1>6, <1>7, <1>8 DEF Reports, Pending, Leaving, MutexHeld
<1> QED BY <1>1, <1>5, <1>9, PhaseInvParts DEF PerColumn

\* The verdict, the critical section and the end of the thread.
LEMMA VerdictStep ==
  ASSUME PhaseInv, NEW c \in Columns,
         \/ Verdict(c) \/ LockBricks(c) \/ Break(c) \/ UnlockBricks(c) \/ Surrender(c)
  PROVE  PhaseInv'
<1>1. TypeInv'
  BY ColumnTypeInv DEF PhaseInv, Column
<1>2. /\ pc \in [Columns -> ColumnSteps] /\ sem \in [Semaphores -> Int]
      /\ remaining_bricks \in [Columns -> Int] /\ mtx_bricks \in Columns \cup {Nobody}
      /\ Reports /\ Leaving /\ MutexHeld
  BY DEF PhaseInv, TypeInv, TypeOK
<1>3. PICK to \in {"lock", "break", "unlock", "start_wait", "surrender", "exited"} :
        /\ pc[c] \in {"verdict", "lock", "break", "unlock", "surrender"}
        /\ pc' = [pc EXCEPT ![c] = to]
        /\ UNCHANGED <<bpc, i, check_done>>
  BY DEF Verdict, LockBricks, Break, UnlockBricks, Surrender, AfterBreak, ColumnStep,
         Post, sync, roundVars
<1>4. blocked[c] = "none" /\ (pc[c] = "lock" => mtx_bricks = Nobody)
  BY ThreadIds DEF Verdict, LockBricks, Break, UnlockBricks, Surrender, ColumnStep,
                   CanRun, Ready, WantsMutex
<1>5. /\ UNCHANGED blocked
      /\ sem'["start_check"] = sem["start_check"]
      /\ sem'["arbitration_done"] = sem["arbitration_done"]
  BY <1>2, GoldenHasNoWaiters
     DEF Verdict, LockBricks, Break, UnlockBricks, Surrender, Post, sync, Semaphores
<1>6. Places' /\ Turnstiles' /\ BallAwake'
  BY <1>3, <1>4, <1>5, ColumnMove DEF VerdictSteps
<1>7. \A d \in Columns : d # c => pc'[d] = pc[d]
  BY <1>2, <1>3
<1>8. pc'[c] = to
  BY <1>2, <1>3
<1>9. bpc = "boost"
  BY <1>3, <1>4, PhaseOfColumnStep DEF VerdictSteps
<1>10. Reports'
  BY <1>2, <1>3, <1>9 DEF Reports, Pending
<1>11. Leaving'
  <2>1. CASE Break(c)
    BY <1>2, <2>1 DEF Break, ColumnStep, Leaving
  <2>2. CASE Verdict(c) \/ LockBricks(c) \/ UnlockBricks(c) \/ Surrender(c)
    BY <1>2, <2>2 DEF Verdict, LockBricks, UnlockBricks, Surrender, AfterBreak,
                      ColumnStep, wall, Leaving
  <2> QED BY <2>1, <2>2
<1>12. MutexHeld'
  <2>1. CASE LockBricks(c)
    BY <1>2, <1>4, <1>7, <2>1, ThreadIds DEF LockBricks, ColumnStep, MutexHeld
  <2>2. CASE UnlockBricks(c)
    BY <1>2, <1>7, <2>2, ThreadIds
       DEF UnlockBricks, AfterBreak, ColumnStep, MutexHeld
  <2>3. CASE Verdict(c) \/ Break(c) \/ Surrender(c)
    BY <1>2, <2>3 DEF Verdict, Break, Surrender, ColumnStep, MutexHeld
  <2> QED BY <2>1, <2>2, <2>3
<1> QED BY <1>1, <1>6, <1>10, <1>11, <1>12, PhaseInvParts DEF PerColumn

\* Waiting at a turnstile: the column blocks, for the token is not there.
LEMMA StartWaitStep ==
  ASSUME PhaseInv, NEW c \in Columns, StartWait(c)
  PROVE  PhaseInv'
<1>1. TypeInv'
  BY ColumnTypeInv DEF PhaseInv, Column
<1>2. /\ pc \in [Columns -> ColumnSteps] /\ sem \in [Semaphores -> Int]
      /\ blocked \in [Threads -> {"none", "start_check", "arbitration_done", "check_done"}]
      /\ Places /\ Tokens /\ NobodyForgotten /\ Reports /\ Leaving /\ MutexHeld
  BY DEF PhaseInv, TypeInv, TypeOK
<1>3. /\ pc[c] = "start_wait" /\ pc' = [pc EXCEPT ![c] = "start_post"]
      /\ blocked[c] = "none" /\ Wait(c, "start_check")
      /\ UNCHANGED <<bpc, i, check_done, remaining_bricks, mtx_bricks>>
  BY DEF StartWait, ColumnStep, CanRun, Ready, Wait, roundVars, wall
<1>4. bpc \in {"announce", "boost"}
  BY <1>3, PhaseOfColumnStep
<1>5. sem["start_check"] = 0 - Cardinality(Waiters("start_check"))
  BY <1>2, <1>4 DEF Tokens, TokenOf, StartOpen
<1>6. /\ blocked' = [blocked EXCEPT ![c] = "start_check"]
      /\ Waiters("arbitration_done")' = Waiters("arbitration_done")
      /\ sem'["arbitration_done"] = sem["arbitration_done"]
      /\ sem'["start_check"] = 0 - Cardinality(Waiters("start_check")')
  BY <1>3, <1>5, TurnstileBlocks DEF Semaphores
<1>7. \A d \in Columns \ {c} : pc'[d] = pc[d] /\ blocked'[d] = blocked[d]
  BY <1>2, <1>3, <1>6, ThreadIds
<1>8. pc'[c] = "start_post" /\ blocked'[c] = "start_check" /\ blocked'[Ball] = blocked[Ball]
  BY <1>2, <1>3, <1>6, ThreadIds
<1>9. \A d \in Columns, step \in {"start_post", "arb_post"} :
        Carries(d, step)' <=> Carries(d, step)
  BY <1>3, <1>7, <1>8 DEF Carries
<1>10. \A step \in {"start_post", "arb_post"} : Carried(step)' <=> Carried(step)
  BY <1>9 DEF Carried
<1>11. Places'
  <2>1. PlaceOf(c)'
    BY <1>3, <1>4, <1>8 DEF PlaceOf, AtStart, BetweenRounds, Collecting
  <2>2. ASSUME NEW d \in Columns, d # c PROVE PlaceOf(d)'
    BY <1>2, <1>3, <1>7, <2>2
       DEF Places, PlaceOf, AtStart, AtArbitration, Gone, Running
  <2> QED BY <2>1, <2>2 DEF Places
<1>12. Tokens'
  BY <1>2, <1>3, <1>4, <1>6, <1>9, <1>10
     DEF Tokens, TokenOf, OneCarrier, StartOpen, ArbitrationOpen
<1>13. NobodyForgotten'
  BY <1>2, <1>3, <1>4, <1>6, <1>10 DEF NobodyForgotten
<1>14. Reports' /\ Leaving' /\ MutexHeld'
  BY <1>2, <1>3, <1>4, <1>7, <1>8 DEF Reports, Pending, Leaving, MutexHeld
<1>15. BallAwake'
  BY <1>8 DEF PhaseInv, BallAwake
<1> QED BY <1>1, <1>11, <1>12, <1>13, <1>14, <1>15, PhaseInvParts
        DEF Turnstiles, PerColumn

LEMMA ArbWaitStep ==
  ASSUME PhaseInv, NEW c \in Columns, ArbWait(c)
  PROVE  PhaseInv'
<1>1. TypeInv'
  BY ColumnTypeInv DEF PhaseInv, Column
<1>2. /\ pc \in [Columns -> ColumnSteps] /\ sem \in [Semaphores -> Int]
      /\ blocked \in [Threads -> {"none", "start_check", "arbitration_done", "check_done"}]
      /\ Places /\ Tokens /\ NobodyForgotten /\ Reports /\ Leaving /\ MutexHeld
  BY DEF PhaseInv, TypeInv, TypeOK
<1>3. /\ pc[c] = "arb_wait" /\ pc' = [pc EXCEPT ![c] = "arb_post"]
      /\ blocked[c] = "none" /\ Wait(c, "arbitration_done")
      /\ UNCHANGED <<bpc, i, check_done, remaining_bricks, mtx_bricks>>
  BY DEF ArbWait, ColumnStep, CanRun, Ready, Wait, roundVars, wall
<1>4. bpc = "own"
  BY <1>3, PhaseOfColumnStep DEF CheckSteps
<1>5. sem["arbitration_done"] = 0 - Cardinality(Waiters("arbitration_done"))
  BY <1>2, <1>4 DEF Tokens, TokenOf, ArbitrationOpen
<1>6. /\ blocked' = [blocked EXCEPT ![c] = "arbitration_done"]
      /\ Waiters("start_check")' = Waiters("start_check")
      /\ sem'["start_check"] = sem["start_check"]
      /\ sem'["arbitration_done"] = 0 - Cardinality(Waiters("arbitration_done")')
  BY <1>3, <1>5, TurnstileBlocks DEF Semaphores
<1>7. \A d \in Columns \ {c} : pc'[d] = pc[d] /\ blocked'[d] = blocked[d]
  BY <1>2, <1>3, <1>6, ThreadIds
<1>8. pc'[c] = "arb_post" /\ blocked'[c] = "arbitration_done" /\ blocked'[Ball] = blocked[Ball]
  BY <1>2, <1>3, <1>6, ThreadIds
<1>9. \A d \in Columns, step \in {"start_post", "arb_post"} :
        Carries(d, step)' <=> Carries(d, step)
  BY <1>3, <1>7, <1>8 DEF Carries
<1>10. \A step \in {"start_post", "arb_post"} : Carried(step)' <=> Carried(step)
  BY <1>9 DEF Carried
<1>11. Places'
  <2>1. PlaceOf(c)'
    BY <1>3, <1>4, <1>8 DEF PlaceOf, AtArbitration, BetweenRounds, Collecting
  <2>2. ASSUME NEW d \in Columns, d # c PROVE PlaceOf(d)'
    BY <1>2, <1>3, <1>7, <2>2
       DEF Places, PlaceOf, AtStart, AtArbitration, Gone, Running
  <2> QED BY <2>1, <2>2 DEF Places
<1>12. Tokens'
  BY <1>2, <1>3, <1>4, <1>6, <1>9, <1>10
     DEF Tokens, TokenOf, OneCarrier, StartOpen, ArbitrationOpen
<1>13. NobodyForgotten'
  BY <1>2, <1>3, <1>4, <1>6, <1>10 DEF NobodyForgotten
<1>14. Reports' /\ Leaving' /\ MutexHeld'
  BY <1>2, <1>3, <1>4, <1>7, <1>8 DEF Reports, Pending, Leaving, MutexHeld
<1>15. BallAwake'
  BY <1>8 DEF PhaseInv, BallAwake
<1> QED BY <1>1, <1>11, <1>12, <1>13, <1>14, <1>15, PhaseInvParts
        DEF Turnstiles, PerColumn

\* Letting the next column in: the token passes to a waiter, or stays when nobody waits.
LEMMA StartPostStep ==
  ASSUME PhaseInv, NEW c \in Columns, StartPost(c)
  PROVE  PhaseInv'
<1>1. TypeInv'
  BY ColumnTypeInv DEF PhaseInv, Column
<1>2. /\ pc \in [Columns -> ColumnSteps] /\ sem \in [Semaphores -> Int]
      /\ blocked \in [Threads -> {"none", "start_check", "arbitration_done", "check_done"}]
      /\ Places /\ Tokens /\ NobodyForgotten /\ Reports /\ Leaving /\ MutexHeld
  BY DEF PhaseInv, TypeInv, TypeOK
<1>3. /\ pc[c] = "start_post" /\ pc' = [pc EXCEPT ![c] = "golden"]
      /\ blocked[c] = "none" /\ Post("start_check")
      /\ UNCHANGED <<bpc, i, check_done, remaining_bricks, mtx_bricks>>
  BY DEF StartPost, ColumnStep, CanRun, Ready, Post, roundVars, wall
<1>4. bpc = "own"
  BY <1>3, PhaseOfColumnStep DEF CheckSteps
<1>5. Carries(c, "start_post") /\ \A d \in Columns : Carries(d, "start_post") => d = c
  BY <1>2, <1>3 DEF Carries, Tokens, OneCarrier
<1>6. sem["start_check"] = 0 - Cardinality(Waiters("start_check"))
  BY <1>2, <1>5 DEF Tokens, TokenOf, Carried
<1>7. sem'["arbitration_done"] = sem["arbitration_done"]
  BY <1>3, <1>6, TurnstilePosts DEF Semaphores
<1>8. Reports' /\ Leaving' /\ MutexHeld'
  BY <1>2, <1>3, <1>4 DEF Reports, Pending, Leaving, MutexHeld
<1>9. pc'[c] = "golden" /\ \A d \in Columns \ {c} : pc'[d] = pc[d]
  BY <1>2, <1>3
<1>10. CASE Waiters("start_check") = {}
  <2>1. UNCHANGED blocked /\ sem'["start_check"] = 1
    BY <1>3, <1>6, <1>10, TurnstilePosts
  <2>2. \A s : Waiters(s)' = Waiters(s)
    BY <2>1 DEF Waiters
  <2>3. /\ \A d \in Columns : ~Carries(d, "start_post")'
        /\ \A d \in Columns : Carries(d, "arb_post")' <=> Carries(d, "arb_post")
    BY <1>3, <1>5, <1>9, <2>1 DEF Carries
  <2>4. ~Carried("start_post")' /\ (Carried("arb_post")' <=> Carried("arb_post"))
    BY <2>3 DEF Carried
  <2>5. Cardinality(Waiters("start_check")') = 0
    BY <1>10, <2>2, FS_EmptySet
  <2>6. Tokens'
    BY <1>2, <1>3, <1>4, <1>7, <2>1, <2>2, <2>3, <2>4, <2>5
       DEF Tokens, TokenOf, OneCarrier, StartOpen, ArbitrationOpen
  <2>7. NobodyForgotten'
    BY <1>3, <1>4, <1>10, <2>2 DEF NobodyForgotten
  <2>8. Places'
    BY <1>2, <1>3, <1>4, <1>9, <2>1
       DEF Places, PlaceOf, AtStart, AtArbitration, Gone, Running, BetweenRounds,
           Collecting, CheckSteps
  <2>9. BallAwake'
    BY <2>1 DEF PhaseInv, BallAwake
  <2> QED BY <1>1, <1>8, <2>6, <2>7, <2>8, <2>9, PhaseInvParts DEF Turnstiles, PerColumn
<1>11. CASE Waiters("start_check") # {}
  <2>1. PICK w \in Columns :
          /\ blocked[w] = "start_check"
          /\ blocked' = [blocked EXCEPT ![w] = "none"]
          /\ Waiters("arbitration_done")' = Waiters("arbitration_done")
          /\ sem'["start_check"] = 0 - Cardinality(Waiters("start_check")')
    BY <1>3, <1>6, <1>11, TurnstilePosts DEF Semaphores
  <2>2. w # c /\ pc[w] = "start_post"
    BY <1>2, <1>3, <1>4, <2>1 DEF Places, PlaceOf, AtStart, AtArbitration, Gone, Running
  <2>3. /\ pc'[w] = "start_post" /\ blocked'[w] = "none" /\ blocked'[Ball] = blocked[Ball]
        /\ \A d \in Columns \ {w} : blocked'[d] = blocked[d]
    BY <1>2, <1>9, <2>1, <2>2, ThreadIds
  <2>4. /\ \A d \in Columns : Carries(d, "start_post")' <=> d = w
        /\ \A d \in Columns : Carries(d, "arb_post")' <=> Carries(d, "arb_post")
    BY <1>3, <1>5, <1>9, <2>2, <2>3 DEF Carries
  <2>5. Carried("start_post")' /\ (Carried("arb_post")' <=> Carried("arb_post"))
    BY <2>4 DEF Carried
  <2>6. Tokens'
    BY <1>2, <1>3, <1>4, <1>7, <2>1, <2>4, <2>5
       DEF Tokens, TokenOf, OneCarrier, StartOpen, ArbitrationOpen
  <2>7. NobodyForgotten'
    BY <1>3, <1>4, <2>5 DEF NobodyForgotten
  <2>8. Places'
    <3>1. PlaceOf(w)'
      BY <1>3, <1>4, <2>3 DEF PlaceOf, Running, BetweenRounds, Collecting, CheckSteps
    <3>2. PlaceOf(c)'
      BY <1>3, <1>4, <1>9, <2>2, <2>3
         DEF PlaceOf, Running, BetweenRounds, Collecting, CheckSteps
    <3>3. ASSUME NEW d \in Columns, d # c, d # w PROVE PlaceOf(d)'
      <4>1. PlaceOf(d) /\ pc'[d] = pc[d] /\ blocked'[d] = blocked[d] /\ bpc' = bpc
        BY <1>2, <1>3, <1>9, <2>3, <3>3 DEF Places
      <4> QED BY <4>1 DEF PlaceOf, AtStart, AtArbitration, Gone, Running
    <3> QED BY <3>1, <3>2, <3>3 DEF Places
  <2>9. BallAwake'
    BY <2>3 DEF PhaseInv, BallAwake
  <2> QED BY <1>1, <1>8, <2>6, <2>7, <2>8, <2>9, PhaseInvParts DEF Turnstiles, PerColumn
<1> QED BY <1>10, <1>11

\* The same at the second turnstile.
LEMMA ArbPostStep ==
  ASSUME PhaseInv, NEW c \in Columns, ArbPost(c)
  PROVE  PhaseInv'
<1>1. TypeInv'
  BY ColumnTypeInv DEF PhaseInv, Column
<1>2. /\ pc \in [Columns -> ColumnSteps] /\ sem \in [Semaphores -> Int]
      /\ blocked \in [Threads -> {"none", "start_check", "arbitration_done", "check_done"}]
      /\ Places /\ Tokens /\ NobodyForgotten /\ Reports /\ Leaving /\ MutexHeld
  BY DEF PhaseInv, TypeInv, TypeOK
<1>3. /\ pc[c] = "arb_post" /\ pc' = [pc EXCEPT ![c] = "verdict"]
      /\ blocked[c] = "none" /\ Post("arbitration_done")
      /\ UNCHANGED <<bpc, i, check_done, remaining_bricks, mtx_bricks>>
  BY DEF ArbPost, ColumnStep, CanRun, Ready, Post, roundVars, wall
<1>4. bpc = "boost"
  BY <1>3, PhaseOfColumnStep DEF VerdictSteps
<1>5. Carries(c, "arb_post") /\ \A d \in Columns : Carries(d, "arb_post") => d = c
  BY <1>2, <1>3 DEF Carries, Tokens, OneCarrier
<1>6. sem["arbitration_done"] = 0 - Cardinality(Waiters("arbitration_done"))
  BY <1>2, <1>5 DEF Tokens, TokenOf, Carried
<1>7. sem'["start_check"] = sem["start_check"]
  BY <1>3, <1>6, TurnstilePosts DEF Semaphores
<1>8. Reports' /\ Leaving' /\ MutexHeld'
  BY <1>2, <1>3, <1>4 DEF Reports, Pending, Leaving, MutexHeld
<1>9. pc'[c] = "verdict" /\ \A d \in Columns \ {c} : pc'[d] = pc[d]
  BY <1>2, <1>3
<1>10. CASE Waiters("arbitration_done") = {}
  <2>1. UNCHANGED blocked /\ sem'["arbitration_done"] = 1
    BY <1>3, <1>6, <1>10, TurnstilePosts
  <2>2. \A s : Waiters(s)' = Waiters(s)
    BY <2>1 DEF Waiters
  <2>3. /\ \A d \in Columns : ~Carries(d, "arb_post")'
        /\ \A d \in Columns : Carries(d, "start_post")' <=> Carries(d, "start_post")
    BY <1>3, <1>5, <1>9, <2>1 DEF Carries
  <2>4. ~Carried("arb_post")' /\ (Carried("start_post")' <=> Carried("start_post"))
    BY <2>3 DEF Carried
  <2>5. Cardinality(Waiters("arbitration_done")') = 0
    BY <1>10, <2>2, FS_EmptySet
  <2>6. Tokens'
    BY <1>2, <1>3, <1>4, <1>7, <2>1, <2>2, <2>3, <2>4, <2>5
       DEF Tokens, TokenOf, OneCarrier, StartOpen, ArbitrationOpen
  <2>7. NobodyForgotten'
    BY <1>3, <1>4, <1>10, <2>2 DEF NobodyForgotten
  <2>8. Places'
    BY <1>2, <1>3, <1>4, <1>9, <2>1
       DEF Places, PlaceOf, AtStart, AtArbitration, Gone, Running, BetweenRounds,
           Collecting, VerdictSteps
  <2>9. BallAwake'
    BY <2>1 DEF PhaseInv, BallAwake
  <2> QED BY <1>1, <1>8, <2>6, <2>7, <2>8, <2>9, PhaseInvParts DEF Turnstiles, PerColumn
<1>11. CASE Waiters("arbitration_done") # {}
  <2>1. PICK w \in Columns :
          /\ blocked[w] = "arbitration_done"
          /\ blocked' = [blocked EXCEPT ![w] = "none"]
          /\ Waiters("start_check")' = Waiters("start_check")
          /\ sem'["arbitration_done"] = 0 - Cardinality(Waiters("arbitration_done")')
    BY <1>3, <1>6, <1>11, TurnstilePosts DEF Semaphores
  <2>2. w # c /\ pc[w] = "arb_post"
    BY <1>2, <1>3, <1>4, <2>1 DEF Places, PlaceOf, AtStart, AtArbitration, Gone, Running
  <2>3. /\ pc'[w] = "arb_post" /\ blocked'[w] = "none" /\ blocked'[Ball] = blocked[Ball]
        /\ \A d \in Columns \ {w} : blocked'[d] = blocked[d]
    BY <1>2, <1>9, <2>1, <2>2, ThreadIds
  <2>4. /\ \A d \in Columns : Carries(d, "arb_post")' <=> d = w
        /\ \A d \in Columns : Carries(d, "start_post")' <=> Carries(d, "start_post")
    BY <1>3, <1>5, <1>9, <2>2, <2>3 DEF Carries
  <2>5. Carried("arb_post")' /\ (Carried("start_post")' <=> Carried("start_post"))
    BY <2>4 DEF Carried
  <2>6. Tokens'
    BY <1>2, <1>3, <1>4, <1>7, <2>1, <2>4, <2>5
       DEF Tokens, TokenOf, OneCarrier, StartOpen, ArbitrationOpen
  <2>7. NobodyForgotten'
    BY <1>3, <1>4, <2>5 DEF NobodyForgotten
  <2>8. Places'
    <3>1. PlaceOf(w)'
      BY <1>3, <1>4, <2>3 DEF PlaceOf, Running, BetweenRounds, Collecting, VerdictSteps
    <3>2. PlaceOf(c)'
      BY <1>3, <1>4, <1>9, <2>2, <2>3
         DEF PlaceOf, Running, BetweenRounds, Collecting, VerdictSteps
    <3>3. ASSUME NEW d \in Columns, d # c, d # w PROVE PlaceOf(d)'
      <4>1. PlaceOf(d) /\ pc'[d] = pc[d] /\ blocked'[d] = blocked[d] /\ bpc' = bpc
        BY <1>2, <1>3, <1>9, <2>3, <3>3 DEF Places
      <4> QED BY <4>1 DEF PlaceOf, AtStart, AtArbitration, Gone, Running
    <3> QED BY <3>1, <3>2, <3>3 DEF Places
  <2>9. BallAwake'
    BY <2>3 DEF PhaseInv, BallAwake
  <2> QED BY <1>1, <1>8, <2>6, <2>7, <2>8, <2>9, PhaseInvParts DEF Turnstiles, PerColumn
<1> QED BY <1>10, <1>11

LEMMA ColumnPhaseInv ==
  ASSUME PhaseInv, NEW c \in Columns, Column(c)
  PROVE  PhaseInv'
BY StartWaitStep, StartPostStep, CheckingStep, ReportStep, ArbWaitStep, ArbPostStep,
   VerdictStep DEF Column

-----------------------------------------------------------------------------
(* The steps of the ball thread.                                           *)

\* When the ball thread steps, all columns are on the same side of the round.
LEMMA BallAlone ==
  ASSUME PhaseInv, CanRun(Ball)
  PROVE  /\ ~Carried("start_post") /\ ~Carried("arb_post")
         /\ bpc \in {"announce", "boost"} \cup BetweenRounds =>
              /\ \A c \in Columns : AtStart(c) \/ Gone(c)
              /\ Waiters("arbitration_done") = {}
         /\ bpc \in {"own"} \cup Collecting =>
              /\ \A c \in Columns : AtArbitration(c) \/ Gone(c)
              /\ Waiters("start_check") = {}
<1>1. \A c \in Columns : AtStart(c) \/ AtArbitration(c) \/ Gone(c)
  BY QuietForBall
<1>2. ~Carried("start_post") /\ ~Carried("arb_post")
  BY <1>1 DEF Carried, Carries, AtStart, AtArbitration, Gone
<1>3. NobodyForgotten /\ Places
  BY DEF PhaseInv
<1>4. /\ Waiters("arbitration_done") \subseteq Columns
      /\ Waiters("start_check") \subseteq Columns
  BY WaitingColumns
<1>5. ASSUME bpc \in {"announce", "boost"} \cup BetweenRounds
      PROVE  /\ \A c \in Columns : AtStart(c) \/ Gone(c)
             /\ Waiters("arbitration_done") = {}
  <2>1. \A c \in Columns : AtArbitration(c) => c \in Waiters("arbitration_done")
    BY ThreadIds DEF AtArbitration, Waiters
  <2>2. bpc = "boost" => Waiters("arbitration_done") = {}
    BY <1>2, <1>3 DEF NobodyForgotten
  <2>3. bpc # "boost" => \A c \in Columns : ~AtArbitration(c)
    BY <1>3, <1>5 DEF Places, PlaceOf, BetweenRounds, AtStart, AtArbitration, Gone, Running
  <2>4. \A c \in Columns : AtStart(c) \/ Gone(c)
    BY <1>1, <2>1, <2>2, <2>3
  <2> QED BY <1>4, <2>4 DEF AtStart, Gone, Waiters
<1>6. ASSUME bpc \in {"own"} \cup Collecting
      PROVE  /\ \A c \in Columns : AtArbitration(c) \/ Gone(c)
             /\ Waiters("start_check") = {}
  <2>1. \A c \in Columns : AtStart(c) => c \in Waiters("start_check")
    BY ThreadIds DEF AtStart, Waiters
  <2>2. bpc = "own" => Waiters("start_check") = {}
    BY <1>2, <1>3 DEF NobodyForgotten
  <2>3. bpc # "own" => \A c \in Columns : ~AtStart(c)
    BY <1>3, <1>6 DEF Places, PlaceOf, Collecting, AtStart, AtArbitration, Gone
  <2>4. \A c \in Columns : AtArbitration(c) \/ Gone(c)
    BY <1>1, <2>1, <2>2, <2>3
  <2> QED BY <1>4, <2>4 DEF AtArbitration, Gone, Waiters
<1> QED BY <1>2, <1>5, <1>6

\* A step of the ball that wakes nobody moves on within one side of the round.
LEMMA BallMove ==
  ASSUME PhaseInv, CanRun(Ball), TypeInv', Reports',
         UNCHANGED <<pc, blocked, remaining_bricks, mtx_bricks>>,
         \/ /\ bpc \in {"announce", "boost"} \cup BetweenRounds
            /\ bpc' \in BetweenRounds
         \/ bpc \in {"own"} \cup Collecting /\ bpc' \in Collecting,
         sem'["start_check"] =
           (IF StartOpen' THEN 1 ELSE 0) - Cardinality(Waiters("start_check")),
         sem'["arbitration_done"] =
           (IF ArbitrationOpen' THEN 1 ELSE 0) - Cardinality(Waiters("arbitration_done"))
  PROVE  PhaseInv'
<1>1. \A s : Waiters(s)' = Waiters(s)
  BY DEF Waiters
<1>2. ~Carried("start_post")' /\ ~Carried("arb_post")'
  BY BallAlone DEF Carried, Carries
<1>3. Tokens'
  <2>1. OneCarrier("start_post")' /\ OneCarrier("arb_post")'
    BY <1>2 DEF OneCarrier, Carried
  <2> QED BY <1>1, <1>2, <2>1 DEF Tokens, TokenOf
<1>4. NobodyForgotten'
  BY DEF NobodyForgotten, BetweenRounds, Collecting
<1>5. Places'
  BY BallAlone DEF Places, PlaceOf, AtStart, AtArbitration, Gone, BetweenRounds, Collecting
<1>6. Leaving' /\ MutexHeld' /\ BallAwake'
  BY DEF PhaseInv, Leaving, MutexHeld, BallAwake
<1> QED BY <1>3, <1>4, <1>5, <1>6, PhaseInvParts DEF Turnstiles, PerColumn

\* What the ball thread finds in the turnstiles.
LEMMA BallFinds ==
  ASSUME PhaseInv, CanRun(Ball)
  PROVE  /\ sem["start_check"] =
              (IF StartOpen THEN 1 ELSE 0) - Cardinality(Waiters("start_check"))
         /\ sem["arbitration_done"] =
              (IF ArbitrationOpen THEN 1 ELSE 0) - Cardinality(Waiters("arbitration_done"))
         /\ StartOpen => Cardinality(Waiters("start_check")) = 0
         /\ ArbitrationOpen \/ bpc = "announce" =>
              Cardinality(Waiters("arbitration_done")) = 0
<1>1. Tokens
  BY DEF PhaseInv
<1>2. StartOpen => Waiters("start_check") = {}
  BY BallAlone DEF StartOpen, Collecting
<1>3. ArbitrationOpen \/ bpc = "announce" => Waiters("arbitration_done") = {}
  BY BallAlone DEF ArbitrationOpen, BetweenRounds
<1> QED BY <1>1, <1>2, <1>3, BallAlone, FS_EmptySet DEF Tokens, TokenOf

\* Steps that touch no semaphore.
LEMMA BallQuietStep ==
  ASSUME PhaseInv,
         \/ Snapshot \/ BeginRound \/ SkipRound \/ OwnCheck \/ SkipColumn
         \/ PickColumn \/ Boost \/ Prepare \/ Send
  PROVE  PhaseInv'
<1>1. TypeInv'
  BY BallTypeInv DEF PhaseInv, BallThread
<1>2. /\ CanRun(Ball)
      /\ UNCHANGED <<pc, blocked, sem, check_done, remaining_bricks, mtx_bricks>>
  BY DEF Snapshot, BeginRound, SkipRound, OwnCheck, SkipColumn, PickColumn, Boost,
         Prepare, Send, BallStep, sync, wall
<1>3. \/ /\ bpc \in BetweenRounds \cup {"boost"} /\ bpc' \in BetweenRounds
         /\ ~StartOpen /\ ~StartOpen' /\ ArbitrationOpen /\ ArbitrationOpen'
      \/ /\ bpc \in Collecting \cup {"own"} /\ bpc' \in Collecting
         /\ StartOpen /\ StartOpen' /\ ~ArbitrationOpen /\ ~ArbitrationOpen'
  BY DEF Snapshot, BeginRound, SkipRound, OwnCheck, SkipColumn, PickColumn, Boost,
         Prepare, Send, BallStep, BetweenRounds, Collecting, AfterColumn, StartOpen,
         ArbitrationOpen
<1>4. /\ Reports /\ Leaving /\ i \in Int
      /\ \A c \in Columns : c \in Int /\ c < NB_COLUMNS
  BY SizesAssumption DEF PhaseInv, TypeInv, TypeOK, Columns
<1>5. Reports'
  <2>1. CASE OwnCheck
    <3>1. /\ bpc = "own" /\ bpc' = "collect" /\ i' = 0
          /\ \A c \in Columns : c >= 0
      BY <2>1 DEF OwnCheck, BallStep, Columns
    <3> QED BY <1>2, <1>4, <3>1 DEF Reports, Pending
  <2>2. CASE SkipColumn
    <3>1. /\ bpc = "collect" /\ i' = i + 1 /\ remaining_bricks[i] = 0
          /\ bpc' \in {"collect", "close"}
          /\ bpc' = "close" => i' = NB_COLUMNS
      BY <2>2 DEF SkipColumn, BallStep, AfterColumn
    <3>2. i \in Columns /\ (AtArbitration(i) \/ Gone(i))
      BY <1>2, <3>1, BallAlone DEF PhaseInv, TypeInv, IndexInv, Collecting
    <3>3. pc[i] \notin {"arb_wait", "arb_post"}
      BY <1>4, <3>1, <3>2 DEF Leaving
    <3> QED BY <1>2, <1>4, <3>1, <3>2, <3>3, SizesAssumption DEF Reports, Pending
  <2>3. CASE PickColumn
    <3>1. /\ bpc = "pick" /\ i' = i + 1
          /\ bpc' \in {"collect", "close"}
          /\ bpc' = "close" => i' = NB_COLUMNS
      BY <2>3 DEF PickColumn, BallStep, AfterColumn
    <3> QED BY <1>2, <1>4, <3>1, SizesAssumption DEF Reports, Pending
  <2>4. CASE Snapshot \/ BeginRound \/ SkipRound \/ Boost \/ Prepare \/ Send
    <3>1. bpc \notin {"own", "collect", "pick"} /\ bpc' \notin {"own", "collect", "pick"}
      BY <2>4 DEF Snapshot, BeginRound, SkipRound, Boost, Prepare, Send, BallStep
    <3> QED BY <1>2, <1>4, <3>1 DEF Reports, Pending
  <2> QED BY <2>1, <2>2, <2>3, <2>4
<1>6. /\ sem'["start_check"] =
           (IF StartOpen' THEN 1 ELSE 0) - Cardinality(Waiters("start_check"))
      /\ sem'["arbitration_done"] =
           (IF ArbitrationOpen' THEN 1 ELSE 0) - Cardinality(Waiters("arbitration_done"))
  BY <1>2, <1>3, BallFinds
<1> QED BY <1>1, <1>2, <1>3, <1>5, <1>6, BallMove

\* The tokens the ball takes are there: it never blocks.
LEMMA BallTakesStep ==
  ASSUME PhaseInv, RetakeVerdict \/ CloseRound
  PROVE  PhaseInv'
<1>1. TypeInv'
  BY BallTypeInv DEF PhaseInv, BallThread
<1>2. /\ CanRun(Ball) /\ sem \in [Semaphores -> Int] /\ Reports
      /\ UNCHANGED <<pc, check_done, remaining_bricks, mtx_bricks>>
  BY DEF RetakeVerdict, CloseRound, BallStep, Wait, wall, PhaseInv, TypeInv, TypeOK
<1>3. CASE RetakeVerdict
  <2>1. bpc = "retake" /\ bpc' = "open" /\ Wait(Ball, "arbitration_done")
    BY <1>3 DEF RetakeVerdict, BallStep
  <2>2. sem["arbitration_done"] = 1 /\ Cardinality(Waiters("arbitration_done")) = 0
    BY <1>2, <2>1, BallFinds DEF ArbitrationOpen
  <2>3. /\ UNCHANGED blocked /\ sem'["arbitration_done"] = 0
        /\ sem'["start_check"] = sem["start_check"]
    BY <1>2, <2>1, <2>2 DEF Wait, Semaphores
  <2>4. Reports'
    BY <1>2, <2>1 DEF Reports, Pending
  <2>5. ~StartOpen /\ ~StartOpen' /\ ~ArbitrationOpen'
    BY <2>1 DEF StartOpen, ArbitrationOpen
  <2>6. bpc \in BetweenRounds /\ bpc' \in BetweenRounds
    BY <2>1 DEF BetweenRounds
  <2>7. /\ sem'["start_check"] =
             (IF StartOpen' THEN 1 ELSE 0) - Cardinality(Waiters("start_check"))
        /\ sem'["arbitration_done"] =
             (IF ArbitrationOpen' THEN 1 ELSE 0) - Cardinality(Waiters("arbitration_done"))
    BY <1>2, <2>2, <2>3, <2>5, BallFinds
  <2> QED BY <1>1, <1>2, <2>3, <2>4, <2>6, <2>7, BallMove
<1>4. CASE CloseRound
  <2>1. bpc = "close" /\ bpc' = "confirm" /\ Wait(Ball, "start_check")
    BY <1>4 DEF CloseRound, BallStep
  <2>2. sem["start_check"] = 1 /\ Cardinality(Waiters("start_check")) = 0
    BY <1>2, <2>1, BallFinds DEF StartOpen
  <2>3. /\ UNCHANGED blocked /\ sem'["start_check"] = 0
        /\ sem'["arbitration_done"] = sem["arbitration_done"]
    BY <1>2, <2>1, <2>2 DEF Wait, Semaphores
  <2>4. Reports'
    BY <1>2, <2>1 DEF Reports, Pending
  <2>5. ~ArbitrationOpen /\ ~StartOpen' /\ ~ArbitrationOpen'
    BY <2>1 DEF StartOpen, ArbitrationOpen
  <2>6. bpc \in Collecting /\ bpc' \in Collecting
    BY <2>1 DEF Collecting
  <2>7. /\ sem'["start_check"] =
             (IF StartOpen' THEN 1 ELSE 0) - Cardinality(Waiters("start_check"))
        /\ sem'["arbitration_done"] =
             (IF ArbitrationOpen' THEN 1 ELSE 0) - Cardinality(Waiters("arbitration_done"))
    BY <1>2, <2>2, <2>3, <2>5, BallFinds
  <2> QED BY <1>1, <1>2, <2>3, <2>4, <2>6, <2>7, BallMove
<1> QED BY <1>3, <1>4

\* Collecting a report that is there.
LEMMA AwaitColumnStep ==
  ASSUME PhaseInv, AwaitColumn
  PROVE  PhaseInv'
<1>1. TypeInv'
  BY BallTypeInv DEF PhaseInv, BallThread
<1>2. /\ CanRun(Ball) /\ bpc = "collect" /\ bpc' = "pick" /\ WaitCheckDone(i)
      /\ remaining_bricks[i] # 0
      /\ UNCHANGED <<pc, i, sem, remaining_bricks, mtx_bricks>>
  BY DEF AwaitColumn, BallStep, WaitCheckDone, wall, roundVars
<1>3. /\ Reports /\ Leaving /\ i \in Columns /\ check_done \in [Columns -> Int]
      /\ \A c \in Columns : c \in Int
  BY <1>2 DEF PhaseInv, TypeInv, TypeOK, IndexInv, Columns
<1>4. AtArbitration(i)
  BY <1>2, <1>3, BallAlone DEF Collecting, Leaving, Gone
<1>5. check_done[i] = 1
  BY <1>2, <1>3, <1>4 DEF Reports, Pending, AtArbitration
<1>6. UNCHANGED blocked /\ check_done' = [check_done EXCEPT ![i] = 0]
  BY <1>2, <1>5 DEF WaitCheckDone
<1>7. Reports'
  <2>1. check_done'[i] = 0 /\ \A c \in Columns \ {i} : check_done'[c] = check_done[c]
    BY <1>3, <1>6
  <2>2. \A c \in Columns : c = i => ~Pending(c)'
    BY <1>2, <1>3 DEF Pending
  <2>3. \A c \in Columns \ {i} : Pending(c)' <=> Pending(c)
    BY <1>2, <1>3 DEF Pending
  <2> QED BY <1>3, <2>1, <2>2, <2>3 DEF Reports
<1>8. /\ StartOpen /\ StartOpen' /\ ~ArbitrationOpen /\ ~ArbitrationOpen'
      /\ bpc \in Collecting /\ bpc' \in Collecting
  BY <1>2 DEF StartOpen, ArbitrationOpen, Collecting
<1>9. /\ sem'["start_check"] =
           (IF StartOpen' THEN 1 ELSE 0) - Cardinality(Waiters("start_check"))
      /\ sem'["arbitration_done"] =
           (IF ArbitrationOpen' THEN 1 ELSE 0) - Cardinality(Waiters("arbitration_done"))
  BY <1>2, <1>8, BallFinds
<1> QED BY <1>1, <1>2, <1>6, <1>7, <1>8, <1>9, BallMove

\* The verdict of the round that never was: nobody waits for it yet.
LEMMA AnnounceStep ==
  ASSUME PhaseInv, Announce
  PROVE  PhaseInv'
<1>1. TypeInv'
  BY BallTypeInv DEF PhaseInv, BallThread
<1>2. /\ CanRun(Ball) /\ bpc = "announce" /\ bpc' = "snapshot"
      /\ Post("arbitration_done") /\ Reports
      /\ UNCHANGED <<pc, check_done, remaining_bricks, mtx_bricks>>
  BY DEF Announce, BallStep, Post, wall, PhaseInv
<1>3. /\ Waiters("arbitration_done") = {} /\ Cardinality(Waiters("arbitration_done")) = 0
      /\ sem["arbitration_done"] = 0
      /\ sem["start_check"] = 0 - Cardinality(Waiters("start_check"))
  BY <1>2, BallAlone, BallFinds DEF StartOpen, ArbitrationOpen
<1>4. /\ UNCHANGED blocked /\ sem'["arbitration_done"] = 1
      /\ sem'["start_check"] = sem["start_check"]
  BY <1>2, <1>3, TurnstilePosts DEF Semaphores
<1>5. Reports'
  BY <1>2 DEF Reports, Pending
<1>6. ~StartOpen' /\ ArbitrationOpen' /\ bpc' \in BetweenRounds
  BY <1>2 DEF StartOpen, ArbitrationOpen, BetweenRounds
<1>7. /\ sem'["start_check"] =
           (IF StartOpen' THEN 1 ELSE 0) - Cardinality(Waiters("start_check"))
      /\ sem'["arbitration_done"] =
           (IF ArbitrationOpen' THEN 1 ELSE 0) - Cardinality(Waiters("arbitration_done"))
  BY <1>3, <1>4, <1>6
<1> QED BY <1>1, <1>2, <1>4, <1>5, <1>6, <1>7, BallMove

\* Opening the round lets one waiting column in, which becomes the carrier.
LEMMA OpenRoundStep ==
  ASSUME PhaseInv, OpenRound
  PROVE  PhaseInv'
<1>1. TypeInv'
  BY BallTypeInv DEF PhaseInv, BallThread
<1>2. /\ CanRun(Ball) /\ bpc = "open" /\ bpc' = "own" /\ Post("start_check")
      /\ UNCHANGED <<pc, check_done, remaining_bricks, mtx_bricks>>
  BY DEF OpenRound, BallStep, Post, wall
<1>3. /\ pc \in [Columns -> ColumnSteps]
      /\ blocked \in [Threads -> {"none", "start_check", "arbitration_done", "check_done"}]
      /\ Reports /\ Leaving /\ MutexHeld /\ BallAwake
  BY DEF PhaseInv, TypeInv, TypeOK
<1>4. /\ \A c \in Columns : AtStart(c) \/ Gone(c)
      /\ Waiters("arbitration_done") = {}
      /\ ~Carried("start_post") /\ ~Carried("arb_post")
  BY <1>2, BallAlone DEF BetweenRounds, Collecting
<1>5. /\ sem["start_check"] = 0 - Cardinality(Waiters("start_check"))
      /\ sem["arbitration_done"] = 0 /\ Cardinality(Waiters("arbitration_done")) = 0
  BY <1>2, <1>4, BallFinds, WaitingColumns, FS_EmptySet DEF StartOpen, ArbitrationOpen
<1>6. sem'["arbitration_done"] = sem["arbitration_done"]
  BY <1>2, <1>5, TurnstilePosts DEF Semaphores
<1>7. Reports' /\ Leaving' /\ MutexHeld'
  BY <1>2, <1>3, <1>4 DEF Reports, Pending, Leaving, MutexHeld, AtStart, Gone
<1>8. \A c \in Columns, step \in {"start_post", "arb_post"} : ~Carries(c, step)
  BY <1>4 DEF Carried
<1>9. CASE Waiters("start_check") = {}
  <2>1. UNCHANGED blocked /\ sem'["start_check"] = 1
    BY <1>2, <1>5, <1>9, TurnstilePosts
  <2>2. \A s : Waiters(s)' = Waiters(s)
    BY <2>1 DEF Waiters
  <2>3. /\ ~Carried("start_post")' /\ ~Carried("arb_post")'
        /\ OneCarrier("start_post")' /\ OneCarrier("arb_post")'
    BY <1>2, <1>8, <2>1 DEF Carried, Carries, OneCarrier
  <2>4. Cardinality(Waiters("start_check")') = 0 /\ Cardinality(Waiters("arbitration_done")') = 0
    BY <1>4, <1>9, <2>2, FS_EmptySet
  <2>5. Tokens'
    BY <1>2, <1>5, <1>6, <2>1, <2>3, <2>4 DEF Tokens, TokenOf, StartOpen, ArbitrationOpen
  <2>6. NobodyForgotten'
    BY <1>2, <1>9, <2>2 DEF NobodyForgotten
  <2>7. Places'
    BY <1>2, <1>4, <2>1
       DEF Places, PlaceOf, AtStart, Gone, BetweenRounds, Collecting
  <2>8. BallAwake'
    BY <1>3, <2>1 DEF BallAwake
  <2> QED BY <1>1, <1>7, <2>5, <2>6, <2>7, <2>8, PhaseInvParts DEF Turnstiles, PerColumn
<1>10. CASE Waiters("start_check") # {}
  <2>1. PICK w \in Columns :
          /\ blocked[w] = "start_check"
          /\ blocked' = [blocked EXCEPT ![w] = "none"]
          /\ Waiters("arbitration_done")' = Waiters("arbitration_done")
          /\ sem'["start_check"] = 0 - Cardinality(Waiters("start_check")')
    BY <1>2, <1>5, <1>10, TurnstilePosts DEF Semaphores
  <2>2. pc[w] = "start_post"
    BY <1>4, <2>1 DEF AtStart, Gone
  <2>3. /\ blocked'[w] = "none" /\ blocked'[Ball] = blocked[Ball] /\ UNCHANGED pc
        /\ \A d \in Columns \ {w} : blocked'[d] = blocked[d]
    BY <1>2, <1>3, <2>1, ThreadIds
  <2>4. /\ \A d \in Columns : Carries(d, "start_post")' <=> d = w
        /\ \A d \in Columns : ~Carries(d, "arb_post")'
    BY <1>8, <2>2, <2>3 DEF Carries
  <2>5. Carried("start_post")' /\ ~Carried("arb_post")'
    BY <2>4 DEF Carried
  <2>6. Tokens'
    BY <1>2, <1>4, <1>5, <1>6, <2>1, <2>4, <2>5
       DEF Tokens, TokenOf, OneCarrier, StartOpen, ArbitrationOpen
  <2>7. NobodyForgotten'
    BY <1>2, <2>5 DEF NobodyForgotten
  <2>8. Places'
    <3>1. PlaceOf(w)'
      BY <1>2, <2>2, <2>3
         DEF PlaceOf, Running, BetweenRounds, Collecting, CheckSteps, VerdictSteps
    <3>2. ASSUME NEW d \in Columns, d # w PROVE PlaceOf(d)'
      BY <1>2, <1>4, <2>3, <3>2 DEF PlaceOf, AtStart, Gone, BetweenRounds, Collecting
    <3> QED BY <3>1, <3>2 DEF Places
  <2>9. BallAwake'
    BY <1>3, <2>3 DEF BallAwake
  <2> QED BY <1>1, <1>7, <2>6, <2>7, <2>8, <2>9, PhaseInvParts DEF Turnstiles, PerColumn
<1> QED BY <1>9, <1>10

\* The same for the verdict.
LEMMA ConfirmStep ==
  ASSUME PhaseInv, Confirm
  PROVE  PhaseInv'
<1>1. TypeInv'
  BY BallTypeInv DEF PhaseInv, BallThread
<1>2. /\ CanRun(Ball) /\ bpc = "confirm" /\ bpc' = "boost" /\ Post("arbitration_done")
      /\ UNCHANGED <<pc, check_done, remaining_bricks, mtx_bricks>>
  BY DEF Confirm, BallStep, Post, wall
<1>3. /\ pc \in [Columns -> ColumnSteps]
      /\ blocked \in [Threads -> {"none", "start_check", "arbitration_done", "check_done"}]
      /\ Reports /\ Leaving /\ MutexHeld /\ BallAwake
  BY DEF PhaseInv, TypeInv, TypeOK
<1>4. /\ \A c \in Columns : AtArbitration(c) \/ Gone(c)
      /\ Waiters("start_check") = {}
      /\ ~Carried("start_post") /\ ~Carried("arb_post")
  BY <1>2, BallAlone DEF BetweenRounds, Collecting
<1>5. /\ sem["arbitration_done"] = 0 - Cardinality(Waiters("arbitration_done"))
      /\ sem["start_check"] = 0 /\ Cardinality(Waiters("start_check")) = 0
  BY <1>2, <1>4, BallFinds, WaitingColumns, FS_EmptySet DEF StartOpen, ArbitrationOpen
<1>6. sem'["start_check"] = sem["start_check"]
  BY <1>2, <1>5, TurnstilePosts DEF Semaphores
<1>7. Reports' /\ Leaving' /\ MutexHeld'
  BY <1>2, <1>3, <1>4 DEF Reports, Pending, Leaving, MutexHeld, AtArbitration, Gone
<1>8. \A c \in Columns, step \in {"start_post", "arb_post"} : ~Carries(c, step)
  BY <1>4 DEF Carried
<1>9. CASE Waiters("arbitration_done") = {}
  <2>1. UNCHANGED blocked /\ sem'["arbitration_done"] = 1
    BY <1>2, <1>5, <1>9, TurnstilePosts
  <2>2. \A s : Waiters(s)' = Waiters(s)
    BY <2>1 DEF Waiters
  <2>3. /\ ~Carried("start_post")' /\ ~Carried("arb_post")'
        /\ OneCarrier("start_post")' /\ OneCarrier("arb_post")'
    BY <1>2, <1>8, <2>1 DEF Carried, Carries, OneCarrier
  <2>4. Cardinality(Waiters("arbitration_done")') = 0 /\ Cardinality(Waiters("start_check")') = 0
    BY <1>4, <1>9, <2>2, FS_EmptySet
  <2>5. Tokens'
    BY <1>2, <1>5, <1>6, <2>1, <2>3, <2>4 DEF Tokens, TokenOf, StartOpen, ArbitrationOpen
  <2>6. NobodyForgotten'
    BY <1>2, <1>9, <2>2 DEF NobodyForgotten
  <2>7. Places'
    BY <1>2, <1>4, <2>1
       DEF Places, PlaceOf, AtArbitration, Gone, BetweenRounds, Collecting
  <2>8. BallAwake'
    BY <1>3, <2>1 DEF BallAwake
  <2> QED BY <1>1, <1>7, <2>5, <2>6, <2>7, <2>8, PhaseInvParts DEF Turnstiles, PerColumn
<1>10. CASE Waiters("arbitration_done") # {}
  <2>1. PICK w \in Columns :
          /\ blocked[w] = "arbitration_done"
          /\ blocked' = [blocked EXCEPT ![w] = "none"]
          /\ Waiters("start_check")' = Waiters("start_check")
          /\ sem'["arbitration_done"] = 0 - Cardinality(Waiters("arbitration_done")')
    BY <1>2, <1>5, <1>10, TurnstilePosts DEF Semaphores
  <2>2. pc[w] = "arb_post"
    BY <1>4, <2>1 DEF AtArbitration, Gone
  <2>3. /\ blocked'[w] = "none" /\ blocked'[Ball] = blocked[Ball] /\ UNCHANGED pc
        /\ \A d \in Columns \ {w} : blocked'[d] = blocked[d]
    BY <1>2, <1>3, <2>1, ThreadIds
  <2>4. /\ \A d \in Columns : Carries(d, "arb_post")' <=> d = w
        /\ \A d \in Columns : ~Carries(d, "start_post")'
    BY <1>8, <2>2, <2>3 DEF Carries
  <2>5. Carried("arb_post")' /\ ~Carried("start_post")'
    BY <2>4 DEF Carried
  <2>6. Tokens'
    BY <1>2, <1>4, <1>5, <1>6, <2>1, <2>4, <2>5
       DEF Tokens, TokenOf, OneCarrier, StartOpen, ArbitrationOpen
  <2>7. NobodyForgotten'
    BY <1>2, <2>5 DEF NobodyForgotten
  <2>8. Places'
    <3>1. PlaceOf(w)'
      BY <1>2, <2>2, <2>3
         DEF PlaceOf, Running, BetweenRounds, Collecting, CheckSteps, VerdictSteps
    <3>2. ASSUME NEW d \in Columns, d # w PROVE PlaceOf(d)'
      BY <1>2, <1>4, <2>3, <3>2 DEF PlaceOf, AtArbitration, Gone, BetweenRounds, Collecting
    <3> QED BY <3>1, <3>2 DEF Places
  <2>9. BallAwake'
    BY <1>3, <2>3 DEF BallAwake
  <2> QED BY <1>1, <1>7, <2>6, <2>7, <2>8, <2>9, PhaseInvParts DEF Turnstiles, PerColumn
<1> QED BY <1>9, <1>10

LEMMA BallPhaseInv ==
  ASSUME PhaseInv, BallThread
  PROVE  PhaseInv'
BY AnnounceStep, BallQuietStep, BallTakesStep, AwaitColumnStep, OpenRoundStep,
   ConfirmStep DEF BallThread

-----------------------------------------------------------------------------
(* The theorems.                                                           *)

LEMMA InitPhaseInv == Init => PhaseInv
<1> SUFFICES ASSUME Init PROVE PhaseInv
  OBVIOUS
<1> USE DEF Init
<1>1. TypeInv
  BY InitTypeInv
<1>2. \A s \in {"start_check", "arbitration_done"} :
        Waiters(s) = {} /\ Cardinality(Waiters(s)) = 0 /\ sem[s] = 0
  BY FS_EmptySet DEF Waiters, Semaphores
<1>3. \A c \in Columns, step \in {"start_post", "arb_post"} : ~Carries(c, step)
  BY DEF Carries
<1>4. Tokens
  BY <1>2, <1>3 DEF Tokens, TokenOf, OneCarrier, StartOpen, ArbitrationOpen
<1>5. NobodyForgotten
  BY DEF NobodyForgotten
<1>6. Places
  BY ThreadIds DEF Places, PlaceOf, Running, BetweenRounds, Collecting
<1>7. Reports /\ BallAwake
  BY ThreadIds DEF Reports, Pending, BallAwake
<1>8. Leaving /\ MutexHeld
  BY ThreadIds, SizesAssumption DEF Leaving, MutexHeld
<1> QED BY <1>1, <1>4, <1>5, <1>6, <1>7, <1>8 DEF PhaseInv

LEMMA NextPhaseInv == PhaseInv /\ [Next]_vars => PhaseInv'
<1> SUFFICES ASSUME PhaseInv, [Next]_vars PROVE PhaseInv'
  OBVIOUS
<1>1. CASE \E c \in Columns : Column(c)
  BY <1>1, ColumnPhaseInv
<1>2. CASE BallThread
  BY <1>2, BallPhaseInv
<1>3. CASE CenterPress \/ UNCHANGED vars
  <2>1. TypeInv'
    BY NextTypeInv DEF PhaseInv
  <2>2. UNCHANGED <<pc, bpc, sem, check_done, blocked, mtx_bricks, remaining_bricks, i>>
    BY <1>3 DEF CenterPress, vars, sync, wall, roundVars
  <2>3. \A s : Waiters(s)' = Waiters(s)
    BY <2>2 DEF Waiters
  <2>4. /\ \A step : Carried(step)' <=> Carried(step)
        /\ \A step : OneCarrier(step)' <=> OneCarrier(step)
    BY <2>2 DEF Carried, OneCarrier, Carries
  <2>5. Tokens' /\ NobodyForgotten'
    BY <2>2, <2>3, <2>4 DEF PhaseInv, Tokens, TokenOf, StartOpen, ArbitrationOpen,
                            NobodyForgotten
  <2>6. Places'
    BY <2>2 DEF PhaseInv, Places, PlaceOf, AtStart, AtArbitration, Gone, Running
  <2>7. Reports' /\ Leaving' /\ MutexHeld' /\ BallAwake'
    BY <2>2 DEF PhaseInv, Reports, Pending, Leaving, MutexHeld, BallAwake
  <2> QED BY <2>1, <2>5, <2>6, <2>7 DEF PhaseInv
<1> QED BY <1>1, <1>2, <1>3 DEF Next

LEMMA PhaseInvariance == Spec => []PhaseInv
BY InitPhaseInv, NextPhaseInv, PTL DEF Spec

\* For any number of columns, no column looks for collisions while another acts
\* on a verdict: the turnstiles of main_model.c:210-211 and 301-302 separate
\* the phases although they keep no count.
THEOREM PhasesStayApart == Spec => []PhasesDoNotMix
<1>1. PhaseInv => PhasesDoNotMix
  <2> SUFFICES ASSUME PhaseInv, NEW c \in Columns, NEW d \in Columns,
                      Checking(c), Acting(d)
               PROVE  FALSE
    BY DEF PhasesDoNotMix
  <2>1. PlaceOf(c) /\ PlaceOf(d) /\ bpc \in BallSteps
    BY DEF PhaseInv, Places, TypeInv, TypeOK
  <2>2. bpc = "own"
    BY <2>1 DEF Checking, PlaceOf, AtStart, AtArbitration, Gone, Running, BallSteps,
                BetweenRounds, Collecting, VerdictSteps
  <2> QED BY <2>1, <2>2 DEF Acting, PlaceOf, AtStart, AtArbitration, Gone, Running,
                            CheckSteps
<1> QED BY <1>1, PhaseInvariance, PTL

\* For any number of columns, the threads of main_model.c never all wait on one
\* another, whatever columns have already exited.
THEOREM NoDeadlock == Spec => []SomeThreadReady
<1>1. PhaseInv => SomeThreadReady
  <2> SUFFICES ASSUME PhaseInv PROVE \E t \in Threads : Ready(t)
    BY DEF SomeThreadReady
  <2>1. CASE mtx_bricks = Nobody
    BY <2>1, ThreadIds DEF PhaseInv, BallAwake, Ready
  <2>2. CASE mtx_bricks # Nobody
    <3>1. mtx_bricks \in Columns /\ pc[mtx_bricks] \in {"break", "unlock"}
      BY <2>2 DEF PhaseInv, TypeInv, TypeOK, MutexHeld
    <3>2. PlaceOf(mtx_bricks) /\ bpc \in BallSteps
      BY <3>1 DEF PhaseInv, Places, TypeInv, TypeOK
    <3>3. blocked[mtx_bricks] = "none"
      BY <3>1, <3>2 DEF PlaceOf, AtStart, AtArbitration, Gone, Running, BallSteps,
                        BetweenRounds, Collecting, CheckSteps
    <3> QED BY <3>1, <3>3, ThreadIds DEF Ready, WantsMutex
  <2> QED BY <2>1, <2>2
<1> QED BY <1>1, PhaseInvariance, PTL

=============================================================================
