# Embedded Bricks-Breaker: a TLA+ verification project

A brick breaker on a Xilinx Zynq with two MicroBlaze processors, each running
Xilkernel. One processor (uB1) is the *model*: buttons, bar, ball, bricks,
score. The other (uB0) is the *display*: two frame buffers of a TFT. They share a
hardware mailbox and a hardware mutex.

In this file `M` is `src/src/uB1_model/src/main_model.c`; a bare number is a line of
it. Kernel files are under
`src/src/xilkernel_bsp_uB1/microblaze_1/libsrc/xilkernel_v6_3/src/src/`. `D` is
`src/src/uB0_display/src/main_display.c`, `T` is `src/src/uB1_model/src/timer.c`.

## 1. Inventory

| Component | State | Operations | Talks to |
|---|---|---|---|
| **Round**: `thread_ball` (priority 3) and one `thread_column` per column (priority 2), M 193-535 | `game_state`, `bricks`, `score`, `remaining_bricks`, `tot_remaining_bricks`, `next_colli`, `column_colli`, `ball`; semaphores `sem_start_check`, `sem_arbitration_done`, `sem_check_done[]`, `golden_brick`, `golden_release`; mutex `mtx_bricks` | snapshot, open a round, check, arbitrate, break, turn golden / normal, move, send | all through semaphores and shared memory; the mailbox |
| **Buttons** (priority 1): `pb_ISR`, `thread_buttons`, M 73-186 | `sem_debounce`, previous pins, `bar.speed`, `bar.jump`, `bar.last_change`, `game_state`, `ball.angle` | debounce, start, pause, resume, move or jump the bar | ISR posts, timer posts, `bar.mtx` shared with the ball thread |
| **Soft timer** (priority 1): `timer.c` | `state`, `start_time`, `trigger` | start, stop, expire with callback | buttons |
| **Bar and ball physics**, M 440-506 | `bar.pos`, `ball.{x,y,vel,angle,c,s}` | clamp, jump, bounce, push-out | part of `thread_ball` |
| **Mailbox**, `xmbox.c` | FIFO of words | blocking write, blocking read | model to display |
| **Display**, `main_display.c`, `display.c`, `graphic_primitives.c` | `data`, `data_prev[NB_FRAMES]`, frame counter | receive, erase, draw, switch frame at vsync | mailbox |
| **Hardware mutex**, `xmutex.c`, `safe_printf` | owner register | lock (spin), unlock | both processors |
| **Xilkernel**: `sched.c`, `queue.c`, `process.c`, `semaphore.c`, `mutex.c`, `timer.c` | process table, ready and wait queues | block, unblock, schedule, post, wait, trywait, lock, unlock, sleep | every thread |
| Start-up: `main_prog` of both processors | | create semaphores, mutexes and threads | |
| Vendor drivers, standalone BSP, `ps7_init`, block design | registers | | |

What makes each component correct:

- *Round*: the phases of a round never mix although the turnstiles keep no count; the
  brick that breaks is the one the soonest collision hit; nobody waits for a column that
  has exited; the golden resource is conserved; the books (score, remaining bricks) match
  the wall; the message is a wall between rounds; a game that ended stays ended; a round
  that opens ends.
- *Buttons and timer*: the interrupt is never left disabled; no change of a pin is missed; a bar
  button that is held moves the bar; the two threads come to rest; a press jumps or slides.
- *Physics*: the ball stays in the zone and out of the bricks, and does not get into the bar; the bar is not moved through the ball;
  speed and angle within their limits; the rough checks hide no collision.
- *Mailbox*: whole messages, in order, although the FIFO is shorter than a message.
- *Display*: what a frame buffer shows when it becomes visible is the message last received;
  the end of the game gets to the monitor.
- *Hardware mutex*: one printer at a time (which does not hold among threads of one processor, finding 6); no lock is orphaned.
- *Kernel*: the most urgent ready thread runs; a token goes to the most urgent waiter and
  to nobody else; no waiter is forgotten.

What is hard: eleven threads of two priorities under pre-emption, with a third priority
on top; semaphores used as reusable barriers; shared data read outside its mutex; a
resource taken at random; threads that end one by one while the others go on counting on
them; an interrupt, a debouncer and a timer that disable and enable the same interrupt; two
processors that poll each other's progress and can be reset one at a time; a video controller that
reads a register while it is written. The hazards, each at its line, are listed in `PROJECT.json`.

## 2. What is modelled

| Module | What it is |
|---|---|
| `GameRound` | the round: both kinds of threads, the centre button, and as much of the kernel as decides who runs |
| `GameRoundProperties` | what the round must satisfy |
| `MCGameRound`, `RoundsLive.cfg` | the instance for liveness |
| `MCLaunchRace`, `LaunchRace.cfg` | the launch of the ball (finding 1) |
| `GoldenHistory`, `GoldenHistory.cfg` | the round with a history variable (finding 2) |
| `Breakout` | the abstract game: a wall, a score, golden columns, one picture after another; no threads |
| `Messages` | what two messages in turn may say: the interface between the round and the display |
| `GameRoundRefinement` | the refinement mapping from the rounds to `Breakout` |
| `GameRoundMessages`, `Rounds.cfg` | the messages of the rounds against `Messages`, with a history variable; the instance for everything but liveness |
| `GameRoundProofs` | theorems: types, the golden resource, its labels |
| `GameRoundPhasesProofs` | theorems: the phases do not mix, no deadlock |
| `GameRoundBooksProofs` | theorems: what breaks, who wins the arbitration, the counters, the speed, the message |
| `GameRoundEndProofs` | theorems: the end of the game, the refinement of `Breakout`, two messages in turn |
| `Buttons`, `Buttons.cfg`, `LongPress.cfg` | interrupt handler, debouncer, software timer |
| `ButtonsProofs` | theorems about them |
| `BarBall`, `BarBall.cfg` | where ball, bar and bricks are, with the program's numbers |
| `BarBallProofs` | theorems about them, for any numbers |
| `Mailbox`, `Channel` | the FIFO of words and its two loops; the channel of messages they implement |
| `Display` | frame buffers, display thread and video controller |
| `System`, `System.cfg`, `Flicker.cfg` | both processors at their mailbox: `Messages`, `Mailbox` and `Display` composed |
| `SystemReset`, `SystemReset.cfg` | the same with resets of one processor |
| `SystemProofs` | theorems: the frame buffers, the pictures, the refinement of `Channel`, types |
| `HwMutex`, `Printing.cfg`, `ThreadSafe.cfg` | `safe_printf` under the hardware mutex |
| `HwMutexProofs` | theorems about it |

`GameRoundProofs`, `GameRoundPhasesProofs`, `GameRoundBooksProofs` and `GameRoundEndProofs`
extend one another in this order.

How the modules fit together: `GameRound` has the threads of the round and their messages;
`BarBall` has the geometry that `GameRound` leaves as a choice; `Buttons` has what moves the bar and
changes the state of the game, which both others leave as a choice. `System` takes from `GameRound` only
what `Messages` says of two messages in turn, which the run `rounds` checks of the rounds, and sends
them through `Mailbox` to `Display`.

### State and steps of `GameRound`

The variables have the names of the code's. `pc[c]` and `bpc` are the program counters of
column `c` and of the ball thread. A step runs from one kernel call or one access to
shared data to the next, and is named after what the code does there:

| Step of a column | M | Step of the ball | M |
|---|---|---|---|
| `StartWait`, `StartPost` (first turnstile) | 210, 211 | `Announce` | 338 |
| `GoldenRelease`, `GoldenGiveBack`, `GoldenTake`, `GoldenKeep`, `Relabel` | 214-231 | `Snapshot` | 343-348 |
| `CheckMiss`, `CheckHit` | 234-297 | `BeginRound`, `SkipRound` | 350-356 |
| `Report` | 298 | `RetakeVerdict`, `OpenRound` | 359, 360 |
| `ArbWait`, `ArbPost` (second turnstile) | 301, 302 | `OwnCheck` | 362-416 |
| `Verdict` | 304 | `SkipColumn`, `AwaitColumn`, `PickColumn` | 419-432 |
| `LockBricks`, `Break`, `UnlockBricks` | 307-325 | `CloseRound`, `Confirm` | 434, 437 |
| `Surrender` | 320-322 | `Boost`, `Prepare`, `Send` | 438-533 |

`CenterPress` is the centre button in `thread_buttons`. It may happen between any two
steps, because priority 1 pre-empts everything else; its test and its assignment are one
step, because nothing pre-empts it.

**The scheduler.** `CanRun(t)`: `t` is ready and no ready thread is more urgent
(`sched_prio`). Threads of equal priority interleave in any order, which covers the
rotation on the tick. `Wait` and `Post` are `sys_sem_wait_x` and `sys_sem_post`: the count
goes below zero by the number of waiters, and a post hands its token to one of the most
urgent waiters. A blocked `mtx_bricks` is a thread that is not ready, since the kernel's lock
tests the flag again after every wake-up (`mutex.c` 208).

**Abstractions.** Coordinates, speeds and angles are not in the state. `OpenRound` chooses
whether the trajectory leads to the bricks or to the bar: the bricks end at y = 167, the
bar's top is at 345, and one round travels at most 40. `CheckHit` may find a collision of
any standing brick at any of `MAX_ITER` positions. `moving` says that `ball.c` and `ball.s`
were computed at least once; before that they are 0 and the ball hits nothing. `rand()%2` is a choice. The ten points
per speed raise, a literal at line 442, are the constant `SCORE_VEL_STEP`; `boosts`
counts the raises, whose cap at `BALL_MAX_VEL` is left out. Time (frame delay, elapsed time) is left out.

### Initial states

`main_prog` runs at priority 0 and creates every thread before it returns, so no thread
steps before everything is initialised. `model_state` is a local of `thread_ball` that is
read (353) before it is first written completely (514): its `game_state` starts with any value.

### State and steps of `Buttons`

One step is one access to what the threads share. `isr` is the place in `pb_ISR` (M 77, 78-87: clear the
status, then read the pins), `bpc` in `thread_buttons` (119 `Wait`, 120 `Check`, 123 `Sample`, 131-173
`HandleCenter`, `HandleRelease`, `HandlePress`, 167 `Slide`, 172 `Start`, 184 `Enable`), `tpc` in `loop` (T 59 `Switch`, 61 `Trigger`,
62-63 `Begin`, 65 `Test`, 66 `Expire`, M 189 and 190 the two steps of `Callback`). The handler pre-empts both threads;
they have equal priority and interleave; a tick, and the ball thread, come only when both wait (`Idle`).
Reading `timer_bar->state` at 166 and acting on it at 167-172 are different steps; so are T 65 and 66.

*Abstractions.* Time is a count of ticks (10 ms), saturated where it no longer matters: `since_change` at the
threshold, `elapsed` just past it. The ball thread is reduced to what it does to `game_state` and `bar` (346-347, 350, 392, 448-505);
whether the wall is empty after a round is a choice (`Win`, `PlayOn`).
`bar.mtx` is not a variable: the ball thread runs only when the threads that could contend for it wait, and it does not
block while it holds it. The random launch angle and `srand` are left out.

### State and steps of `BarBall`

A step is a round (338-506), for the threads of a round do not interfere (`GameRound`: `RoundBreaksTheHitBrick`,
`SoonestWins`). `Ahead(k)` is the position k pixels on (371-372, 251-252); `OwnCollision` is 362-416, `ColumnCollision` 233-297, `Arbitrate`
419-432, `BallAfter` 440-492, `BarMoved` 448-504. The bar moves as the buttons may want it in any round: not at all, a jump,
a slide, either way (`Moves`).

*Abstractions.* Speeds are in pixels per round. `sin` and `cos` are thousandths; `round` is exact on them, and may differ from the
double's rounding where a product ends in one half (multiples of 30 degrees). Scores are left out: a round that
breaks a brick may raise the speed.

### State and steps of `Mailbox`, `Display`, `System`

`Mailbox` reads and writes one word a step; poll and access are one step, because a FIFO with one writer and one reader
cannot become full or empty for the one who polls. A message of `System` is a sequence of words like the code's: the
state, one position that stands for the three coordinates, one word per brick. `Display` has one step each for clearing (D 68-81),
erasing (89-93), drawing (96-114), the poll that succeeds (117), and setting the address (120-124), between which the controller
may finish a picture (`Vsync`) and load its address register (`LoadAddress`), as the driver's comment describes it
(`xtft.c` 1007-1009). The pixels of a buffer are the colours of the bricks, the places where a bar and a ball are
painted, and the texts of the message box. `data` and `data_prev` start as zeros: they are on a thread's stack, which Xilkernel has in
`.bss`. The buffers start with what an earlier program left.

`SystemReset` adds the reset of a processor: its variables start anew, FIFO and video registers stay;
`XMbox_CfgInitialize` does not flush (`xmbox.c` 104-121).

### State and steps of `HwMutex`

`reg` is the register: owner and lock bit. A write by a processor has no effect while the other one holds the lock (`WriteReg`, the
hardware). `Lock` and `Verify` are the write and the read of `XMutex_Lock`, `UnlockCheck` and `UnlockFree` the read and the write of
`XMutex_Unlock`; the message is printed between `Verify` and `UnlockCheck`. `Reset` takes a processor back to `XMutex_CfgInitialize`
(`BootCheck`, `BootFree`) at any point. The printers are `main_prog` (666, 678), every column thread (196) and the display thread
(D 54, 83); the columns do not run before `main_prog`, which is more urgent, has returned. `left` counts the calls a printer has still to
make. The error messages of the start-up are left out.

## 3. What is checked

| Run | Instance | Shows |
|---|---|---|
| `rounds` | 2 columns x 2 rows, 1 golden column, release and speed raise every 2 points, 2 positions | `TypeOK`, eleven safety invariants, `EndIsFinal`, `MessagesFollow` and the refinement `PlaysBreakout` in whole games (4.2 million states) |
| `rounds_live` | 3 columns x 1 row, 1 position | `RoundEnds`, `EmptyWallWins` under fairness |
| `launch_race` | 2 x 1 | violated: `LaunchedBeforeRound` (finding 1) |
| `stale_release` | 2 x 2, 2 golden columns | violated: `ReleasedByScore` (finding 2) |
| `buttons` | debounce 1 tick, threshold 2 ticks, 6 pin changes | `TypeOK`, three invariants, `ButtonsSettle` (1.5 million states) |
| `long_press` | the same, 4 pin changes | violated: `JumpsOrSlides` (finding 5) |
| `barball` | the constants of `config.h` and `config_model.h`, 3 launch angles, 50 rounds | `TypeOK`, `BallIsClear`, `RoughCheckIsSafe`, `OnlyBarEnters`, `BarStopsAtBall` (0.1 million states) |
| `system` | 1 brick, a FIFO of 2 words for messages of 3, 2 positions | `TypeOK`, `PictureIsExact`, `PicturesFollow`, the refinement `CarriesMessages`, `LoadsFinishedPicture`, `EndReachesMonitor` (0.8 million states) |
| `flicker` | 2 bricks, 1 position | violated: `BricksStayBroken` (finding 3) |
| `system_reset` | 1 brick | violated: `DrawsOnlyMessages` (finding 4) |
| `printing` | `main_prog`, 3 column threads and the display, 2 resets | `NobodyCutsIn`, `NeverOrphaned`, `EverythingPrinted` |
| `thread_safe` | 2 column threads, no reset | violated: `OnePrinter` (finding 6) |

The properties, each of which some mutant of the code breaks (`PROJECT.json`, `mutants`):

- `PhasesDoNotMix`: no column checks while another acts on a verdict. Leaving out the
  ball's "cancel last post" at 359 breaks it.
- `RoundBreaksTheHitBrick`: when the ball resumes after the verdict, exactly the brick of
  the retained collision has been broken since the snapshot, and none if the ball hit
  something else. This is what the priorities are for: with the ball at the columns'
  priority, `yield()` at 438 returns before the winner has broken its brick.
- `SoonestWins`: no stale, missing or later report decides the round.
- `GoldenConserved`, `LabelsMatchHolders`, `MessageNotTorn`: the golden resource, its labels,
  and what the display gets to see of them. `MessageNotTorn` takes the phases (no column
  repaints while the ball copies the wall) and the repainting of every standing brick
  together; a loop that misses the last row breaks it.
- `BooksBalance`, `OneBoostPerStep`, `WonOnEmptyWall`, `EndIsFinal`: score, counters, the end of a game.
- `MessageTellsTheEnd`: the message says `WON` exactly when its own wall is empty, although
  the wall is copied at 346 and the state at 514.
- `PlaysBreakout`: every behaviour of the threads is one of `Breakout`. The mapping takes the
  standing bricks for the wall, those of `model_state.bricks` for the picture, and the living
  columns with `golden` for the golden columns. Breaking is `Strike`, the snapshot is `Show`, the
  ball's fall is `Lose`, the golden steps are `TakeGold` and `ReturnGold`; all others stutter. The guards of
  `Breakout` carry the content: one brick between two pictures, none unless the game is being played,
  two points exactly for a golden column, never more than `NB_GOLDEN_COLS` of them,
  and none without bricks on a picture.
- `SomeThreadReady`: the threads never all wait on one another. (TLC's own deadlock check is on,
  but a button press is nearly always possible and would hide such a state.)
- `RoundEnds`, `EmptyWallWins`: progress.
- `MessagesFollow`: what `System` assumes of the model is what the rounds send, from the first message on. That one follows
  the wall and the `WAITING` the display starts with; `stored` tells it from the others, because `model_state` holds garbage before.
- `NeverDeaf`: while the button interrupt is disabled somebody will enable it. The callback (M 188-191) disables and then
  posts; the other way round, `thread_buttons` may enable in between and the buttons are dead.
- `HandlerSeesPins`: the handler clears the status before it reads the pins; the other way round a change in between is lost.
- `HeldIsTimed`: a bar button sampled in a game makes the bar slide or is being timed, though `timer_stop` and
  `timer_start` may meet `loop` anywhere.
- `ButtonsSettle`: the debouncer and the timer do not wake each other for ever.
- `BallIsClear`: no side, and no box of a brick that stands, is nearer to the ball than its radius. The search asks something else, an
  edge at *exactly* the radius or a corner within it; without its test of the corners the ball slips into a brick.
- `RoughCheckIsSafe`: the columns that skip their search miss nothing.
- `OnlyBarEnters`: the ball does not get into a bar that rests.
- `BarStopsAtBall`: no place a bar passes or stops at has the middle of the ball over it, so it does not get to the other side of a ball
  that falls beside it. A push-out after jumps only breaks it. It says nothing of a bar outside its limits, and nothing of the bar's
  corner: see M 496 and M 499 below.
- `PictureIsExact`: painting by differences leaves nothing behind in either buffer.
- `PicturesFollow`: one picture follows the last as one message does the other; a writer that drops a word when the FIFO
  is full breaks it.
- `CarriesMessages`: the two loops of `xmbox.c` implement `Channel`. The mapping cuts the stream of words that are
  in the FIFO, and of the writer's rest, where the reader will cut it.
- `LoadsFinishedPicture`: the controller is never given the buffer that is being painted.
- `EndReachesMonitor`: once the model has sent `WON` or `LOST`, the monitor comes to show it and nothing else.
- `NobodyCutsIn`, `NeverOrphaned`, `EverythingPrinted`: with all columns printing, nobody begins to print into a message of `main_prog` or of
  the display; resets, and a column that unlocks what its sibling holds, leave no lock behind; and the spinning ends.

**Bounds.** Two columns are the least with an arbitration, a hand-over in both turnstiles
and two claims on one golden unit; two rows let a column survive its first break and exit at its
second; two positions are the least at which one collision is sooner than another and ties occur. A
game has four bricks, so with thresholds of 2 points both kinds of crossing happen, by one
and by two points. Three columns of one row, for liveness, give exits in every order.
The wall bounds the game: no counter needs a constraint.

`buttons`: six pin changes are three presses, or bounces of a contact within them; the invariants also hold with eight. A debounce of one tick and a
threshold of two are the least at which a press can be shorter and longer than either. `MAX_CHANGES` bounds the player, not the
threads. `barball`: fifty rounds of a game from three launch angles reach the
bricks, the bar's corners and edges, and both pushes; 60 rounds from five angles were explored as well, and the proofs hold for any number. `MAX_ROUNDS` ends the
game. `system`: a FIFO one word shorter than a message (16 of 84 in the design) has a message in the writer, the FIFO and the reader at once; a
second position tells a ball not erased from one that stands still. `printing`: three columns, so that one cuts in where two
siblings have already got past each other; two resets, so that a reset meets the remains of another.

**Fairness.** `FairSpec` asks weak fairness of the ball thread and of each column. A step of a
thread is enabled only when the scheduler would run it or one of its equals, equals
are rotated on every tick (`penq` at the tail of the ready queue, `sched.c` 202-206), and the
buttons thread blocks again after each press: so a thread that stays runnable runs. Nothing is
assumed of the player.

`Buttons`: weak fairness of the handler, of each thread of priority 1, and of the tick; none of the player or of
the rounds. `System`: weak fairness of the sender (`RoundEnds` brings the ball thread back to it; it spins in the mailbox)
and of the controller's scanning; strong fairness of the display thread, whose poll of a status bit that is set and cleared for ever finds
it set at last: it polls far more often than a picture is scanned. `HwMutex`: weak fairness of each thread and of the
start-up; a lock taken by spinning is then fair enough, because messages are finite. `BarBall` and `SystemReset` need none.

`CHECK_DEADLOCK FALSE` is set only where a run ends: in `barball` when the rounds are played or the game is lost, in
`printing` when all is printed.

### Findings

1. *Launch race* (M 353). The direction of the ball is computed only if the previous message
   said `WAITING`. A press between the test at 350 and the store at 514 makes that
   message say `RUNNING` with no round played; the next rounds start with
   `ball.c = ball.s = 0`, and the ball stands still for ever. `MCLaunchRace` takes the uninitialised
   stack slot to be `WAITING`, so that the run shows the race alone.
2. *Stale release tokens* (M 312). One token per golden column of the configuration is posted
   at every crossing, whether or not that many columns are golden; the ones left over make a column give its gold
   back the round after it took it.
3. *Flicker* (D 117-120). The address of a finished picture is written after the status bit has been seen. If the controller
   loads its register in between, the old buffer is scanned once more, but `thread_display` goes on to paint it:
   the viewer sees a picture in the making, and then one older than that. The driver's bit tells that a picture is over, not
   that the new address has been taken; waiting for the bit *after* setting the address would.
4. *Reset of one processor* (M 533). The presentation (slide 6) promises that either processor may be reset at any time. The words of a
   message carry no mark of its beginning, and nobody flushes the FIFO: the display goes on to take the middle of
   one message for the beginning of another.
5. *Long press* (M 174). `last_change` is also stored when a slide begins, so a press of 250 to 500 ms slides the bar
   and, when released, makes it jump as well. The specification (page 3) has one or the other.
6. *Thread-safe printing* (`config.h` 15). The comment above `safe_printf` calls it "Thread- and process-safe". The register of the hardware
   mutex knows processors only: of two column threads, which all print when they start (M 196), the second takes the lock
   of the first for its own, prints into its message, and the first to finish unlocks for both.

Also seen while modelling, modelled as it is, with no run of its own:

- M 494-500 ("Check if new bar position collides with the ball") compares the moved bar's flat edge with the ball, not its corner, which the search
  itself tests first (M 396-402). A bar that slides or jumps towards a ball beside it may stop with its corner within the ball's radius. Every search then
  collides at its first position, and the ball bounces in place until the bar moves on. TLC refutes
  `[][BarInside /\ ~OnBar(ball, bar_pos) => ~OnBar(ball', bar_pos')]_vars` on the instance of `barball`, with a trace of 38 states;
  `BarStopsAtBall` is what remains true.
- M 499: the bar is clamped (461-464, "Enforce screen width limits for bar") and then, if it was moved over the ball, put beside it,
  without being clamped again. A bar at the wall that is moved inwards over a ball at its inner end is put back beyond its limit, and its box
  covers the border of the zone, which is drawn once. TLC refutes `BarInside` on the instance of `barball` with a launch at 284 degrees and 70 rounds;
  a ball that rolls along at the height of the bar lets it out a few pixels further with each push. A bar at rest again
  snaps back to the limit without the test of 495-496, and may lie over the ball.
- M 284 stores a negative normal in a `u16`. As 65536 is not a multiple of 360, the reflection on the upper corners of a brick is 32 degrees off.
- M 81 compares the pins with what the handler read, not with what `thread_buttons` sampled: three changes around one
  sample leave the thread with stale pins until the next change.
- T 48 does not take triggers back: a stopped timer may start again, expire, and stay `FINISHED`; the next press then slides at once, without
  debounce.
- M 171: changing from one bar button to the other within one debounce leaves the bar sliding the old way for another 250 ms.
- M 131-147: a centre button that is held while anything else wakes `thread_buttons` toggles the pause again.

## 4. What is proved

With TLAPS, for every value of the constants that the named assumptions of the modules allow. Every property of a passing run
is a theorem, but for the five liveness properties. The `GameRound` modules assume `SizesAssumption` and
`ThresholdAssumption` only (sizes and thresholds positive): any number of columns, rows, golden columns and positions.

**`GameRoundProofs`**

- `TypeCorrect`: `Spec => []TypeOK`. `TypeOK` is not inductive: `PickColumn` indexes
  `column_colli[i]`, so `TypeInv` adds `IndexInv`, that `i` is a column while the ball collects.
- `GoldenIsConserved`: the invariant is `GoldenInv`, which adds that a column about to give
  a unit back really holds one. Cardinalities of `Holders` are followed with the library's
  finite-set theorems; nobody ever waits on `golden_brick`, so a post wakes no thread.
- `LabelsFollowHolders`: no other thread writes a column's labels, and `Break` only
  removes a standing brick.

**`GameRoundPhasesProofs`**: `PhasesStayApart` and `NoDeadlock`, from the inductive invariant
`PhaseInv`, the heart of the argument:

- `Places`: at which steps a column may be, for each step of the ball. It is what "the phases
  do not mix" means, but one cannot show that a step keeps it without the rest:
- `Tokens`: an open turnstile has one token, in the semaphore or carried by one column between its
  wait and its post; below zero the count is the number of waiters. So at most one column
  is woken at a time and no token is left over when the turnstile closes.
- `NobodyForgotten`: while columns wait at an open turnstile, one column is about to let
  them in. With the ball's lower priority it follows that, when the ball steps, all columns have
  passed (`BallAlone`); the ball itself counts nothing.
- `Reports`: `sem_check_done[c]` is 1 exactly while a report is not collected, so the
  ball never blocks on a column (`BallAwake`) and no report is left for the next round.
- `Leaving`: a column has no bricks exactly when it has exited or is about to, so `SkipColumn`
  skips those and only those.
- `MutexHeld`: the mutex belongs to a column that can run.

**`GameRoundBooksProofs`**: `BooksAlwaysBalance`, `MessageIsWhole`, `RoundBreaksOneBrick`,
`SoonestCollisionWins`, `WonOnlyOnEmptyWall`, from `BookInv`, which adds to `PhaseInv`:
a reported row stands until the verdict (`HitStands`); the retained collision is the ball's own
or a report of this round, and nothing collected is sooner (`Retained`, `SoonestSoFar`); only the winner is past its
verdict with something to break (`Winners`); and the difference between the wall and the snapshot is the winner's
row once it is past its break, and nothing before (`BrokenThisRound`).

`SpeedFollowsScore` (`OneBoostPerStep`) is proved under `SCORE_VEL_STEP >= SCORE_INC_GOLDEN` (10 and 2 in the code), and false without: a
golden brick would cross two multiples at once. `BoostInv` says what `boosts` is at each step of the ball: the multiples in
the score of the snapshot until `Boost`, those of the score after it; one brick a round makes that one more at most (`OneMultiple`).

**`GameRoundEndProofs`**: `GameOverStays` (`EndIsFinal`), `MessageTellsWhoWon` and
`ThreadsPlayBreakout` (`Spec => PlaysBreakout`). `FinalInv` adds that a trajectory that went to the bar was
reported by no column (`Reached`) and that rounds are played in started games only (`Started`);
without it a losing round might break the last brick and the next snapshot turn `LOST` into `WON`.
For the refinement, initial states map to initial states, `Break` to `Strike`, `Snapshot` to `Show`,
`OwnCheck` to `Lose` or a stutter, the golden steps to `TakeGold` and `ReturnGold`, all others to a stutter.

`RoundsSendWhatFollows` (`MessagesFollow`) is what `System` assumes of the rounds. `model_state` is written in two steps, the snapshot and
`Prepare`, and each must give a message that may follow the one before; the first, the display's initial one (`Last`). `WallIsNear` says that the wall has lost at most one brick since the
snapshot, and none unless the round was played; `StateIsNear` relates `game_state` to the state of the last message: the player may have
paused, resumed or started, and the ball lost, since then, but no game leaves its end (`EndStays`).

**`HwMutexProofs`**, from `BoundsAssumption` (the bounds are natural numbers): `HwMutexNeverOrphaned`,
`HwMutexNobodyCutsIn`. The invariant says that a printer past its first write is one that has reached its call: its processor is up, it has something to
print, and a column starts only when `main_prog` has returned (`Books`); and that whoever prints alone on its processor (`Single`) holds
the register (`Held`).

**`ButtonsProofs`**, from `ButtonsAssumption` (the delays are positive): `ButtonsTypes`, `ButtonsNeverDeaf`,
`ButtonsHandlerSeesPins`, `ButtonsHeldIsTimed`, for any number of pin changes. The first three are inductive. `HeldIsTimed` speaks of threads at rest
and is not: `Remembered` follows the press from `Slide` or `Start` through every place of `loop`, until a token wakes `thread_buttons` again.

**`SystemProofs`**, from `SystemAssumption` (a FIFO shorter than a message, among others), for any wall, FIFO and positions:

- `SystemLoadsFinishedPicture` from `Buffers`: the controller's next buffer is the one not drawn in, or nothing has been drawn yet.
- `SystemPictureIsExact` from `Pixels`, which says what each buffer shows at each step of the display: the message in `data_prev`, without
  bar and ball in the buffer they have just been erased from. Before the first picture it needs that a cleared `data_prev` is a
  wall of broken bricks (`ZeroWords`).
- `SystemTypes`: that FIFO, reader and writer are within their bounds comes from `InPlace`, which places both loops by the words they have left.
- `SystemCarriesMessages` (`CarriesMessages`): `Framed` says that the words read, those in the FIFO and those the writer has
  left make up whole messages. A word written moves from the last part to the second, a word read from the second to
  the first, so the stream stays and so does what the mapping cuts from it; a loop that starts or ends is `Channel`'s send or receive.
- `SystemPicturesFollow` (`PicturesFollow`): `Chain` says that the message being taken, the one waiting in the channel and the one offered follow one another, and
  `Row` that the other buffer holds the message drawn last until the next one is drawn.

**`BarBallProofs`**, from `BarBallAssumption` (ball and bar fit into the zone, the ball between the bricks and the bar; the bar moves by no more than its width; the speed and the angles start
within their limits), for any sizes, speeds, angles and number of rounds: `BarBallTypes`, `BarBallClear`, `BarBallRoughCheck`, `BarBallEnters`, `BarBallStops`.
The invariant `Clear` is `TypeOK` and `Free(ball)`: off the sides, of no brick touched as the search means it, and overlapping none. No part is inductive alone: the ball goes no further than its zone because it
starts free and stops before the first position that is not, and that position is the first only if the search of every column is
exact. Of sine and cosine only that they are whole numbers of thousandths and no more than 1 is used: `NearestOnTheWay` and `AheadOnTheWay` show that a position on the way
is between its ends, coordinate by coordinate, although it is rounded. From this follow `RoughIsSafe` (a column out of whose reach both ends are is
never struck) and, with the least position of a collision (`LeastOf`, by well-founded induction on the naturals), `OwnCollisionFound`, `ColumnCollisionFound` and
`RestIsFree`. That a position nobody touched is one nobody overlaps is `WayIsClear`, along the way pixel by pixel: `OnePixel` bounds
the step, and `NoWayIn` shows that a ball neither touching nor overlapping a brick cannot overlap it one pixel on without having touched it there. For
`BarStopsAtBall`, a bar that moves no more than its width cannot pass the ball, and the push-out puts it back on its side (`MovedBarStops`).

Left to TLC: the liveness properties (`RoundEnds`, `EmptyWallWins`, `ButtonsSettle`, `EndReachesMonitor`, `EverythingPrinted`), which need
`ENABLED`; and the findings, which are counterexamples.

## 5. What is not modelled, and the plan

Nearly all of the repository's lines are the two copies of the vendor's board support package, most of it for processors this
system does not have (`cortexa9`, `cortexa53`, `cortexr5`), and generated register tables (`ps7_init*.c`). They are not modelled:
they have no behaviour of their own that the game relies on beyond what is listed above. The game itself is two main
programs, a timer and a few drawing routines.

Not modelled:

- vendor drivers but for the calls the game makes to mailbox, mutex and video controller; the standalone BSP; `ps7_init`; the block design;
- Xilkernel's message queues, shared memory, `bufmalloc` and ELF loading, which the game does not use, and the data structures
  behind its queues and timers: `GameRound` and `Buttons` model what a wait, a post, a lock and a sleep do;
- fonts, pixels, and the numbers on the screen, which are painted over in full in every picture;
- time as the player sees it: the frame time (M 517-530) and the elapsed seconds;
- the order of the start-up and its error returns: `init_game` locks three mutexes (M 541-567) before
  they are initialised (593-595), while only one thread runs.

What is left:

1. How far out repeated pushes can take the bar. `BarBallTypes` bounds it by the ball beside the wall (half the bar is then out of the zone).
2. The start-up: threads that run before the mutexes are initialised.
3. A bound on the number of rounds of a game. There is none: a ball may come to move horizontally below the bricks and bounce between the sides for ever
   (the corners of bricks and bar reflect by 45 degrees).
