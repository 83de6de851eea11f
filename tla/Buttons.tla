------------------------------ MODULE Buttons ------------------------------
(***************************************************************************)
(* The buttons of the game: the interrupt handler pb_ISR, the debouncer    *)
(* thread_buttons and the software timer that tells a long press from a    *)
(* short one (main_model.c 73-191, timer.c).                               *)
(*                                                                         *)
(* Time is counted in ticks of the kernel, which wakes sleepers.  The two  *)
(* threads have priority 1: whatever they do between two waits takes less  *)
(* than a tick, is interleaved with the other's steps, pre-empted by the   *)
(* interrupt and pre-empts the ball thread.                                *)
(***************************************************************************)
EXTENDS Integers, FiniteSets

CONSTANTS
  DEBOUNCE_DELAY,     \* ticks thread_buttons sleeps before it reads the pins
  BAR_DELAY_THRESH,   \* ticks that tell a short press from a long one
  MAX_CHANGES         \* how often a pin changes, bounces of a contact included

ASSUME ButtonsAssumption ==
  /\ DEBOUNCE_DELAY \in Nat \ {0}
  /\ BAR_DELAY_THRESH \in Nat \ {0}
  /\ MAX_CHANGES \in Nat

VARIABLES
  pins,            \* the buttons that are down
  changes,         \* pin changes so far
  pending,         \* the GPIO's interrupt status: a pin changed since the last clear
  enabled,         \* the GPIO's interrupt enable register
  isr,             \* where pb_ISR is: "off", or in the "middle"
  prev_pb_state,   \* what pb_ISR read last
  sem_debounce,
  bpc,             \* where thread_buttons is
  nap,             \* ticks it still sleeps
  pb_state,        \* what it read last
  prev_pb,         \* LEFT and RIGHT as of the time before
  game_state,
  speed,           \* the sign of bar.speed
  jump,            \* bar.jump
  since_change,    \* ticks since bar.last_change, counted up to the threshold
  timer,           \* timer_bar->state
  trigger,         \* timer_bar->trigger
  elapsed,         \* ticks since timer_bar->start_time, counted past the threshold
  tpc,             \* where loop is
  round            \* thread_ball plays a round, has it "over", or waits

gpio == <<pins, changes, pending, enabled, isr, prev_pb_state>>
bar == <<speed, jump>>
thread == <<bpc, nap, pb_state, prev_pb>>
tmr == <<timer, trigger, elapsed, tpc>>
vars == <<gpio, sem_debounce, thread, game_state, bar, since_change, tmr, round>>

Buttons == {"LEFT", "RIGHT", "CENTER"}
Directions(s) == s \ {"CENTER"}
Sign(d) == IF d = "RIGHT" THEN 1 ELSE -1
Upto(n, max) == IF n < max THEN n + 1 ELSE max

Init ==
  /\ pins = {} /\ changes = 0
  /\ pending = FALSE /\ enabled = TRUE /\ isr = "off" /\ prev_pb_state = {}
  /\ sem_debounce = 0
  /\ bpc = "wait" /\ nap = 0 /\ pb_state = {} /\ prev_pb = {}
  /\ game_state = "WAITING"
  /\ speed = 0 /\ jump = "NONE" /\ since_change = 0
  /\ timer = "STOPPED" /\ trigger = 0 /\ elapsed = 0 /\ tpc = "top"
  /\ round = "wait"

-----------------------------------------------------------------------------
(* The GPIO and its interrupt.                                             *)

(* A button goes down or up.  The GPIO notes it, be the interrupt enabled  *)
(* or not.                                                                 *)
PinChange ==
  /\ changes < MAX_CHANGES
  /\ changes' = changes + 1
  /\ \E b \in Buttons : pins' = (pins \ {b}) \cup ({b} \ pins)
  /\ pending' = TRUE
  /\ UNCHANGED <<enabled, isr, prev_pb_state, sem_debounce, thread, game_state, bar,
                 since_change, tmr, round>>

Interrupted == isr # "off" \/ (enabled /\ pending)

ClearStatus(from, to) ==
  /\ isr = from /\ isr' = to
  /\ pending' = FALSE
  /\ UNCHANGED <<pins, changes, enabled, prev_pb_state, sem_debounce, thread, game_state,
                 bar, since_change, tmr, round>>

(* If the pins are not what was read before, wake thread_buttons and       *)
(* disable the interrupt.                                                  *)
ReadPins(from, to) ==
  /\ isr = from /\ isr' = to
  /\ IF pins # prev_pb_state
       THEN enabled' = FALSE /\ sem_debounce' = sem_debounce + 1
       ELSE UNCHANGED <<enabled, sem_debounce>>
  /\ prev_pb_state' = pins
  /\ UNCHANGED <<pins, changes, pending, thread, game_state, bar, since_change, tmr, round>>

IsrReadsFirst == Interrupted /\ (ReadPins("off", "middle") \/ ClearStatus("middle", "off"))

(* pb_ISR clears the status, then reads the pins.                          *)
Isr == Interrupted /\ (ClearStatus("off", "middle") \/ ReadPins("middle", "off"))

-----------------------------------------------------------------------------
(* thread_buttons.                                                         *)

Step(from, to) == ~Interrupted /\ bpc = from /\ bpc' = to

Wait ==
  /\ sem_debounce > 0
  /\ Step("wait", "check")
  /\ sem_debounce' = sem_debounce - 1
  /\ UNCHANGED <<gpio, nap, pb_state, prev_pb, game_state, bar, since_change, tmr, round>>

Debounce(n) ==
  /\ IF timer = "FINISHED"
       THEN Step("check", "sample") /\ UNCHANGED nap
       ELSE Step("check", "sleep") /\ nap' = n
  /\ UNCHANGED <<gpio, sem_debounce, pb_state, prev_pb, game_state, bar, since_change, tmr,
                 round>>

CheckLessOne == Debounce(DEBOUNCE_DELAY - 1)

(* No delay if it is the timer that woke the thread; or so it looks.       *)
Check == Debounce(DEBOUNCE_DELAY)

Sample ==
  /\ Step("sample", "handle")
  /\ pb_state' = pins
  /\ UNCHANGED <<gpio, sem_debounce, nap, prev_pb, game_state, bar, since_change, tmr, round>>

(* The centre button starts, pauses and resumes ...                        *)
HandleCenter ==
  /\ "CENTER" \in pb_state \/ game_state # "RUNNING"
  /\ Step("handle", "enable")
  /\ game_state' = IF "CENTER" \notin pb_state THEN game_state
                   ELSE CASE game_state \in {"WAITING", "PAUSED"} -> "RUNNING"
                          [] game_state = "RUNNING" -> "PAUSED"
                          [] OTHER -> game_state
  /\ UNCHANGED <<gpio, sem_debounce, nap, pb_state, prev_pb, bar, since_change, tmr, round>>

Moving == game_state = "RUNNING" /\ "CENTER" \notin pb_state
OneDown == Cardinality(Directions(pb_state)) = 1

JumpOf(s) == IF Cardinality(s) # 1 THEN "NONE" ELSE CHOOSE b \in s : TRUE

(* ... and in a game, a bar button that has been let go soon after the     *)
(* last change makes the bar jump, the way it was down before; ...         *)
HandleRelease ==
  /\ Moving /\ ~OneDown
  /\ Step("handle", "enable")
  /\ IF since_change < BAR_DELAY_THRESH
       THEN timer' = "STOPPED" /\ jump' = JumpOf(prev_pb)
       ELSE UNCHANGED timer /\ jump' = "NONE"
  /\ speed' = 0
  /\ since_change' = 0
  /\ UNCHANGED <<gpio, sem_debounce, nap, pb_state, prev_pb, game_state, trigger, elapsed,
                 tpc, round>>

(* ... one that is down starts the timer, or, the timer being finished,    *)
(* sets the bar moving.  The timer's thread may step in between.           *)
HandlePressIfStill ==
  /\ Moving /\ OneDown
  /\ Step("handle", IF timer = "FINISHED" THEN "slide" ELSE IF speed # 0 THEN "enable" ELSE "start")
  /\ UNCHANGED <<gpio, sem_debounce, nap, pb_state, prev_pb, game_state, bar, since_change,
                 tmr, round>>

HandlePress ==
  /\ Moving /\ OneDown
  /\ Step("handle", IF timer = "FINISHED" THEN "slide" ELSE "start")
  /\ UNCHANGED <<gpio, sem_debounce, nap, pb_state, prev_pb, game_state, bar, since_change,
                 tmr, round>>

StopAndSlide ==
  /\ Step("slide", "enable")
  /\ jump' = "NONE"
  /\ speed' = Sign(CHOOSE b \in Directions(pb_state) : TRUE)
  /\ timer' = "STOPPED"
  /\ since_change' = 0
  /\ UNCHANGED <<gpio, sem_debounce, nap, pb_state, prev_pb, game_state, elapsed, tpc, round>>

SlideRestarts == StopAndSlide /\ trigger' = trigger + 1
Slide == StopAndSlide /\ UNCHANGED trigger

Start ==
  /\ Step("start", "enable")
  /\ trigger' = trigger + 1
  /\ since_change' = 0
  /\ UNCHANGED <<gpio, sem_debounce, nap, pb_state, prev_pb, game_state, bar, timer, elapsed,
                 tpc, round>>

Enable ==
  /\ Step("enable", "wait")
  /\ prev_pb' = Directions(pb_state)
  /\ enabled' = TRUE
  /\ UNCHANGED <<pins, changes, pending, isr, prev_pb_state, sem_debounce, nap, pb_state,
                 game_state, bar, since_change, tmr, round>>

ThreadButtons ==
  \/ Wait \/ Check \/ Sample
  \/ HandleCenter \/ HandleRelease \/ HandlePress
  \/ Slide \/ Start \/ Enable

-----------------------------------------------------------------------------
(* The timer's thread, loop.                                               *)

TStep(from, to) == ~Interrupted /\ tpc = from /\ tpc' = to

Switch ==
  /\ TStep("top", CASE timer = "STOPPED" -> "trigger"
                    [] timer = "RUNNING" -> "test"
                    [] timer = "FINISHED" -> "sleep")
  /\ UNCHANGED <<gpio, sem_debounce, thread, game_state, bar, since_change, timer, trigger,
                 elapsed, round>>

Trigger ==
  /\ trigger > 0
  /\ TStep("trigger", "begin")
  /\ trigger' = trigger - 1
  /\ UNCHANGED <<gpio, sem_debounce, thread, game_state, bar, since_change, timer, elapsed,
                 round>>

Begin ==
  /\ TStep("begin", "test")
  /\ elapsed' = 0
  /\ timer' = "RUNNING"
  /\ UNCHANGED <<gpio, sem_debounce, thread, game_state, bar, since_change, trigger, round>>

Test ==
  /\ TStep("test", IF elapsed > BAR_DELAY_THRESH THEN "expire" ELSE "sleep")
  /\ UNCHANGED <<gpio, sem_debounce, thread, game_state, bar, since_change, timer, trigger,
                 elapsed, round>>

Expire ==
  /\ TStep("expire", "disable")
  /\ timer' = "FINISHED"
  /\ UNCHANGED <<gpio, sem_debounce, thread, game_state, bar, since_change, trigger, elapsed,
                 round>>

(* timer_bar_cb.                                                           *)
Disable(from, to) ==
  /\ TStep(from, to)
  /\ enabled' = FALSE
  /\ UNCHANGED <<pins, changes, pending, isr, prev_pb_state, sem_debounce, thread, game_state,
                 bar, since_change, timer, trigger, elapsed, round>>

Post(from, to) ==
  /\ TStep(from, to)
  /\ sem_debounce' = sem_debounce + 1
  /\ UNCHANGED <<gpio, thread, game_state, bar, since_change, timer, trigger, elapsed, round>>

CallbackPostsFirst == Post("disable", "post") \/ Disable("post", "top")
Callback == Disable("disable", "post") \/ Post("post", "top")

Loop ==
  \/ Switch \/ Trigger \/ Begin \/ Test
  \/ Expire \/ Callback

-----------------------------------------------------------------------------
(* The kernel's tick, and the ball thread, run when both of these wait.    *)

Idle ==
  /\ ~Interrupted
  /\ bpc = "sleep" \/ (bpc = "wait" /\ sem_debounce = 0)
  /\ tpc = "sleep" \/ (tpc = "trigger" /\ trigger = 0)

Tick ==
  /\ Idle
  /\ nap' = IF nap > 0 THEN nap - 1 ELSE 0
  /\ bpc' = IF nap = 1 THEN "sample" ELSE bpc
  /\ tpc' = IF tpc = "sleep" THEN "top" ELSE tpc
  /\ since_change' = Upto(since_change, BAR_DELAY_THRESH)
  /\ elapsed' = Upto(elapsed, BAR_DELAY_THRESH + 1)
  /\ UNCHANGED <<gpio, sem_debounce, pb_state, prev_pb, game_state, bar, timer, trigger, round>>

BeginRound ==
  /\ Idle
  /\ round = "wait" /\ game_state = "RUNNING"
  /\ round' = "play"
  /\ UNCHANGED <<gpio, sem_debounce, thread, game_state, bar, since_change, tmr>>

(* The ball leaves the box at the bottom.                                  *)
Lose ==
  /\ Idle
  /\ round = "play" /\ game_state # "LOST"
  /\ game_state' = "LOST"
  /\ UNCHANGED <<gpio, sem_debounce, thread, bar, since_change, tmr, round>>

(* Under bar.mtx, the bar takes its jump or its slide.                     *)
MoveBar ==
  /\ Idle
  /\ round = "play"
  /\ round' = "over"
  /\ jump' = "NONE"
  /\ UNCHANGED <<gpio, sem_debounce, thread, game_state, speed, since_change, tmr>>

(* Before the next round the wall is looked at: empty, it wins the game,   *)
(* were it paused meanwhile.  A ball that was lost broke no brick.         *)
TestWall ==
  /\ Idle
  /\ round = "over"
  /\ round' = "wait"
  /\ UNCHANGED <<gpio, sem_debounce, thread, bar, since_change, tmr>>

Win == TestWall /\ game_state # "LOST" /\ game_state' = "WON"
PlayOn == TestWall /\ UNCHANGED game_state

ThreadBall == BeginRound \/ Lose \/ MoveBar \/ Win \/ PlayOn

Next == PinChange \/ Isr \/ ThreadButtons \/ Loop \/ Tick \/ ThreadBall

Spec == Init /\ [][Next]_vars

(* The interrupt is taken, the threads of priority 1 are the most urgent   *)
(* and the clock runs.                                                     *)
Fairness ==
  /\ WF_vars(Isr)
  /\ WF_vars(ThreadButtons)
  /\ WF_vars(Loop)
  /\ WF_vars(Tick)

FairSpec == Spec /\ Fairness

-----------------------------------------------------------------------------
(* Properties.                                                             *)

TypeOK ==
  /\ pins \subseteq Buttons /\ prev_pb_state \subseteq Buttons /\ pb_state \subseteq Buttons
  /\ prev_pb \subseteq {"LEFT", "RIGHT"}
  /\ changes \in 0 .. MAX_CHANGES
  /\ pending \in BOOLEAN /\ enabled \in BOOLEAN
  /\ round \in {"wait", "play", "over"}
  /\ isr \in {"off", "middle"}
  /\ sem_debounce \in Nat /\ trigger \in Nat
  /\ bpc \in {"wait", "check", "sleep", "sample", "handle", "slide", "start", "enable"}
  /\ nap \in 0 .. DEBOUNCE_DELAY
  /\ bpc = "sleep" => nap > 0
  /\ game_state \in {"WAITING", "RUNNING", "PAUSED", "WON", "LOST"}
  /\ speed \in -1 .. 1
  /\ jump \in {"NONE", "LEFT", "RIGHT"}
  /\ since_change \in 0 .. BAR_DELAY_THRESH /\ elapsed \in 0 .. BAR_DELAY_THRESH + 1
  /\ timer \in {"STOPPED", "RUNNING", "FINISHED"}
  /\ tpc \in {"top", "trigger", "begin", "test", "sleep", "expire", "disable", "post"}

(* While the button interrupt is disabled, somebody is on his way to       *)
(* enable it: thread_buttons is awake or has a token to wake it, or the    *)
(* timer's callback is about to post one.  Two threads and the handler     *)
(* disable, post, wait and enable in any order.                            *)
NeverDeaf ==
  enabled \/ sem_debounce > 0 \/ bpc # "wait" \/ tpc = "post"

(* With no interrupt left to take, pb_ISR has seen the pins as they are,   *)
(* although they change while it runs and while the interrupt is disabled. *)
HandlerSeesPins ==
  isr = "off" /\ ~pending => prev_pb_state = pins

AtRest == bpc = "wait" /\ sem_debounce = 0 /\ enabled /\ ~Interrupted
Timed == trigger > 0 \/ timer = "RUNNING" \/ tpc \in {"begin", "expire", "disable", "post"}

(* A bar button that thread_buttons has seen down in a game is not         *)
(* forgotten: the bar slides its way, or the timer will make it.           *)
HeldIsTimed ==
  AtRest /\ Moving /\ OneDown =>
    Timed \/ speed = Sign(CHOOSE b \in Directions(pb_state) : TRUE)

(* Once the buttons are left alone, thread_buttons comes to rest: it and   *)
(* the timer do not wake each other for ever.                              *)
ButtonsSettle == <>[]AtRest

(* "pressed in less than 250 milliseconds: the bar will move 25 pixels ... *)
(* held for more than 250: continuously" (project_specifications.pdf, page *)
(* 3): one press does not do both.                                         *)
JumpsOrSlides == [][jump' # jump /\ jump' # "NONE" => speed = 0]_vars
=============================================================================
