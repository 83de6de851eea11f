--------------------------- MODULE ButtonsProofs ---------------------------
(***************************************************************************)
(* What the handler, the debouncer and the timer of Buttons keep for any   *)
(* delays and any number of pin changes.  NeverDeaf and HandlerSeesPins    *)
(* are kept by every step on their own; HeldIsTimed speaks of threads at   *)
(* rest and needs Remembered, which follows a press through every step on  *)
(* the way there.                                                          *)
(***************************************************************************)
EXTENDS Buttons, FiniteSetTheorems, TLAPS

(* What thread_buttons has handled is taken care of: by the timer, by a    *)
(* token that wakes the thread again, or by the bar's own speed.           *)
Remembered ==
  Moving /\ OneDown /\ bpc \in {"enable", "wait"} =>
    \/ Timed
    \/ sem_debounce > 0
    \/ speed = Sign(CHOOSE b \in Directions(pb_state) : TRUE)

(* A sign is a direction of the bar.                                       *)
LEMMA SignIsSpeed == \A b : Sign(b) \in -1 .. 1
  BY DEF Sign

(* With one bar button sampled, the other one or none is what a jump needs.*)
LEMMA JumpOfIsJump == \A s \in SUBSET {"LEFT", "RIGHT"} : JumpOf(s) \in {"NONE", "LEFT", "RIGHT"}
<1> SUFFICES ASSUME NEW s \in SUBSET {"LEFT", "RIGHT"}
             PROVE  JumpOf(s) \in {"NONE", "LEFT", "RIGHT"}
  OBVIOUS
<1>1. CASE Cardinality(s) # 1
  BY <1>1 DEF JumpOf
<1>2. CASE Cardinality(s) = 1 /\ s # {}
  <2>1. (CHOOSE b \in s : TRUE) \in s
    BY <1>2
  <2> QED
    BY <1>2, <2>1 DEF JumpOf
<1>3. CASE s = {}
  BY <1>3, <1>1, FS_EmptySet DEF JumpOf
<1> QED
  BY <1>1, <1>2, <1>3

(* Every step keeps the types.                                             *)
LEMMA NextTypeOK == ASSUME TypeOK, [Next]_vars PROVE TypeOK'
<1> USE ButtonsAssumption DEF TypeOK, Buttons, Directions, Upto, gpio, bar, thread, tmr
<1>1. CASE PinChange
  BY <1>1 DEF PinChange
<1>2. CASE Isr
  <2>1. CASE ClearStatus("off", "middle")
    <3>1. pending' \in BOOLEAN /\ isr' \in {"off", "middle"}
      BY <2>1 DEF ClearStatus
    <3> QED
      BY <2>1, <3>1 DEF ClearStatus
  <2>2. CASE ReadPins("middle", "off")
    <3>1. isr' \in {"off", "middle"} /\ pending' \in BOOLEAN
      BY <2>2 DEF ReadPins
    <3>2. enabled' \in BOOLEAN /\ prev_pb_state' \subseteq Buttons
      BY <2>2 DEF ReadPins
    <3>3. sem_debounce' \in Nat
      BY <2>2 DEF ReadPins
    <3> QED
      BY <2>2, <3>1, <3>2, <3>3 DEF ReadPins
  <2> QED
    BY <1>2, <2>1, <2>2 DEF Isr
<1>3. CASE Wait
  BY <1>3 DEF Wait, Step
<1>4. CASE Check
  BY <1>4 DEF Check, Debounce, Step
<1>5. CASE Sample
  BY <1>5 DEF Sample, Step
<1>6. CASE HandleCenter
  BY <1>6 DEF HandleCenter, Step
<1>7. CASE HandleRelease
  BY <1>7, JumpOfIsJump DEF HandleRelease, Step
<1>8. CASE HandlePress
  BY <1>8 DEF HandlePress, Step
<1>9. CASE Slide
  BY <1>9, SignIsSpeed DEF Slide, StopAndSlide, Step
<1>10. CASE Start
  BY <1>10 DEF Start, Step
<1>11. CASE Enable
  BY <1>11 DEF Enable, Step
<1>12. CASE Switch
  BY <1>12 DEF Switch, TStep
<1>13. CASE Trigger
  BY <1>13 DEF Trigger, TStep
<1>14. CASE Begin
  BY <1>14 DEF Begin, TStep
<1>15. CASE Test
  BY <1>15 DEF Test, TStep
<1>16. CASE Expire
  BY <1>16 DEF Expire, TStep
<1>17. CASE Callback
  <2>1. CASE Disable("disable", "post")
    <3>1. enabled' \in BOOLEAN /\ tpc' = "post"
      BY <2>1 DEF Disable, TStep
    <3> QED
      BY <2>1, <3>1 DEF Disable
  <2>2. CASE Post("post", "top")
    BY <2>2 DEF Post, TStep
  <2> QED
    BY <1>17, <2>1, <2>2 DEF Callback
<1>18. CASE Tick
  BY <1>18 DEF Tick
<1>19. CASE BeginRound
  BY <1>19 DEF BeginRound
<1>20. CASE Lose
  BY <1>20 DEF Lose
<1>21. CASE MoveBar
  <2>1. round' \in {"wait", "play", "over"} /\ jump' \in {"NONE", "LEFT", "RIGHT"}
    BY <1>21 DEF MoveBar
  <2> QED
    BY <1>21, <2>1 DEF MoveBar
<1>22. CASE Win
  BY <1>22 DEF Win, TestWall
<1>23. CASE PlayOn
  BY <1>23 DEF PlayOn, TestWall
<1>24. CASE UNCHANGED vars
  BY <1>24 DEF vars
<1> QED
  BY <1>1, <1>2, <1>3, <1>4, <1>5, <1>6, <1>7, <1>8, <1>9, <1>10, <1>11, <1>12, <1>13, <1>14, <1>15, <1>16, <1>17, <1>18, <1>19, <1>20, <1>21, <1>22, <1>23, <1>24 DEF Next, ThreadButtons, Loop, ThreadBall

(* Whoever disables the interrupt posts, or is about to, and whoever takes *)
(* the token enables.                                                      *)
LEMMA NextNeverDeaf == ASSUME TypeOK, NeverDeaf, [Next]_vars PROVE NeverDeaf'
<1> USE DEF TypeOK, NeverDeaf, gpio, bar, thread, tmr
<1>1. CASE PinChange
  BY <1>1 DEF PinChange
<1>2. CASE Isr
  <2>1. CASE ClearStatus("off", "middle")
    BY <2>1 DEF ClearStatus
  <2>2. CASE ReadPins("middle", "off")
    BY <2>2 DEF ReadPins
  <2> QED
    BY <1>2, <2>1, <2>2 DEF Isr
<1>3. CASE Wait
  BY <1>3 DEF Wait, Step
<1>4. CASE Check
  BY <1>4 DEF Check, Debounce, Step
<1>5. CASE Sample
  BY <1>5 DEF Sample, Step
<1>6. CASE HandleCenter
  BY <1>6 DEF HandleCenter, Step
<1>7. CASE HandleRelease
  BY <1>7 DEF HandleRelease, Step
<1>8. CASE HandlePress
  BY <1>8 DEF HandlePress, Step
<1>9. CASE Slide
  BY <1>9 DEF Slide, StopAndSlide, Step
<1>10. CASE Start
  BY <1>10 DEF Start, Step
<1>11. CASE Enable
  BY <1>11 DEF Enable, Step
<1>12. CASE Switch
  BY <1>12 DEF Switch, TStep
<1>13. CASE Trigger
  BY <1>13 DEF Trigger, TStep
<1>14. CASE Begin
  BY <1>14 DEF Begin, TStep
<1>15. CASE Test
  BY <1>15 DEF Test, TStep
<1>16. CASE Expire
  BY <1>16 DEF Expire, TStep
<1>17. CASE Callback
  <2>1. CASE Disable("disable", "post")
    BY <2>1 DEF Disable, TStep
  <2>2. CASE Post("post", "top")
    BY <2>2 DEF Post, TStep
  <2> QED
    BY <1>17, <2>1, <2>2 DEF Callback
<1>18. CASE Tick
  BY <1>18 DEF Tick
<1>19. CASE BeginRound
  BY <1>19 DEF BeginRound
<1>20. CASE Lose
  BY <1>20 DEF Lose
<1>21. CASE MoveBar
  BY <1>21 DEF MoveBar
<1>22. CASE Win
  BY <1>22 DEF Win, TestWall
<1>23. CASE PlayOn
  BY <1>23 DEF PlayOn, TestWall
<1>24. CASE UNCHANGED vars
  BY <1>24 DEF vars
<1> QED
  BY <1>1, <1>2, <1>3, <1>4, <1>5, <1>6, <1>7, <1>8, <1>9, <1>10, <1>11, <1>12, <1>13, <1>14, <1>15, <1>16, <1>17, <1>18, <1>19, <1>20, <1>21, <1>22, <1>23, <1>24 DEF Next, ThreadButtons, Loop, ThreadBall

(* A change is noted before the handler reads, or is read.                 *)
LEMMA NextHandlerSeesPins == ASSUME HandlerSeesPins, [Next]_vars PROVE HandlerSeesPins'
<1> USE DEF HandlerSeesPins, gpio, bar, thread, tmr
<1>1. CASE PinChange
  BY <1>1 DEF PinChange
<1>2. CASE Isr
  <2>1. CASE ClearStatus("off", "middle")
    BY <2>1 DEF ClearStatus
  <2>2. CASE ReadPins("middle", "off")
    BY <2>2 DEF ReadPins
  <2> QED
    BY <1>2, <2>1, <2>2 DEF Isr
<1>3. CASE Wait
  BY <1>3 DEF Wait, Step
<1>4. CASE Check
  BY <1>4 DEF Check, Debounce, Step
<1>5. CASE Sample
  BY <1>5 DEF Sample, Step
<1>6. CASE HandleCenter
  BY <1>6 DEF HandleCenter, Step
<1>7. CASE HandleRelease
  BY <1>7 DEF HandleRelease, Step
<1>8. CASE HandlePress
  BY <1>8 DEF HandlePress, Step
<1>9. CASE Slide
  BY <1>9 DEF Slide, StopAndSlide, Step
<1>10. CASE Start
  BY <1>10 DEF Start, Step
<1>11. CASE Enable
  BY <1>11 DEF Enable, Step
<1>12. CASE Switch
  BY <1>12 DEF Switch, TStep
<1>13. CASE Trigger
  BY <1>13 DEF Trigger, TStep
<1>14. CASE Begin
  BY <1>14 DEF Begin, TStep
<1>15. CASE Test
  BY <1>15 DEF Test, TStep
<1>16. CASE Expire
  BY <1>16 DEF Expire, TStep
<1>17. CASE Callback
  <2>1. CASE Disable("disable", "post")
    BY <2>1 DEF Disable, TStep
  <2>2. CASE Post("post", "top")
    BY <2>2 DEF Post, TStep
  <2> QED
    BY <1>17, <2>1, <2>2 DEF Callback
<1>18. CASE Tick
  BY <1>18 DEF Tick
<1>19. CASE BeginRound
  BY <1>19 DEF BeginRound
<1>20. CASE Lose
  BY <1>20 DEF Lose
<1>21. CASE MoveBar
  BY <1>21 DEF MoveBar
<1>22. CASE Win
  BY <1>22 DEF Win, TestWall
<1>23. CASE PlayOn
  BY <1>23 DEF PlayOn, TestWall
<1>24. CASE UNCHANGED vars
  BY <1>24 DEF vars
<1> QED
  BY <1>1, <1>2, <1>3, <1>4, <1>5, <1>6, <1>7, <1>8, <1>9, <1>10, <1>11, <1>12, <1>13, <1>14, <1>15, <1>16, <1>17, <1>18, <1>19, <1>20, <1>21, <1>22, <1>23, <1>24 DEF Next, ThreadButtons, Loop, ThreadBall

(* No step of the timer's forgets the press.                               *)
LEMMA NextRemembered == ASSUME TypeOK, Remembered, [Next]_vars PROVE Remembered'
<1> USE DEF TypeOK, Remembered, Moving, OneDown, Timed, gpio, bar, thread, tmr
<1>1. CASE PinChange
  BY <1>1 DEF PinChange
<1>2. CASE Isr
  <2>1. CASE ClearStatus("off", "middle")
    BY <2>1 DEF ClearStatus
  <2>2. CASE ReadPins("middle", "off")
    BY <2>2 DEF ReadPins
  <2> QED
    BY <1>2, <2>1, <2>2 DEF Isr
<1>3. CASE Wait
  BY <1>3 DEF Wait, Step
<1>4. CASE Check
  BY <1>4 DEF Check, Debounce, Step
<1>5. CASE Sample
  BY <1>5 DEF Sample, Step
<1>6. CASE HandleCenter
  BY <1>6 DEF HandleCenter, Step
<1>7. CASE HandleRelease
  BY <1>7 DEF HandleRelease, Step
<1>8. CASE HandlePress
  BY <1>8 DEF HandlePress, Step
<1>9. CASE Slide
  BY <1>9 DEF Slide, StopAndSlide, Step
<1>10. CASE Start
  BY <1>10 DEF Start, Step
<1>11. CASE Enable
  BY <1>11 DEF Enable, Step
<1>12. CASE Switch
  BY <1>12 DEF Switch, TStep
<1>13. CASE Trigger
  BY <1>13 DEF Trigger, TStep
<1>14. CASE Begin
  BY <1>14 DEF Begin, TStep
<1>15. CASE Test
  BY <1>15 DEF Test, TStep
<1>16. CASE Expire
  BY <1>16 DEF Expire, TStep
<1>17. CASE Callback
  <2>1. CASE Disable("disable", "post")
    BY <2>1 DEF Disable, TStep
  <2>2. CASE Post("post", "top")
    BY <2>2 DEF Post, TStep
  <2> QED
    BY <1>17, <2>1, <2>2 DEF Callback
<1>18. CASE Tick
  BY <1>18 DEF Tick
<1>19. CASE BeginRound
  BY <1>19 DEF BeginRound
<1>20. CASE Lose
  BY <1>20 DEF Lose
<1>21. CASE MoveBar
  BY <1>21 DEF MoveBar
<1>22. CASE Win
  BY <1>22 DEF Win, TestWall
<1>23. CASE PlayOn
  BY <1>23 DEF PlayOn, TestWall
<1>24. CASE UNCHANGED vars
  BY <1>24 DEF vars
<1> QED
  BY <1>1, <1>2, <1>3, <1>4, <1>5, <1>6, <1>7, <1>8, <1>9, <1>10, <1>11, <1>12, <1>13, <1>14, <1>15, <1>16, <1>17, <1>18, <1>19, <1>20, <1>21, <1>22, <1>23, <1>24 DEF Next, ThreadButtons, Loop, ThreadBall

(* The four of them in every state of every behaviour.                     *)
LEMMA Invariance == Spec => [](TypeOK /\ NeverDeaf /\ HandlerSeesPins /\ Remembered)
<1> DEFINE IInv == TypeOK /\ NeverDeaf /\ HandlerSeesPins /\ Remembered
<1>1. Init => IInv
  <2> SUFFICES ASSUME Init PROVE IInv
    OBVIOUS
  <2>1. TypeOK
    <3>1. pending \in BOOLEAN /\ enabled \in BOOLEAN /\ round \in {"wait", "play", "over"}
      BY DEF Init
    <3>2. pins \subseteq Buttons /\ prev_pb_state \subseteq Buttons
      BY DEF Init
    <3>3. pb_state \subseteq Buttons /\ prev_pb \subseteq {"LEFT", "RIGHT"}
      BY DEF Init
    <3> QED
      BY <3>1, <3>2, <3>3, ButtonsAssumption DEF Init, TypeOK
  <2>2. NeverDeaf /\ HandlerSeesPins /\ Remembered
    BY DEF Init, NeverDeaf, HandlerSeesPins, Remembered, Moving
  <2> QED
    BY <2>1, <2>2
<1>2. IInv /\ [Next]_vars => IInv'
  BY NextTypeOK, NextNeverDeaf, NextHandlerSeesPins, NextRemembered
<1> QED
  BY <1>1, <1>2, PTL DEF Spec

-----------------------------------------------------------------------------
(* Every variable keeps its type, whatever the delays: the naps end, the   *)
(* semaphores are never taken below zero.                                  *)
THEOREM ButtonsTypes == Spec => []TypeOK
  BY Invariance, PTL

(* While the interrupt is disabled, thread_buttons is on its way to enable *)
(* it or will be woken to.                                                 *)
THEOREM ButtonsNeverDeaf == Spec => []NeverDeaf
  BY Invariance, PTL

(* With no interrupt to take, pb_ISR has seen the pins as they are.        *)
THEOREM ButtonsHandlerSeesPins == Spec => []HandlerSeesPins
  BY Invariance, PTL

(* A bar button seen down in a game is never forgotten, although the timer *)
(* may be stopped, started and expire at any point of its loop.            *)
THEOREM ButtonsHeldIsTimed == Spec => []HeldIsTimed
<1>1. TypeOK /\ Remembered => HeldIsTimed
  BY DEF TypeOK, Remembered, HeldIsTimed, AtRest
<1> QED
  BY <1>1, Invariance, PTL
=============================================================================
