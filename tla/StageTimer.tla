----------------------------- MODULE StageTimer -----------------------------
(***************************************************************************)
(* The bonus timer of a stage.  L_INIT_CURRENT_STAGE derives it from the   *)
(* level; the interrupt handler counts $62b1 down and sends an event for   *)
(* each tick; the main loop counts ONSCREEN_TIMER down, in decimal digits, *)
(* when it takes the event.  At the end of $62b1 a small state machine     *)
(* ($6386, l1a07) lets Mario die of it.                                    *)
(***************************************************************************)
EXTENDS Bcd

CONSTANTS Levels,      \* the levels played (1 .. 99 in the code)
          Grace,       \* frames between the end of the timer and the death: 256
          MaxLate,     \* ticks that fit between the end of the timer and the
                       \* death: ticks are at least 40 frames apart ($62b3)
          MaxPending   \* bound of the model: ticks that wait in the buffer

ASSUME LevelsAssumption  == Levels \subseteq 1 .. 99
ASSUME GraceAssumption   == Grace \in Nat \ {0}
ASSUME LateAssumption    == MaxLate \in 0 .. 254
ASSUME PendingAssumption == MaxPending \in Nat \ {0}

VARIABLES level,       \* CP_LEVEL_NUMBER
          internal,    \* INTERNAL_TIMER
          left,        \* $62b1
          outState,    \* $6386
          grace,       \* $6387
          onscreen,    \* ONSCREEN_TIMER
          ranDown,     \* TIMER_HAS_RUN_DOWN
          pending,     \* $0501 events in the action buffer
          barrels,     \* the stage is the barrels stage
          phase        \* "run", "won", "dead"

clockVars == <<left, outState, grace>>
shownVars == <<onscreen, ranDown>>
stageVars == <<level, internal, barrels>>
timerVars == <<stageVars, clockVars, shownVars, pending, phase>>

(* Three rla's and two additions, in a byte; then the cap. *)
LevelTimes10Plus40(n) == (10 * n + 40) % 256

InitialTimer(n) ==
  LET t == LevelTimes10Plus40(n) IN IF t < 81 THEN t ELSE 80

(* The stage has just been displayed, with the event that draws the timer. *)
TimerInit ==
  /\ level \in Levels
  /\ internal = InitialTimer(level)
  /\ left = internal
  /\ outState = 0 /\ grace = 0
  /\ onscreen = 0 /\ ranDown = 0
  /\ pending = 1
  /\ barrels \in {0, 1}
  /\ phase = "run"

-----------------------------------------------------------------------------
(* One frame of L_RUN_GAME.  The routines of the timer, in the order of    *)
(* the frame: l2c8f (barrels), the win, l1a07, l2fcb (the other stages).   *)

(* l2c8f when Donkey Kong takes a barrel, l2fcb when its delay is over.    *)
LeftAfter(tick) == IF tick THEN (left + 255) % 256 ELSE left
(* Faulty variant: the end is seen again at the tick after it. *)
RunsOutTwice(tick) == tick /\ LeftAfter(tick) \in {0, 255}

RunsOut(tick) == tick /\ LeftAfter(tick) = 0

Ticks(tick) == /\ tick => pending < MaxPending
               /\ tick /\ outState # 0 => (256 - left) % 256 < MaxLate
               /\ left' = LeftAfter(tick)
               /\ pending' = pending + (IF tick THEN 1 ELSE 0)

TimeOutState(s) == CASE s = 1 -> 2
                     [] s = 2 /\ grace = 1 -> 3
                     [] OTHER -> s

CountGrace(s) == grace' = CASE s = 1 -> Grace
                            [] s = 2 -> grace - 1
                            [] OTHER -> grace

(* On the barrels stage the tick comes before l1a07, elsewhere after it.   *)
Goes(tick) ==
  /\ phase = "run"
  /\ Ticks(tick)
  /\ IF barrels = 1
       THEN LET s == IF RunsOut(tick) THEN 1 ELSE outState
            IN  outState' = TimeOutState(s) /\ CountGrace(s)
       ELSE /\ outState' = IF RunsOut(tick) THEN 1 ELSE TimeOutState(outState)
            /\ CountGrace(outState)
  /\ UNCHANGED <<stageVars, shownVars, phase>>

(* l1a2a: Mario dies when he is not in the air; l2fcb is skipped. *)
TimedOut(tick) ==
  /\ phase = "run" /\ outState = 3
  /\ tick => barrels = 1
  /\ ~RunsOut(tick)
  /\ Ticks(tick)
  /\ phase' = "dead"
  /\ UNCHANGED <<stageVars, outState, grace, shownVars>>

(* The win leaves the frame before l1a07, with the points for what is left *)
(* on the screen.  (Other deaths end the stage as well; see GameFlow.)     *)
Won(tick) ==
  /\ phase = "run"
  /\ tick => barrels = 1
  /\ Ticks(tick)
  /\ outState' = IF RunsOut(tick) THEN 1 ELSE outState
  /\ phase' = "won"
  /\ UNCHANGED <<stageVars, grace, shownVars>>

Frame == \E tick \in BOOLEAN : Goes(tick) \/ TimedOut(tick) \/ Won(tick)

-----------------------------------------------------------------------------
(* L_PROCESS_TIMER with a = 1. *)

(* How often 10 is subtracted until the byte is 0: it must be a multiple.  *)
Tens(t) == CHOOSE b \in 1 .. 256 : /\ (10 * b) % 256 = t
                                   /\ \A a \in 1 .. b - 1 : (10 * a) % 256 # t

(* Faulty variant: the number of tens is shown as the ones. *)
InitialOnscreenUnswapped(t) == Tens(t)

(* The four rlca's swap the nibbles. *)
InitialOnscreen(t) == 16 * Lo(Tens(t)) + Hi(Tens(t))

ShowTimer == /\ onscreen = 0 /\ ranDown = 0
             /\ onscreen' = InitialOnscreen(internal)
             /\ UNCHANGED ranDown

CountDown == /\ onscreen # 0
             /\ onscreen' = SubDaa(onscreen, 1)
             /\ ranDown' = IF onscreen = 1 THEN 1 ELSE ranDown

StayAtZero == /\ onscreen = 0 /\ ranDown # 0
              /\ UNCHANGED shownVars

ProcessTimer == /\ pending > 0
                /\ pending' = pending - 1
                /\ ShowTimer \/ CountDown \/ StayAtZero
                /\ UNCHANGED <<stageVars, clockVars, phase>>

TimerNext == Frame \/ ProcessTimer

TimerSpec == TimerInit /\ [][TimerNext]_timerVars

-----------------------------------------------------------------------------
(* The comments of L_INIT_CURRENT_STAGE: "(current level number x 10) +    *)
(* 40", "Cap the timer at 80".                                             *)
TimerAsDocumented ==
  internal = IF 10 * level + 40 <= 80 THEN 10 * level + 40 ELSE 80

(* The timer on the screen, whose digits become points, never drifts from  *)
(* the one that kills: as long as there is time left it shows what is left *)
(* and the ticks that have not been taken from the buffer.                 *)
OnscreenTracksTimer ==
  outState = 0 => \/ IsBcd(onscreen) /\ onscreen # 0 /\ Decimal(onscreen) = left + pending
                  \/ onscreen = 0 /\ ranDown = 0 /\ internal + 1 = left + pending

(* Ticks after the end neither restart the timer on the screen nor give    *)
(* Mario his time again: the state machine only goes on.                   *)
TimeOutIsFinal == [][outState' >= outState /\ ranDown' >= ranDown]_timerVars
=============================================================================
