-------------------------- MODULE RetractingLadder --------------------------
(***************************************************************************)
(* A retracting ladder of the mixer stage (L_IMPLEMENT_RET_LADDERS) and    *)
(* Mario climbing it (l1b38 .. l1d8a of l1ac3).  The ladder reaches from   *)
(* the row Top to the row Bottom of the two platforms; its upper part      *)
(* goes down by Bottom - Top - 24 rows and comes up again, in every second *)
(* frame.  It draws Mario with it, by single pixels; he climbs by two, and *)
(* compares his row with the ends of the ladder, for equality, at every    *)
(* second step.                                                            *)
(***************************************************************************)
EXTENDS Integers

CONSTANTS Turn,      \* value of COUNTER_2's low bit in the ladder's frames
          StartDelay, UpDelay  \* RETRACT_LADDER_DELAY: at first, later

ASSUME DelaysAssumption == /\ Turn \in {0, 1}
                           /\ StartDelay \in 0 .. 255 /\ UpDelay \in 0 .. 255

(* MARIO_Y at the ends of the ladder, 8 above TOP_ and BOT_OF_CURRENT_     *)
(* LADDER (L_MIXER_STAGE_DATA); the rows of the moving part.               *)
TopEnd == 80
BottomEnd == 120
PartUp == 104
PartDown == 120

VARIABLES state,      \* RETRACT_LADDER_STATE
          delay,      \* RETRACT_LADDER_DELAY
          partY,      \* RETRACT_LADDER_Y
          moveDelay,  \* RETRACT_LADDER_MOVE_DELAY
          counter2,   \* the low bit of COUNTER_2
          climber     \* Mario, see Away

partVars   == <<state, delay, partY, moveDelay>>
ladderVars == <<partVars, counter2, climber>>

(* where: at the "bottom" or the "top" of the ladder, "climbing" or        *)
(* "away"; inLine: MARIO_X is the ladder's x; y: MARIO_Y; wait: $620f;     *)
(* odd: $6222, 0 after a step at which the ends were compared; blocked:    *)
(* $621a, 1 when only the lower part can be climbed; drawn, a ghost: has   *)
(* the ladder moved him since $6222 last fitted his row?                   *)
Away == [where |-> "away", inLine |-> FALSE, y |-> BottomEnd,
         wait |-> 0, odd |-> 0, blocked |-> 0, drawn |-> FALSE]

LadderInit == /\ state = 0 /\ delay = StartDelay
              /\ partY = PartUp /\ moveDelay = 1
              /\ counter2 = 0
              /\ climber = Away

-----------------------------------------------------------------------------
(* Mario's part of a frame, on a record m of his data.                     *)

(* l1d11: two pixels, and at every second step the comparison with the     *)
(* ends (l1d67); at the others his x is set to the ladder's (l1d51).       *)
Climbed(m, dy, wait) ==
  LET y == m.y + dy
      atEnd == m.odd = 1 /\ y \in {TopEnd, BottomEnd}
  IN [m EXCEPT !.y = y, !.wait = wait, !.odd = 1 - m.odd,
               !.inLine = m.inLine \/ m.odd = 0,
               !.drawn = m.drawn /\ ~atEnd,
               !.where = IF ~atEnd THEN "climbing"
                         ELSE IF y = TopEnd THEN "top" ELSE "bottom"]

Waited(m) == [m EXCEPT !.wait = m.wait - 1]

(* l1cf2; l1d03.  Where only the lower part is left, holding up does not   *)
(* wait 19 pixels above its foot (l1d76), and the climb stops.             *)
PressDown(m) == IF m.wait = 0 THEN Climbed(m, 2, 3) ELSE Waited(m)
PressUp(m) ==
  IF m.wait = 0 THEN Climbed(m, -2, 4)
  ELSE IF m.blocked = 1 /\ m.y <= BottomEnd + 8 - 19 THEN m ELSE Waited(m)

(* l1afe .. l1b4e, at an end of the ladder and not yet climbing: this      *)
(* ladder is one of the broken ones, not to be entered from above.         *)
AtAnEnd(m) == [m EXCEPT !.blocked = 1]

(* Walking to the ladder, which leaves $620f at the rest of a step.        *)
Arrived(m, w, line, rest) ==
  [m EXCEPT !.where = w, !.inLine = line, !.wait = rest,
            !.y = IF w = "top" THEN TopEnd ELSE BottomEnd, !.drawn = FALSE]

(* A bound: nobody is followed who has climbed past an end.                *)
Followed(m) == m.y \in TopEnd - 1 .. BottomEnd

ClimberMoves(m) ==
  CASE m.where = "away" ->
         {m} \cup {Arrived(m, w, line, rest) : w \in {"bottom", "top"},
                                              line \in BOOLEAN, rest \in 0 .. 2}
    [] m.where = "top" -> {AtAnEnd(m), [m EXCEPT !.where = "away"]}
    [] m.where = "bottom" -> {AtAnEnd(m), PressUp(AtAnEnd(m)), [m EXCEPT !.where = "away"]}
    [] m.where = "climbing" -> {m} \cup IF Followed(m) THEN {PressDown(m), PressUp(m)} ELSE {}

-----------------------------------------------------------------------------
(* L_CHECK_IF_MARIO_ON_LADDER *)
OnLadder(m) == m.where # "away" /\ m.inLine /\ m.y < 122

(* l2276, after a move down: he goes with the ladder while he is above its *)
(* lower part or to get to an even row; else $6222 is set to fit his row.  *)
(* One who stands on top is drawn into the platform, off the ladder.       *)
MovedDown(m) == [m EXCEPT !.y = m.y + 1, !.drawn = TRUE,
                          !.where = IF m.where = "climbing" THEN @ ELSE "away"]

(* At the foot it is too late: the comparison has missed it.               *)
Fitted(m, odd) == [m EXCEPT !.odd = odd, !.drawn = @ /\ m.y = BottomEnd]

(* Faulty variant: the bit of the row is taken from the wrong place.       *)
DrawnOutOfStep(m) ==
  IF ~OnLadder(m) THEN m
  ELSE IF m.y < PartUp \/ m.y % 2 = 1 THEN MovedDown(m)
       ELSE Fitted(m, (m.y \div 4) % 2)

Drawn(m) ==
  IF ~OnLadder(m) THEN m
  ELSE IF m.y < PartUp \/ m.y % 2 = 1 THEN MovedDown(m)
       ELSE Fitted(m, (m.y \div 2) % 2)

Blocked(m, b) == IF OnLadder(m) THEN [m EXCEPT !.blocked = b] ELSE m

(* The handlers of the four states, L_LADDER_STATE_0 .. 3, for Mario m.    *)
LadderWaitsUp(m) ==
  /\ state = 0
  /\ delay' = (delay - 1) % 256
  /\ state' = IF delay' = 0 THEN 1 ELSE 0
  /\ climber' = Blocked(m, state')
  /\ UNCHANGED <<partY, moveDelay>>

LadderGoesDown(m) ==
  /\ state = 1
  /\ IF moveDelay > 1
     THEN /\ moveDelay' = moveDelay - 1
          /\ climber' = m
          /\ UNCHANGED <<state, partY>>
     ELSE /\ moveDelay' = 4
          /\ partY' = partY + 1
          /\ state' = IF partY' = PartDown THEN 2 ELSE 1
          /\ climber' = Drawn(m)
  /\ UNCHANGED delay

(* RANDOM_NUMBER decides. *)
LadderWaitsDown(m) ==
  /\ state = 2
  /\ state' \in {2, 3}
  /\ climber' = m
  /\ UNCHANGED <<delay, partY, moveDelay>>

LadderGoesUp(m) ==
  /\ state = 3
  /\ climber' = m
  /\ IF moveDelay > 1
     THEN /\ moveDelay' = moveDelay - 1
          /\ UNCHANGED <<state, delay, partY>>
     ELSE /\ moveDelay' = 2
          /\ partY' = partY - 1
          /\ IF partY' = PartUp THEN state' = 0 /\ delay' = UpDelay
                                ELSE UNCHANGED <<state, delay>>

LadderNext ==
  /\ counter2' = 1 - counter2
  /\ \E m \in ClimberMoves(climber) :
       IF counter2 # Turn
       THEN climber' = m /\ UNCHANGED partVars
       ELSE \/ LadderWaitsUp(m) \/ LadderGoesDown(m)
            \/ LadderWaitsDown(m) \/ LadderGoesUp(m)

LadderSpec == LadderInit /\ [][LadderNext]_ladderVars

-----------------------------------------------------------------------------
(* Mario climbs between the two ends of the ladder, whatever the ladder    *)
(* does to his row in the meantime: the comparisons with the ends, which   *)
(* are for equality and made at every second step, never miss them.        *)
ClimbStaysOnLadder ==
  climber.where = "climbing" => climber.y \in TopEnd .. BottomEnd

(* An end is missed by nobody whom the ladder has not moved since $6222    *)
(* last fitted his row: where the ladder sets it, above the foot, the      *)
(* climb goes on as if he had come there on his own.                       *)
OnlyDrawnMissEnds ==
  climber.where = "climbing" /\ ~climber.drawn => climber.y \in TopEnd .. BottomEnd

(* While the upper part is not up, $621a says so to everyone who climbs,   *)
(* whether he was on the ladder when it left or came to it later.          *)
BlockedWhileDown ==
  climber.where = "climbing" /\ OnLadder(climber) /\ state # 0 => climber.blocked = 1
=============================================================================
