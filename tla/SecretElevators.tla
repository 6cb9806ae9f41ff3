--------------------------- MODULE SecretElevators ---------------------------
(***************************************************************************)
(* The secret stage: two elevators that go round a diamond in step, four   *)
(* triggers that reverse them and take a bar of Pauline's cage each, and   *)
(* Mario riding.  One step is a frame of L_RUN_GAME:                       *)
(* L_IMPLEMENT_POINT_AWARD, L_IMPLEMENT_SECRET_ELEVATORS and               *)
(* L_CHECK_IF_TRIGGER_REACHED, with what Mario does in between.            *)
(***************************************************************************)
EXTENDS Integers, FiniteSets

CONSTANTS QuadrantMoves,  \* moves along one side of the diamond: 24
          PauseMoves,     \* rest at a corner: 16
          Start,          \* L_SECRET_ELEVATOR_COORDS
          Triggers,       \* L_SECRET_TRIGGER_DATA
          CageBars,       \* initial CAGE_BARS_REMAINING: 4
          MaxWalkOffs     \* bound of the model: times Mario walks off

SecretPair == {1, 2}
NoTrigger == "none"

ASSUME MovesAssumption == QuadrantMoves \in Nat \ {0} /\ PauseMoves \in Nat
(* The diamond below the starting point is on the screen.                  *)
ASSUME CoordsAssumption ==
  Start \in [SecretPair -> [x : QuadrantMoves .. 255 - QuadrantMoves,
                           y : 0 .. 255 - 2 * QuadrantMoves]]
ASSUME TriggersAssumption == IsFiniteSet(Triggers) /\ NoTrigger \notin Triggers
ASSUME BarsAssumption    == CageBars = Cardinality(Triggers) /\ CageBars < 256
ASSUME WalkOffAssumption == MaxWalkOffs \in Nat

VARIABLES at,        \* the elevators: bytes 3 and 5 of their structures
          quad,      \* SECRET_ELEVATOR_QUAD
          dir,       \* SECRET_ELEVATOR_DIR
          moves,     \* SECRET_ELEVATOR_MOVE_COUNT
          pause,     \* SECRET_ELEVATOR_PAUSE_COUNT
          reverse,   \* SECRET_ELEVATOR_REVERSE
          phase,     \* the low bit of COUNTER_2
          rider,     \* the elevator Mario rides, 0 for none
          lost,      \* moves an elevator has missed (no code remembers it)
          shown,     \* triggers whose sprite is visible
          reached,   \* SMASHED_SPRITE_POINTER of an award not yet given
          bars       \* CAGE_BARS_REMAINING

motionVars == <<at, quad, dir, moves, pause, lost>>
cageVars   == <<shown, reached, bars>>
secretVars == <<motionVars, reverse, phase, rider, cageVars>>

SecretInit == /\ at = Start
              /\ quad = 0 /\ dir = 1 /\ moves = 0 /\ pause = 0
              /\ reverse = FALSE /\ phase = 0
              /\ rider = 0
              /\ lost = [e \in SecretPair |-> 0]
              /\ shown = Triggers /\ reached = NoTrigger
              /\ bars = CageBars

-----------------------------------------------------------------------------
(* L_QUADRANT_DIRECTIONS *)
Vector(q) == CASE q = 0 -> [x |->  1, y |->  1]
               [] q = 1 -> [x |-> -1, y |->  1]
               [] q = 2 -> [x |-> -1, y |-> -1]
               [] q = 3 -> [x |->  1, y |-> -1]

Shifted(p, v) == [x |-> (p.x + v.x) % 256, y |-> (p.y + v.y) % 256]

(* The quadrant behind a corner.  A reversal first steps back to the other *)
(* side of the corner and then on, to the opposite quadrant: the way back. *)
NextDir == IF reverse THEN -dir ELSE dir
(* Faulty variant: one step, to the neighbouring quadrant. *)
NextQuadNeighbour == (quad + NextDir) % 4
NextQuad == IF reverse THEN (quad + 2 * NextDir) % 4 ELSE (quad + NextDir) % 4

Moving   == phase = 1 /\ pause = 0
AtCorner == Moving /\ moves + 1 >= QuadrantMoves

(* L_IMPLEMENT_SECRET_ELEVATORS with Mario on elevator r, 0 for none.  If  *)
(* he is beyond its edge (off), l2766 makes him fall and returns in place  *)
(* of the code that moves the elevator.                                    *)
MoveSecretElevators(r, off) ==
  /\ pause' = IF phase = 0 THEN pause
              ELSE IF pause > 0 THEN pause - 1
              ELSE IF AtCorner THEN PauseMoves ELSE 0
  /\ moves' = IF AtCorner THEN 0 ELSE IF Moving THEN moves + 1 ELSE moves
  /\ IF AtCorner THEN quad' = NextQuad /\ dir' = NextDir
                 ELSE UNCHANGED <<quad, dir>>
  /\ at' = [e \in SecretPair |-> IF Moving /\ ~(off /\ e = r)
                                THEN Shifted(at[e], Vector(quad)) ELSE at[e]]
  /\ lost' = [e \in SecretPair |-> IF off /\ e = r THEN lost[e] + 1 ELSE lost[e]]
  /\ rider' = IF off THEN 0 ELSE r

(* l1ac3, before the elevators: Mario rides on, jumps off, or lands.       *)
RiderMoves == IF rider = 0 THEN {0} \cup SecretPair ELSE {0, rider}

(* L_GIVE_POINT_AWARD hides the sprite of the award of the last frame,     *)
(* before anything else.                                                   *)
(* Faulty variant: the sprite stays. *)
ShownStill == shown
ShownNow == shown \ {reached}

(* L_CHECK_IF_TRIGGER_REACHED, after the elevators: Mario is at the        *)
(* coordinates of the visible trigger t, or of none.                       *)
CheckTriggers(t) ==
  /\ reached' = t
  /\ bars' = IF t = NoTrigger THEN bars ELSE (bars - 1) % 256
  /\ reverse' = (t # NoTrigger \/ (reverse /\ ~AtCorner))

RunSecretStage ==
  \E r \in RiderMoves, off \in BOOLEAN, t \in ShownNow \cup {NoTrigger} :
    /\ off => r # 0 /\ r = rider /\ Moving /\ lost[1] + lost[2] < MaxWalkOffs
    /\ shown' = ShownNow
    /\ MoveSecretElevators(r, off)
    /\ CheckTriggers(t)
    /\ phase' = 1 - phase

(* Mario falls out of the screen or gets past the cage: the stage is over  *)
(* and, another time, starts anew.                                         *)
NewVisit == /\ at' = Start
            /\ quad' = 0 /\ dir' = 1 /\ moves' = 0 /\ pause' = 0
            /\ reverse' = FALSE /\ phase' \in {0, 1}
            /\ rider' = 0
            /\ lost' = [e \in SecretPair |-> 0]
            /\ shown' = Triggers /\ reached' = NoTrigger
            /\ bars' = CageBars

SecretNext == RunSecretStage \/ NewVisit

SecretSpec == SecretInit /\ [][SecretNext]_secretVars

-----------------------------------------------------------------------------
(* Whatever triggers reverse the elevators, and whenever they do (between  *)
(* the quadrants: l_implement_secret_elevators_1), an elevator that never  *)
(* missed a move is on the sides of one diamond of QuadrantMoves pixels.   *)
Distance(a, b) == IF a < b THEN b - a ELSE a - b

StaysOnDiamond ==
  \A e \in SecretPair : lost[e] = 0 =>
    Distance(at[e].x, Start[e].x)
      + Distance(at[e].y, Start[e].y + QuadrantMoves) = QuadrantMoves

(* A trigger takes one bar, however many frames Mario touches it: the bars *)
(* that are left are the triggers that were not reached, so that all of    *)
(* them together open the cage and CAGE_BARS_REMAINING never wraps.        *)
BarsMatchTriggers == bars = Cardinality(shown \ {reached})

(* "Move the elevators" (before lelevatormove): the two elevators move     *)
(* together and keep their distance.                                       *)
ElevatorsInStep ==
  /\ at[1].x - Start[1].x = at[2].x - Start[2].x
  /\ at[1].y - Start[1].y = at[2].y - Start[2].y
=============================================================================
