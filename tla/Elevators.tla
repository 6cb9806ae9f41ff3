------------------------------ MODULE Elevators ------------------------------
(***************************************************************************)
(* The elevators stage: six platform structures that go up the left        *)
(* column, come down the right one and are used again, and Mario, whom     *)
(* L_MOVE_MARIO_ON_ELEVATORS carries without looking at the platforms: it  *)
(* moves him a pixel up or down by the column his x coordinate lies in.    *)
(* The platforms move when COUNTER_2 is odd, Mario when it is even.        *)
(***************************************************************************)
EXTENDS Integers, FiniteSets

CONSTANTS Platforms,   \* ELEVATOR_STRUCTS: 1 .. 6
          Shaft,       \* the rows of a platform at the ends of its column
          SpawnDelay,  \* moves from one platform to the next: 52
          StartSide, StartRow  \* L_ELEVATOR_COORDS

ASSUME PlatformsAssumption == Platforms \subseteq Nat
ASSUME ShaftAssumption == /\ Shaft = [top |-> Shaft.top, bottom |-> Shaft.bottom]
                          /\ Shaft.top \in Nat /\ Shaft.bottom \in Nat
                          /\ Shaft.top < Shaft.bottom
ASSUME DelayAssumption == SpawnDelay \in Nat \ {0}
ASSUME StartAssumption ==
  /\ StartSide \in [Platforms -> {"up", "down"}]
  /\ StartRow  \in [Platforms -> Shaft.top + 1 .. Shaft.bottom - 1]

VARIABLES active, side, row,  \* of each platform: bytes 0, 3 and 13, 5
          spawnTimer,  \* ELEVATOR_SPAWN_TIMER
          odd,         \* the low bit of COUNTER_2
          mario        \* see NoRide

platformVars == <<active, side, row>>
elevatorVars == <<platformVars, spawnTimer, odd, mario>>

(* How far platform p has come since it was spawned.                       *)
Trip(p) == IF side[p] = "up" THEN Shaft.bottom - row[p]
                             ELSE Shaft.bottom - 2 * Shaft.top + row[p]

StartTrip(p) == IF StartSide[p] = "up" THEN Shaft.bottom - StartRow[p]
                ELSE Shaft.bottom - 2 * Shaft.top + StartRow[p]

(* The first platforms are at least a delay apart.                         *)
ASSUME StartApart ==
  \A p, q \in Platforms : p # q => \/ StartTrip(p) >= StartTrip(q) + SpawnDelay
                                   \/ StartTrip(q) >= StartTrip(p) + SpawnDelay

(* The platforms, a delay apart, are more than the way of one is long: 6   *)
(* times 52 against twice 152 pixels.                                      *)
ASSUME EnoughPlatforms ==
  /\ IsFiniteSet(Platforms) /\ SpawnDelay > 1
  /\ Cardinality(Platforms) * SpawnDelay >= 2 * (Shaft.bottom - Shaft.top)

(* The columns reach beyond the rows at which a ride is deadly, see        *)
(* DiesAbove and DiesBelow.                                                *)
ASSUME DeadlyEnds == Shaft.top < 124 /\ Shaft.bottom > 244

(* on: MARIO_ON_ELEVATOR; column: where his x coordinate is; y: MARIO_Y,   *)
(* kept while he rides; under: the platform he stepped on last (no code    *)
(* remembers it).                                                          *)
NoRide == [alive |-> TRUE, on |-> FALSE, column |-> "off", y |-> 0, under |-> 0]
Killed == [NoRide EXCEPT !.alive = FALSE]

ElevatorsInit == /\ active = [p \in Platforms |-> TRUE]
                 /\ side = StartSide
                 /\ row = StartRow
                 /\ spawnTimer = SpawnDelay
                 /\ odd = FALSE
                 /\ mario = NoRide

-----------------------------------------------------------------------------
(* L_MOVE_ELEVATORS: all platforms a pixel further; one that reaches the   *)
(* top changes column, one that reaches the bottom becomes free.           *)

NextRow(p) == IF ~active[p] THEN row[p]
              ELSE IF side[p] = "up" THEN row[p] - 1 ELSE row[p] + 1
ReachesTop(p)    == active[p] /\ side[p] = "up" /\ NextRow(p) = Shaft.top
ReachesBottom(p) == active[p] /\ side[p] = "down" /\ NextRow(p) = Shaft.bottom

MovedRow    == [p \in Platforms |-> NextRow(p)]
MovedSide   == [p \in Platforms |-> IF ReachesTop(p) THEN "down" ELSE side[p]]
MovedActive == [p \in Platforms |-> active[p] /\ ~ReachesBottom(p)]

(* L_SPAWN_NEW_ELEVATOR, after the move: with the timer at 0 the first     *)
(* free structure starts at the bottom of the left column; if none is      *)
(* free the timer stays 0 and the routine tries again on the next move.    *)

(* Faulty variant: due a move early. *)
SpawnDueEarly == spawnTimer <= 1
SpawnDue == spawnTimer = 0

(* Faulty variant: the search leaves out the last structure. *)
FreeAfterMoveButLast ==
  {p \in Platforms : ~MovedActive[p] /\ \E q \in Platforms : p < q}
FreeAfterMove == {p \in Platforms : ~MovedActive[p]}

Spawned == IF SpawnDue THEN {p \in FreeAfterMove : \A q \in FreeAfterMove : p <= q}
                       ELSE {}

MoveElevators ==
  /\ row'    = [p \in Platforms |-> IF p \in Spawned THEN Shaft.bottom ELSE MovedRow[p]]
  /\ side'   = [p \in Platforms |-> IF p \in Spawned THEN "up" ELSE MovedSide[p]]
  /\ active' = [p \in Platforms |-> p \in Spawned \/ MovedActive[p]]
  /\ spawnTimer' = IF ~SpawnDue THEN spawnTimer - 1
                   ELSE IF Spawned # {} THEN SpawnDelay - 1 ELSE 0

-----------------------------------------------------------------------------
(* What Mario does before the elevators in the same frame (l1ac3): he goes *)
(* on as he is; lands on a platform (l29d0 puts him 12 pixels above it) or *)
(* falls past them all; jumps off (l1b6e); or walks beyond the edges of    *)
(* the column.                                                             *)

Landed(p) == [alive |-> TRUE, on |-> TRUE, column |-> side[p],
              y |-> row[p] - 12, under |-> p]

MarioMoves ==
  {mario} \cup IF mario.on THEN {NoRide, [mario EXCEPT !.column = "off"]}
               ELSE {Landed(p) : p \in {q \in Platforms : active[q]}}
                    \cup {[NoRide EXCEPT !.y = 240]}

(* L_MOVE_MARIO_ON_ELEVATORS.  Beside the columns he falls (l2766); at the *)
(* ends of a column he is killed (l277f).                                  *)
DiesAbove(y) == y < 113
DiesBelow(y) == y >= 232

Carried(m) ==
  IF ~m.on THEN m
  ELSE IF m.column = "off" THEN NoRide
  ELSE IF m.column = "up"
       THEN IF DiesAbove(m.y) THEN Killed ELSE [m EXCEPT !.y = @ - 1]
       ELSE IF DiesBelow(m.y) THEN Killed ELSE [m EXCEPT !.y = @ + 1]

(* Faulty variant: he is carried in every frame. *)
RideAlways(m) == Carried(m)

(* He is carried on even values of COUNTER_2.                              *)
RideOnEven(m) == IF odd THEN m ELSE Carried(m)

(* L_IMPLEMENT_ELEVATORS in a frame of L_RUN_GAME.  A Mario at the bottom  *)
(* of the screen is killed before anything moves.                          *)

RunElevators ==
  /\ mario.alive
  /\ odd' = ~odd
  /\ \E m \in MarioMoves :
       \/ /\ m.y >= 240
          /\ mario' = Killed
          /\ UNCHANGED <<platformVars, spawnTimer>>
       \/ /\ m.y < 240
          /\ mario' = RideOnEven(m)
          /\ IF odd THEN MoveElevators
                    ELSE UNCHANGED <<platformVars, spawnTimer>>

(* A death leads to a new start of the stage (L_INIT_CURRENT_STAGE loads   *)
(* all its data again), where COUNTER_2 is wherever it is.                 *)
RestartElevators ==
  /\ ~mario.alive
  /\ active' = [p \in Platforms |-> TRUE]
  /\ side' = StartSide
  /\ row' = StartRow
  /\ spawnTimer' = SpawnDelay
  /\ odd' \in BOOLEAN
  /\ mario' = NoRide

ElevatorsNext == RunElevators \/ RestartElevators

ElevatorsSpec == ElevatorsInit /\ [][ElevatorsNext]_elevatorVars

-----------------------------------------------------------------------------
(* The platforms of both columns keep at least SpawnDelay pixels of travel *)
(* between each other: structures used again and the change of column      *)
(* (l27a0, l27f4) never bring two together.                                *)
EvenlySpaced ==
  \A p, q \in Platforms :
    (active[p] /\ active[q] /\ p # q) =>
      \/ Trip(p) >= Trip(q) + SpawnDelay
      \/ Trip(q) >= Trip(p) + SpawnDelay

(* When the spawn timer has run down a platform starts with the very next  *)
(* move: one structure is always free by then, and the `ret' of a search   *)
(* that finds none (before l27f4) is never taken.                          *)
SpawnsInTime == [][spawnTimer = 0 => spawnTimer' # 0]_platformVars

(* Mario and the platform he stepped on move in different frames and know  *)
(* nothing of each other, yet until he leaves it he stands on it, within a *)
(* pixel: it changes column, becomes free or is used again only when he is *)
(* past the rows at which the next frame of the ride kills him.            *)
Doomed == IF mario.column = "up" THEN DiesAbove(mario.y) ELSE DiesBelow(mario.y)

RidesOnTop ==
  (mario.on /\ mario.column # "off" /\ ~Doomed) =>
    LET p == mario.under IN
    /\ active[p]
    /\ side[p] = mario.column
    /\ row[p] - mario.y \in 11 .. 13
=============================================================================
