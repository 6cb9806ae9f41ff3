-------------------------- MODULE MachineryProofs --------------------------
(***************************************************************************)
(* The moving parts of the stages: the spacing of the platforms and who    *)
(* rides on them, for any number of them, any length of the columns and    *)
(* any delay; the way of the secret elevators and the bars of the cage,    *)
(* for any length of the sides and any triggers; a retracting ladder and   *)
(* who climbs it, for any waits.                                           *)
(***************************************************************************)
EXTENDS Elevators, SecretElevators, RetractingLadder, FiniteSetTheorems,
        WellFoundedInduction, TLAPS

PlatformType ==
  /\ active \in [Platforms -> BOOLEAN]
  /\ side \in [Platforms -> {"up", "down"}]
  /\ row \in [Platforms -> Int]
  /\ spawnTimer \in Nat

(* Why a new platform finds its place: what is left of the delay has been  *)
(* travelled by all others.                                                *)
RoomForNext ==
  \A p \in Platforms : active[p] => Trip(p) + spawnTimer >= SpawnDelay - 1

SpacingInv == PlatformType /\ EvenlySpaced /\ RoomForNext

LEMMA TripIsInt ==
  ASSUME PlatformType, NEW p \in Platforms
  PROVE  Trip(p) \in Int
  BY ShaftAssumption DEF PlatformType, Trip

(* A platform that goes on has come a pixel further, on either side of the *)
(* change of column too.                                                   *)
LEMMA TripGrows ==
  ASSUME PlatformType, MoveElevators, NEW p \in Platforms \ Spawned, active'[p]
  PROVE  active[p] /\ Trip(p)' = Trip(p) + 1
<1>1. active[p] /\ ~ReachesBottom(p)
  BY DEF MoveElevators, MovedActive, PlatformType
<1>2. row'[p] = NextRow(p) /\ side'[p] = (IF ReachesTop(p) THEN "down" ELSE side[p])
  BY DEF MoveElevators, MovedRow, MovedSide, PlatformType
<1>3. row[p] \in Int /\ side[p] \in {"up", "down"} /\ Shaft.top \in Int /\ Shaft.bottom \in Int
  BY ShaftAssumption DEF PlatformType
<1>4. CASE ReachesTop(p)
  <2>1. side[p] = "up" /\ row'[p] = Shaft.top /\ row[p] - 1 = Shaft.top /\ side'[p] = "down"
    BY <1>1, <1>2, <1>4 DEF ReachesTop, NextRow
  <2> QED
    BY <1>1, <1>3, <2>1 DEF Trip
<1>5. CASE ~ReachesTop(p)
  <2>1. side'[p] = side[p] /\ row'[p] = (IF side[p] = "up" THEN row[p] - 1 ELSE row[p] + 1)
    BY <1>1, <1>2, <1>5 DEF NextRow
  <2> QED
    BY <1>1, <1>3, <2>1 DEF Trip
<1> QED
  BY <1>4, <1>5

(* At most one platform starts, and it starts from the bottom. *)
LEMMA SpawnedStarts ==
  ASSUME PlatformType, MoveElevators, NEW p \in Spawned
  PROVE  /\ p \in Platforms /\ spawnTimer = 0
         /\ Trip(p)' = 0
         /\ \A q \in Spawned : q = p
<1>1. p \in Platforms /\ spawnTimer = 0
  BY DEF Spawned, SpawnDue, FreeAfterMove
<1>2. row'[p] = Shaft.bottom /\ side'[p] = "up"
  BY <1>1 DEF MoveElevators
<1>3. Trip(p)' = 0
  BY <1>2, ShaftAssumption DEF Trip
<1>4. \A q \in Spawned : q = p
  <2> SUFFICES ASSUME NEW q \in Spawned PROVE q = p
    OBVIOUS
  <2>1. p <= q /\ q <= p /\ q \in Platforms
    BY DEF Spawned, FreeAfterMove
  <2>2. p \in Nat /\ q \in Nat
    BY <1>1, <2>1, PlatformsAssumption
  <2> QED
    BY <2>1, <2>2
<1> QED
  BY <1>1, <1>3, <1>4

LEMMA MoveKeepsSpacing == SpacingInv /\ MoveElevators => SpacingInv'
<1> SUFFICES ASSUME SpacingInv, MoveElevators PROVE SpacingInv'
  OBVIOUS
<1>1. PlatformType /\ SpawnDelay \in Nat /\ SpawnDelay > 0
  BY DelayAssumption DEF SpacingInv
<1>2. PlatformType'
  <2>1. \A p \in Platforms : NextRow(p) \in Int
    BY <1>1 DEF PlatformType, NextRow
  <2>2. row' \in [Platforms -> Int]
    BY <2>1, ShaftAssumption DEF MoveElevators, MovedRow
  <2>3. side' \in [Platforms -> {"up", "down"}]
    BY <1>1 DEF PlatformType, MoveElevators, MovedSide
  <2>4. active' \in [Platforms -> BOOLEAN]
    BY <1>1 DEF PlatformType, MoveElevators, MovedActive
  <2>5. spawnTimer' \in Nat
    BY <1>1 DEF PlatformType, MoveElevators, SpawnDue
  <2> QED
    BY <2>2, <2>3, <2>4, <2>5 DEF PlatformType
<1>3. ASSUME NEW p \in Platforms, active'[p], p \notin Spawned
      PROVE  /\ active[p] /\ Trip(p) \in Int /\ Trip(p)' = Trip(p) + 1
             /\ Trip(p) + spawnTimer >= SpawnDelay - 1
  <2>1. active[p] /\ Trip(p)' = Trip(p) + 1
    BY <1>1, <1>3, TripGrows
  <2> QED
    BY <1>1, <2>1, TripIsInt DEF SpacingInv, RoomForNext
<1>4. RoomForNext'
  <2> SUFFICES ASSUME NEW p \in Platforms, active'[p]
               PROVE  Trip(p)' + spawnTimer' >= SpawnDelay - 1
    BY DEF RoomForNext
  <2>1. CASE p \in Spawned
    <3>1. Trip(p)' = 0 /\ SpawnDue /\ Spawned # {}
      BY <1>1, <2>1, SpawnedStarts DEF SpawnDue
    <3>2. spawnTimer' = SpawnDelay - 1
      BY <3>1 DEF MoveElevators
    <3> QED
      BY <1>1, <3>1, <3>2
  <2>2. CASE p \notin Spawned
    <3>1. /\ Trip(p) \in Int /\ Trip(p)' = Trip(p) + 1
          /\ Trip(p) + spawnTimer >= SpawnDelay - 1
      BY <1>3, <2>2
    <3>2. spawnTimer' >= spawnTimer - 1 /\ spawnTimer' \in Nat /\ spawnTimer \in Nat
      BY <1>1, <1>2 DEF MoveElevators, SpawnDue, PlatformType
    <3> QED
      BY <1>1, <3>1, <3>2
  <2> QED
    BY <2>1, <2>2
<1>5. EvenlySpaced'
  <2> SUFFICES ASSUME NEW p \in Platforms, NEW q \in Platforms,
                      active'[p], active'[q], p # q
               PROVE  \/ Trip(p)' >= Trip(q)' + SpawnDelay
                      \/ Trip(q)' >= Trip(p)' + SpawnDelay
    BY DEF EvenlySpaced
  <2>1. CASE p \in Spawned
    <3>1. q \notin Spawned /\ Trip(p)' = 0 /\ spawnTimer = 0
      BY <1>1, <2>1, SpawnedStarts
    <3> QED
      BY <1>1, <1>3, <3>1
  <2>2. CASE q \in Spawned
    <3>1. p \notin Spawned /\ Trip(q)' = 0 /\ spawnTimer = 0
      BY <1>1, <2>2, SpawnedStarts
    <3> QED
      BY <1>1, <1>3, <3>1
  <2>3. CASE p \notin Spawned /\ q \notin Spawned
    <3>1. /\ active[p] /\ Trip(p) \in Int /\ Trip(p)' = Trip(p) + 1
          /\ active[q] /\ Trip(q) \in Int /\ Trip(q)' = Trip(q) + 1
      BY <1>3, <2>3
    <3>2. Trip(p) >= Trip(q) + SpawnDelay \/ Trip(q) >= Trip(p) + SpawnDelay
      BY <3>1 DEF SpacingInv, EvenlySpaced
    <3> QED
      BY <1>1, <3>1, <3>2
  <2> QED
    BY <2>1, <2>2, <2>3
<1> QED
  BY <1>2, <1>4, <1>5 DEF SpacingInv

(* The platforms of L_ELEVATOR_COORDS. *)
LEMMA StartSpacing ==
  ASSUME active = [p \in Platforms |-> TRUE], side = StartSide, row = StartRow,
         spawnTimer = SpawnDelay
  PROVE  SpacingInv
<1>1. PlatformType
  <2>1. Shaft.top \in Int /\ Shaft.bottom \in Int
    BY ShaftAssumption
  <2>2. row \in [Platforms -> Int]
    BY <2>1, StartAssumption
  <2> QED
    BY <2>2, StartAssumption, DelayAssumption DEF PlatformType
<1>2. \A p \in Platforms : Trip(p) = StartTrip(p)
  BY DEF Trip, StartTrip
<1>3. EvenlySpaced
  BY <1>2, StartApart DEF EvenlySpaced
<1>4. RoomForNext
  <2> SUFFICES ASSUME NEW p \in Platforms PROVE Trip(p) + spawnTimer >= SpawnDelay - 1
    BY DEF RoomForNext
  <2>1. /\ Shaft.top \in Nat /\ Shaft.bottom \in Nat
        /\ row[p] \in Shaft.top + 1 .. Shaft.bottom - 1
    BY ShaftAssumption, StartAssumption
  <2>2. Trip(p) \in Int /\ Trip(p) >= 0
    BY <2>1, ShaftAssumption DEF Trip
  <2> QED
    BY <2>2, DelayAssumption
<1> QED
  BY <1>1, <1>3, <1>4 DEF SpacingInv

(* The same after L_INIT_CURRENT_STAGE. *)
LEMMA RestartSpacing ==
  ASSUME active' = [p \in Platforms |-> TRUE], side' = StartSide, row' = StartRow,
         spawnTimer' = SpawnDelay
  PROVE  SpacingInv'
<1>1. PlatformType'
  <2>1. Shaft.top \in Int /\ Shaft.bottom \in Int
    BY ShaftAssumption
  <2>2. row' \in [Platforms -> Int]
    BY <2>1, StartAssumption
  <2> QED
    BY <2>2, StartAssumption, DelayAssumption DEF PlatformType
<1>2. \A p \in Platforms : Trip(p)' = StartTrip(p)
  BY DEF Trip, StartTrip
<1>3. EvenlySpaced'
  BY <1>2, StartApart DEF EvenlySpaced
<1>4. RoomForNext'
  <2> SUFFICES ASSUME NEW p \in Platforms PROVE Trip(p)' + spawnTimer' >= SpawnDelay - 1
    BY DEF RoomForNext
  <2>1. /\ Shaft.top \in Nat /\ Shaft.bottom \in Nat
        /\ row'[p] \in Shaft.top + 1 .. Shaft.bottom - 1
    BY ShaftAssumption, StartAssumption
  <2>2. Trip(p)' \in Int /\ Trip(p)' >= 0
    BY <2>1, ShaftAssumption DEF Trip
  <2> QED
    BY <2>2, DelayAssumption
<1> QED
  BY <1>1, <1>3, <1>4 DEF SpacingInv

(* The inductive invariant of the two columns. *)
THEOREM SpacingInvHolds == ElevatorsSpec => []SpacingInv
<1>1. ElevatorsInit => SpacingInv
  BY StartSpacing DEF ElevatorsInit
<1>2. SpacingInv /\ [ElevatorsNext]_elevatorVars => SpacingInv'
  <2> SUFFICES ASSUME SpacingInv, [ElevatorsNext]_elevatorVars PROVE SpacingInv'
    OBVIOUS
  <2>1. CASE MoveElevators
    BY <2>1, MoveKeepsSpacing
  <2>2. CASE UNCHANGED <<platformVars, spawnTimer>>
    BY <2>2 DEF platformVars, SpacingInv, PlatformType, EvenlySpaced, RoomForNext, Trip
  <2>3. CASE RunElevators
    BY <2>1, <2>2, <2>3 DEF RunElevators
  <2>4. CASE RestartElevators
    BY <2>4, RestartSpacing DEF RestartElevators
  <2>5. CASE UNCHANGED elevatorVars
    BY <2>2, <2>5 DEF elevatorVars
  <2> QED
    BY <2>3, <2>4, <2>5 DEF ElevatorsNext
<1> QED
  BY <1>1, <1>2, PTL DEF ElevatorsSpec

(* However often a structure is used again, no two platforms of the two    *)
(* columns come closer than the delay of L_SPAWN_NEW_ELEVATOR.             *)
THEOREM PlatformsAlwaysSpaced == ElevatorsSpec => []EvenlySpaced
<1>1. SpacingInv => EvenlySpaced
  BY DEF SpacingInv
<1> QED
  BY <1>1, SpacingInvHolds, PTL

-----------------------------------------------------------------------------
(***************************************************************************)
(* Why L_SPAWN_NEW_ELEVATOR always finds a free structure: were all in     *)
(* use when a platform is due, they would lie a delay apart on a way that  *)
(* is too short for them.                                                  *)
(***************************************************************************)
InShaft ==
  \A p \in Platforms : active[p] =>
    /\ row[p] \in Shaft.top .. Shaft.bottom
    /\ side[p] = "up" => row[p] > Shaft.top
    /\ side[p] = "down" => row[p] < Shaft.bottom

LEMMA MoveStaysInShaft ==
  ASSUME PlatformType, InShaft, MoveElevators
  PROVE  InShaft'
<1> SUFFICES ASSUME NEW p \in Platforms, active'[p]
             PROVE  /\ row'[p] \in Shaft.top .. Shaft.bottom
                    /\ side'[p] = "up" => row'[p] > Shaft.top
                    /\ side'[p] = "down" => row'[p] < Shaft.bottom
  BY DEF InShaft
<1>1. Shaft.top \in Nat /\ Shaft.bottom \in Nat /\ Shaft.top < Shaft.bottom
  BY ShaftAssumption
<1>2. CASE p \in Spawned
  <2>1. row'[p] = Shaft.bottom /\ side'[p] = "up"
    BY <1>2 DEF MoveElevators
  <2> QED BY <1>1, <2>1
<1>3. CASE p \notin Spawned
  <2>1. active[p] /\ ~ReachesBottom(p)
    BY <1>3 DEF MoveElevators, MovedActive, PlatformType
  <2>2. row'[p] = NextRow(p) /\ side'[p] = (IF ReachesTop(p) THEN "down" ELSE side[p])
    BY <1>3 DEF MoveElevators, MovedRow, MovedSide, PlatformType
  <2>3. /\ row[p] \in Shaft.top .. Shaft.bottom /\ side[p] \in {"up", "down"}
        /\ side[p] = "up" => row[p] > Shaft.top
        /\ side[p] = "down" => row[p] < Shaft.bottom
    BY <2>1 DEF InShaft, PlatformType
  <2>4. CASE side[p] = "up"
    BY <1>1, <2>1, <2>2, <2>3, <2>4 DEF NextRow, ReachesTop
  <2>5. CASE side[p] = "down"
    BY <1>1, <2>1, <2>2, <2>3, <2>5 DEF NextRow, ReachesTop, ReachesBottom
  <2> QED BY <2>3, <2>4, <2>5
<1> QED BY <1>2, <1>3

ShaftInv == SpacingInv /\ InShaft

(* The inductive invariant of the platforms and their columns. *)
THEOREM ShaftInvHolds == ElevatorsSpec => []ShaftInv
<1>1. ElevatorsInit => InShaft
  BY ShaftAssumption, StartAssumption DEF ElevatorsInit, InShaft
<1>2. SpacingInv /\ InShaft /\ [ElevatorsNext]_elevatorVars => InShaft'
  <2> SUFFICES ASSUME SpacingInv, InShaft, [ElevatorsNext]_elevatorVars PROVE InShaft'
    OBVIOUS
  <2>1. CASE MoveElevators
    BY <2>1, MoveStaysInShaft DEF SpacingInv
  <2>2. CASE UNCHANGED platformVars
    BY <2>2 DEF platformVars, InShaft
  <2>3. CASE RunElevators
    BY <2>1, <2>2, <2>3 DEF RunElevators
  <2>4. CASE RestartElevators
    BY <2>4, ShaftAssumption, StartAssumption DEF RestartElevators, InShaft
  <2>5. CASE UNCHANGED elevatorVars
    BY <2>2, <2>5 DEF elevatorVars
  <2> QED BY <2>3, <2>4, <2>5 DEF ElevatorsNext
<1> QED BY <1>1, <1>2, SpacingInvHolds, PTL DEF ElevatorsSpec, ShaftInv

(* Whole delays in a distance. *)
LEMMA Delays ==
  ASSUME NEW x \in Nat, NEW d \in Nat \ {0}
  PROVE  x \div d \in Nat /\ d * (x \div d) <= x /\ x < d * (x \div d) + d
  BY SMT

LEMMA MoreDelays ==
  ASSUME NEW a \in Nat, NEW b \in Nat, NEW d \in Nat, a <= b
  PROVE  d * a <= d * b
  BY SMT

LEMMA DelaysApart ==
  ASSUME NEW x \in Nat, NEW y \in Nat, NEW d \in Nat \ {0}, x >= y + d
  PROVE  x \div d # y \div d
<1> DEFINE k == x \div d
           l == y \div d
<1>1. /\ k \in Nat /\ d * k <= x /\ x < d * k + d
      /\ l \in Nat /\ d * l <= y /\ y < d * l + d
  BY Delays
<1> HIDE DEF k, l
<1>2. ASSUME k = l PROVE FALSE
  BY <1>1, <1>2
<1> QED BY <1>2 DEF k, l

(* When a platform is due, one structure is free. *)
LEMMA OneIsFree ==
  ASSUME ShaftInv, spawnTimer = 0
  PROVE  FreeAfterMove # {}
<1> SUFFICES ASSUME \A p \in Platforms : MovedActive[p] PROVE FALSE
  BY DEF FreeAfterMove
<1> DEFINE length == 2 * (Shaft.bottom - Shaft.top)
           place == [p \in Platforms |-> (Trip(p) + 1) \div SpawnDelay]
           n == Cardinality(Platforms)
<1>1. /\ SpawnDelay \in Nat \ {0} /\ IsFiniteSet(Platforms) /\ n \in Nat
      /\ SpawnDelay * n >= length /\ length \in Int
  BY DelayAssumption, EnoughPlatforms, FS_CardinalityType, ShaftAssumption
<1>2. ASSUME NEW p \in Platforms
      PROVE  active[p] /\ Trip(p) + 1 \in SpawnDelay .. length - 1
  <2>1. active[p] /\ ~ReachesBottom(p)
    BY DEF MovedActive
  <2>2. Trip(p) >= SpawnDelay - 1 /\ Trip(p) \in Int
    BY <1>1, <2>1, TripIsInt DEF ShaftInv, SpacingInv, RoomForNext
  <2>3. /\ row[p] \in Shaft.top .. Shaft.bottom /\ side[p] \in {"up", "down"}
        /\ side[p] = "up" => row[p] > Shaft.top
        /\ side[p] = "down" => row[p] < Shaft.bottom - 1
    BY <2>1, ShaftAssumption DEF ShaftInv, SpacingInv, PlatformType, InShaft, ReachesBottom, NextRow
  <2>4. Trip(p) + 1 <= length - 1
    BY <2>3, ShaftAssumption DEF Trip
  <2> QED BY <1>1, <2>1, <2>2, <2>4
<1>3. ASSUME NEW p \in Platforms PROVE place[p] \in 1 .. n - 1
  <2> DEFINE k == (Trip(p) + 1) \div SpawnDelay
  <2>1. /\ Trip(p) + 1 \in Nat /\ Trip(p) + 1 >= SpawnDelay /\ Trip(p) + 1 < length
    BY <1>1, <1>2
  <2>2. /\ k \in Nat /\ SpawnDelay * k <= Trip(p) + 1
        /\ Trip(p) + 1 < SpawnDelay * k + SpawnDelay
    BY <1>1, <2>1, Delays
  <2> HIDE DEF k
  <2>3. k # 0
    BY <1>1, <2>1, <2>2
  <2>4. k < n
    <3> SUFFICES ASSUME n <= k PROVE FALSE
      BY <1>1, <2>2
    <3>1. SpawnDelay * n <= SpawnDelay * k
      BY <1>1, <2>2, MoreDelays
    <3> HIDE DEF n, length
    <3> QED BY <1>1, <2>1, <2>2, <3>1
  <2>5. place[p] = k
    BY DEF k
  <2> HIDE DEF place, n
  <2> QED BY <1>1, <2>2, <2>3, <2>4, <2>5
<1>4. ASSUME NEW p \in Platforms, NEW q \in Platforms, p # q PROVE place[p] # place[q]
  <2>1. Trip(p) + 1 \in Nat /\ Trip(q) + 1 \in Nat /\ Trip(p) \in Int /\ Trip(q) \in Int
    BY <1>1, <1>2, TripIsInt DEF ShaftInv, SpacingInv
  <2>2. Trip(p) >= Trip(q) + SpawnDelay \/ Trip(q) >= Trip(p) + SpawnDelay
    BY <1>2, <1>4 DEF ShaftInv, SpacingInv, EvenlySpaced
  <2>3. CASE Trip(p) >= Trip(q) + SpawnDelay
    <3>1. Trip(p) + 1 >= (Trip(q) + 1) + SpawnDelay
      BY <1>1, <2>1, <2>3
    <3> QED BY <1>1, <2>1, <3>1, DelaysApart
  <2>4. CASE Trip(q) >= Trip(p) + SpawnDelay
    <3>1. Trip(q) + 1 >= (Trip(p) + 1) + SpawnDelay
      BY <1>1, <2>1, <2>4
    <3> QED BY <1>1, <2>1, <3>1, DelaysApart
  <2> QED BY <2>2, <2>3, <2>4
<1>5. place \in [Platforms -> 1 .. n - 1]
  BY <1>3
<1>6. IsFiniteSet(1 .. n - 1) /\ Cardinality(1 .. n - 1) < n
  <2>1. n # 0
    <3>1. 1 <= length
      BY ShaftAssumption
    <3> HIDE DEF n, length
    <3> QED BY <1>1, <3>1
  <2> HIDE DEF n
  <2>2. 1 \in Int /\ n - 1 \in Int /\ n >= 1
    BY <1>1, <2>1
  <2>3. IsFiniteSet(1 .. n - 1) /\ Cardinality(1 .. n - 1) = IF 1 > n - 1 THEN 0 ELSE (n - 1) - 1 + 1
    BY <2>2, FS_Interval
  <2> QED BY <1>1, <2>2, <2>3
<1> HIDE DEF place
<1> QED BY <1>1, <1>4, <1>5, <1>6, FS_PigeonHole

(* Of the free structures one is the first. *)
LEMMA FirstOfFree ==
  ASSUME NEW F \in SUBSET Nat, F # {}
  PROVE  \E p \in F : \A q \in F : p <= q
<1> DEFINE R == OpToRel(<, Nat)
<1>1. IsWellFoundedOn(R, Nat)
  BY NatLessThanWellFounded
<1>2. \A m, n \in Nat : m < n => <<m, n>> \in R
  BY DEF OpToRel
<1> HIDE DEF R
<1>3. PICK p \in F : \A q \in F : ~(<<q, p>> \in R)
  BY <1>1, WFMin
<1>4. \A q \in F : ~(q < p)
  BY <1>2, <1>3
<1>5. ASSUME NEW q \in F PROVE p <= q
  BY <1>4
<1> QED BY <1>5

(* A platform that is due starts with the very next move: the search of    *)
(* L_SPAWN_NEW_ELEVATOR never comes back empty-handed.                     *)
THEOREM AlwaysSpawnsInTime == ElevatorsSpec => SpawnsInTime
<1>1. ShaftInv /\ [ElevatorsNext]_elevatorVars => [spawnTimer = 0 => spawnTimer' # 0]_platformVars
  <2> SUFFICES ASSUME ShaftInv, [ElevatorsNext]_elevatorVars, spawnTimer = 0
               PROVE  spawnTimer' # 0 \/ UNCHANGED platformVars
    OBVIOUS
  <2>1. ASSUME MoveElevators PROVE spawnTimer' # 0
    <3>1. FreeAfterMove # {} /\ FreeAfterMove \in SUBSET Nat
      BY OneIsFree, PlatformsAssumption DEF FreeAfterMove
    <3>2. Spawned # {}
      BY <3>1, FirstOfFree DEF Spawned, SpawnDue
    <3>3. spawnTimer' = SpawnDelay - 1
      BY <2>1, <3>2 DEF MoveElevators, SpawnDue
    <3> QED BY <3>3, EnoughPlatforms, DelayAssumption
  <2>2. CASE RunElevators
    BY <2>1, <2>2 DEF RunElevators
  <2>3. CASE RestartElevators
    BY <2>3, DelayAssumption DEF RestartElevators
  <2> QED BY <2>2, <2>3 DEF ElevatorsNext, elevatorVars
<1> QED BY <1>1, ShaftInvHolds, PTL DEF ElevatorsSpec, SpawnsInTime

-----------------------------------------------------------------------------
(***************************************************************************)
(* Mario's ride.  A platform moves in the frames in which Mario does not;  *)
(* whether it is ahead of him or behind depends on the column and on whose *)
(* turn is next.                                                           *)
(***************************************************************************)
Riders == [alive : BOOLEAN, on : BOOLEAN, column : {"up", "down", "off"}, y : Int, under : Nat]

MarioType == mario \in Riders /\ odd \in BOOLEAN

(* The distance from his row to the platform's, by whose turn it is. *)
InStep(m, turn, r) == r - m.y \in (IF (m.column = "up") = turn THEN {12, 13} ELSE {11, 12})

Rides(m) == /\ m.on /\ m.column # "off"
            /\ ~(IF m.column = "up" THEN DiesAbove(m.y) ELSE DiesBelow(m.y))

OnPlatform(m, turn) ==
  Rides(m) => LET p == m.under IN
              /\ p \in Platforms /\ active[p]
              /\ side[p] = m.column
              /\ InStep(m, turn, row[p])

RideInv == MarioType /\ OnPlatform(mario, odd)

LEMMA NoRider ==
  \A m \in {NoRide, Killed} : m \in Riders /\ ~m.on /\ m.column = "off"
<1>1. NoRide \in Riders /\ ~NoRide.on /\ NoRide.column = "off"
  BY DEF NoRide, Riders
<1>2. Killed \in Riders /\ ~Killed.on /\ Killed.column = "off"
  <2>1. \A r \in Riders : /\ [r EXCEPT !.alive = FALSE] \in Riders
                         /\ [r EXCEPT !.alive = FALSE].on = r.on
                         /\ [r EXCEPT !.alive = FALSE].column = r.column
    BY DEF Riders
  <2> QED BY <1>1, <2>1 DEF Killed
<1> QED BY <1>1, <1>2

LEMMA MarioMovesType ==
  ASSUME PlatformType, MarioType, NEW m \in MarioMoves
  PROVE  m \in Riders
<1>1. CASE m = mario \/ m = NoRide
  BY <1>1, NoRider DEF MarioType
<1>2. CASE m = [mario EXCEPT !.column = "off"]
  BY <1>2 DEF MarioType, Riders
<1>3. CASE m = [NoRide EXCEPT !.y = 240]
  <2>1. m = [alive |-> TRUE, on |-> FALSE, column |-> "off", y |-> 240, under |-> 0]
    BY <1>3 DEF NoRide
  <2> QED BY <2>1 DEF Riders
<1>4. ASSUME NEW p \in Platforms, m = Landed(p) PROVE m \in Riders
  <2>1. /\ side[p] \in {"up", "down", "off"} /\ row[p] - 12 \in Int /\ p \in Nat
        /\ m = [alive |-> TRUE, on |-> TRUE, column |-> side[p], y |-> row[p] - 12, under |-> p]
    BY <1>4, PlatformsAssumption DEF PlatformType, Landed
  <2> QED BY <2>1 DEF Riders
<1> QED BY <1>1, <1>2, <1>3, <1>4 DEF MarioMoves

(* What Mario does first leaves him where he was, or on a platform, or off. *)
LEMMA MarioMovesRide ==
  ASSUME PlatformType, RideInv, NEW m \in MarioMoves
  PROVE  OnPlatform(m, odd)
<1>1. CASE m = mario
  BY <1>1 DEF RideInv
<1>2. CASE m = NoRide \/ m = [mario EXCEPT !.column = "off"] \/ m = [NoRide EXCEPT !.y = 240]
  <2>1. ~Rides(m)
    BY <1>2, NoRider DEF Rides, NoRide, RideInv, MarioType, Riders
  <2> QED BY <2>1 DEF OnPlatform
<1>3. ASSUME NEW p \in Platforms, active[p], m = Landed(p) PROVE OnPlatform(m, odd)
  <2>1. m.under = p /\ m.column = side[p] /\ m.y = row[p] - 12 /\ row[p] \in Int
    BY <1>3 DEF Landed, PlatformType
  <2>2. row[p] - m.y = 12
    BY <2>1
  <2> QED BY <1>3, <2>1, <2>2 DEF OnPlatform, InStep
<1> QED BY <1>1, <1>2, <1>3 DEF MarioMoves

(* A frame in which Mario is carried. *)
LEMMA CarriedRide ==
  ASSUME PlatformType, MarioType, ~odd, NEW m \in MarioMoves, OnPlatform(m, FALSE)
  PROVE  /\ OnPlatform(Carried(m), TRUE)
         /\ Carried(m) \in Riders
<1>1. m \in Riders
  BY MarioMovesType
<1>2. CASE ~m.on
  BY <1>1, <1>2 DEF Carried, OnPlatform, Rides
<1>3. CASE m.on /\ ~Rides(m)
  <2>1. Carried(m) \in {NoRide, Killed}
    BY <1>1, <1>3 DEF Carried, Rides, Riders
  <2> QED BY <2>1, NoRider DEF OnPlatform, Rides
<1>4. CASE Rides(m)
  <2> DEFINE p == m.under
             dy == IF m.column = "up" THEN -1 ELSE 1
  <2>1. /\ p \in Platforms /\ active[p] /\ side[p] = m.column /\ row[p] \in Int
        /\ row[p] - m.y \in IF m.column = "up" THEN {11, 12} ELSE {12, 13}
    BY <1>1, <1>4 DEF OnPlatform, InStep, PlatformType, Riders
  <2>2. Carried(m) = [m EXCEPT !.y = m.y + dy]
    BY <1>1, <1>4 DEF Carried, Rides, Riders
  <2>3. /\ Carried(m).under = p /\ Carried(m).column = m.column /\ Carried(m).y = m.y + dy
        /\ Carried(m) \in Riders
    BY <1>1, <2>2 DEF Riders
  <2>4. row[p] - (m.y + dy) \in IF m.column = "up" THEN {12, 13} ELSE {11, 12}
    BY <1>1, <2>1 DEF Riders
  <2>5. InStep(Carried(m), TRUE, row[p])
    BY <2>3, <2>4 DEF InStep
  <2> QED BY <2>1, <2>3, <2>5 DEF OnPlatform
<1> QED BY <1>2, <1>3, <1>4 DEF Rides

(* A frame in which the platforms move: the one under him goes on in its   *)
(* column, for the ends are beyond the deadly rows.                        *)
LEMMA MovedRide ==
  ASSUME PlatformType, MoveElevators, OnPlatform(mario', TRUE), MarioType', odd' = FALSE
  PROVE  OnPlatform(mario, odd)'
<1> DEFINE m == mario'
           p == m.under
<1> SUFFICES ASSUME Rides(m)
             PROVE  /\ p \in Platforms /\ active'[p] /\ side'[p] = m.column
                    /\ InStep(m, FALSE, row'[p])
  BY DEF OnPlatform, Rides, InStep
<1>1. /\ p \in Platforms /\ active[p] /\ side[p] = m.column /\ row[p] \in Int /\ m.y \in Int
      /\ row[p] - m.y \in IF m.column = "up" THEN {12, 13} ELSE {11, 12}
      /\ side[p] \in {"up", "down"}
  BY DEF OnPlatform, InStep, PlatformType, MarioType, Riders
<1>2. /\ m.column = "up" => m.y >= 113
      /\ m.column = "down" => m.y < 232
  BY <1>1 DEF Rides, DiesAbove, DiesBelow
<1>3. ~ReachesTop(p) /\ ~ReachesBottom(p)
  BY <1>1, <1>2, DeadlyEnds, ShaftAssumption DEF ReachesTop, ReachesBottom, NextRow
<1>4. p \notin Spawned
  BY <1>1, <1>3 DEF Spawned, FreeAfterMove, MovedActive
<1>5. /\ active'[p] /\ side'[p] = side[p]
      /\ row'[p] = IF side[p] = "up" THEN row[p] - 1 ELSE row[p] + 1
  BY <1>1, <1>3, <1>4 DEF MoveElevators, MovedActive, MovedSide, MovedRow, NextRow
<1>6. row'[p] - m.y \in IF m.column = "up" THEN {11, 12} ELSE {12, 13}
  BY <1>1, <1>5
<1> QED BY <1>1, <1>5, <1>6 DEF InStep

LEMMA RideStep ==
  ASSUME PlatformType, RideInv, [ElevatorsNext]_elevatorVars
  PROVE  RideInv'
<1>1. ASSUME NEW m \in MarioMoves, mario' = RideOnEven(m), odd' = ~odd,
             IF odd THEN MoveElevators ELSE UNCHANGED <<platformVars, spawnTimer>>
      PROVE  RideInv'
  <2>1. OnPlatform(m, odd) /\ MarioType
    BY <1>1, MarioMovesRide DEF RideInv
  <2>2. m \in Riders
    BY <2>1, MarioMovesType
  <2>3. CASE odd
    <3>1. mario' = m /\ MarioType' /\ odd' = FALSE /\ odd = TRUE
      BY <1>1, <2>1, <2>2, <2>3 DEF RideOnEven, MarioType
    <3>2. OnPlatform(mario', TRUE)
      BY <2>1, <3>1
    <3>3. OnPlatform(mario, odd)'
      BY <1>1, <2>3, <3>1, <3>2, MovedRide
    <3> QED BY <3>1, <3>3 DEF RideInv
  <2>4. CASE ~odd
    <3>1. mario' = Carried(m) /\ odd' = TRUE /\ odd = FALSE /\ UNCHANGED platformVars
      BY <1>1, <2>1, <2>4 DEF RideOnEven, MarioType
    <3>2. OnPlatform(m, FALSE)
      BY <2>1, <3>1
    <3>3. OnPlatform(Carried(m), TRUE) /\ MarioType'
      BY <2>1, <2>4, <3>1, <3>2, CarriedRide DEF MarioType
    <3>4. OnPlatform(mario, odd)'
      BY <3>1, <3>3 DEF OnPlatform, platformVars
    <3> QED BY <3>3, <3>4 DEF RideInv
  <2> QED BY <2>3, <2>4
<1>2. ASSUME mario' \in {NoRide, Killed}, odd' \in BOOLEAN PROVE RideInv'
  <2>1. ~Rides(mario') /\ MarioType'
    BY <1>2, NoRider DEF Rides, MarioType
  <2> QED BY <2>1 DEF RideInv, OnPlatform, Rides
<1>3. CASE RunElevators
  <2>1. odd' = ~odd /\ odd \in BOOLEAN
    BY <1>3 DEF RunElevators, RideInv, MarioType
  <2>2. PICK m \in MarioMoves :
          \/ mario' = Killed
          \/ /\ mario' = RideOnEven(m)
             /\ IF odd THEN MoveElevators ELSE UNCHANGED <<platformVars, spawnTimer>>
    BY <1>3 DEF RunElevators
  <2> QED BY <1>1, <1>2, <2>1, <2>2
<1>4. CASE RestartElevators
  BY <1>2, <1>4 DEF RestartElevators
<1>5. CASE UNCHANGED elevatorVars
  BY <1>5 DEF elevatorVars, platformVars, RideInv, MarioType, OnPlatform
<1> QED BY <1>3, <1>4, <1>5 DEF ElevatorsNext

(* Until he leaves it Mario stands on the platform he stepped on, within a *)
(* pixel, though no code compares the two: for any columns that reach      *)
(* beyond the deadly rows.                                                 *)
THEOREM AlwaysRidesOnTop == ElevatorsSpec => []RidesOnTop
<1>1. ElevatorsInit => RideInv
  <2> SUFFICES ASSUME ElevatorsInit PROVE RideInv
    OBVIOUS
  <2>1. mario = NoRide /\ odd = FALSE
    BY DEF ElevatorsInit
  <2>2. MarioType
    BY <2>1, NoRider DEF MarioType
  <2>3. ~Rides(mario)
    BY <2>1, NoRider DEF Rides
  <2> QED BY <2>2, <2>3 DEF RideInv, OnPlatform
<1>2. SpacingInv => PlatformType
  BY DEF SpacingInv
<1>3. PlatformType /\ RideInv /\ [ElevatorsNext]_elevatorVars => RideInv'
  BY RideStep
<1>4. RideInv => RidesOnTop
  <2> SUFFICES ASSUME RideInv, mario.on, mario.column # "off", ~Doomed
               PROVE  /\ active[mario.under] /\ side[mario.under] = mario.column
                      /\ row[mario.under] - mario.y \in 11 .. 13
    BY DEF RidesOnTop
  <2>1. Rides(mario)
    BY DEF Rides, Doomed
  <2>2. /\ active[mario.under] /\ side[mario.under] = mario.column
        /\ InStep(mario, odd, row[mario.under])
    BY <2>1 DEF RideInv, OnPlatform
  <2>3. row[mario.under] - mario.y \in {11, 12, 13}
    BY <2>2 DEF InStep
  <2> QED BY <2>2, <2>3
<1> QED BY <1>1, <1>2, <1>3, <1>4, SpacingInvHolds, PTL DEF ElevatorsSpec

(***************************************************************************)
(* The secret elevators.  Quadrant, direction and moves say where on the   *)
(* diamond an elevator is: with Along, the pixels from its start.          *)
(***************************************************************************)
AlongX(q, d, m) ==
  IF q = 0 THEN IF d = 1 THEN m ELSE m - QuadrantMoves
  ELSE IF q = 1 THEN IF d = 1 THEN QuadrantMoves - m ELSE -m
  ELSE IF q = 2 THEN IF d = 1 THEN -m ELSE QuadrantMoves - m
  ELSE IF d = 1 THEN m - QuadrantMoves ELSE m

AlongY(q, d, m) ==
  IF q = 0 THEN IF d = 1 THEN m ELSE QuadrantMoves + m
  ELSE IF q = 1 THEN IF d = 1 THEN QuadrantMoves + m ELSE m
  ELSE IF q = 2 THEN IF d = 1 THEN 2 * QuadrantMoves - m ELSE QuadrantMoves - m
  ELSE IF d = 1 THEN QuadrantMoves - m ELSE 2 * QuadrantMoves - m

MotionType == /\ at \in [SecretPair -> [x : Int, y : Int]]
              /\ quad \in {0, 1, 2, 3} /\ dir \in {-1, 1}
              /\ moves \in 0 .. QuadrantMoves - 1
              /\ lost \in [SecretPair -> Nat]

OnTheWay ==
  \A e \in SecretPair : lost[e] = 0 =>
    /\ at[e].x = Start[e].x + AlongX(quad, dir, moves)
    /\ at[e].y = Start[e].y + AlongY(quad, dir, moves)

MotionInv == MotionType /\ OnTheWay

(* The whole way is on the screen. *)
OnScreen(e, q, d, m) == /\ Start[e].x + AlongX(q, d, m) \in 0 .. 255
                        /\ Start[e].y + AlongY(q, d, m) \in 0 .. 255

LEMMA WayOnScreen ==
  ASSUME NEW e \in SecretPair, NEW q \in {0, 1, 2, 3}, NEW d \in {-1, 1},
         NEW m \in 0 .. QuadrantMoves
  PROVE  /\ Start[e].x \in Int /\ Start[e].y \in Int
         /\ AlongX(q, d, m) \in Int /\ AlongY(q, d, m) \in Int
         /\ OnScreen(e, q, d, m)
<1>1. QuadrantMoves \in Nat /\ m \in Nat /\ m <= QuadrantMoves
  BY MovesAssumption
<1>2. /\ Start[e].x \in QuadrantMoves .. 255 - QuadrantMoves
      /\ Start[e].y \in 0 .. 255 - 2 * QuadrantMoves
  BY CoordsAssumption
<1>3. /\ AlongX(q, d, m) \in Int /\ AlongX(q, d, m) >= -QuadrantMoves
      /\ AlongX(q, d, m) <= QuadrantMoves
  BY <1>1 DEF AlongX
<1>4. /\ AlongY(q, d, m) \in Int /\ AlongY(q, d, m) >= 0
      /\ AlongY(q, d, m) <= 2 * QuadrantMoves
  BY <1>1 DEF AlongY
<1>5. \A a \in QuadrantMoves .. 255 - QuadrantMoves, b \in Int :
        -QuadrantMoves <= b /\ b <= QuadrantMoves => a \in Int /\ a + b \in 0 .. 255
  BY <1>1
<1>6. \A a \in 0 .. 255 - 2 * QuadrantMoves, b \in Int :
        0 <= b /\ b <= 2 * QuadrantMoves => a \in Int /\ a + b \in 0 .. 255
  BY <1>1
<1>7. Start[e].x \in Int /\ Start[e].x + AlongX(q, d, m) \in 0 .. 255
  BY <1>2, <1>3, <1>5
<1>8. Start[e].y \in Int /\ Start[e].y + AlongY(q, d, m) \in 0 .. 255
  BY <1>2, <1>4, <1>6
<1> QED
  BY <1>3, <1>4, <1>7, <1>8 DEF OnScreen

(* A move along the quadrant. *)
LEMMA OneMove ==
  ASSUME NEW q \in {0, 1, 2, 3}, NEW d \in {-1, 1}, NEW m \in 0 .. QuadrantMoves - 1
  PROVE  /\ AlongX(q, d, m) + Vector(q).x = AlongX(q, d, m + 1)
         /\ AlongY(q, d, m) + Vector(q).y = AlongY(q, d, m + 1)
<1>1. QuadrantMoves \in Nat /\ m \in Nat
  BY MovesAssumption
<1>2. CASE q = 0
  BY <1>1, <1>2 DEF AlongX, AlongY, Vector
<1>3. CASE q = 1
  BY <1>1, <1>3 DEF AlongX, AlongY, Vector
<1>4. CASE q = 2
  BY <1>1, <1>4 DEF AlongX, AlongY, Vector
<1>5. CASE q = 3
  BY <1>1, <1>5 DEF AlongX, AlongY, Vector
<1> QED
  BY <1>2, <1>3, <1>4, <1>5

(* The end of a quadrant is the beginning of the next, also of the one     *)
(* behind a reversal.                                                      *)
LEMMA CornersMeet ==
  ASSUME MotionType
  PROVE  /\ NextQuad \in {0, 1, 2, 3} /\ NextDir \in {-1, 1}
         /\ AlongX(NextQuad, NextDir, 0) = AlongX(quad, dir, QuadrantMoves)
         /\ AlongY(NextQuad, NextDir, 0) = AlongY(quad, dir, QuadrantMoves)
<1>1. QuadrantMoves \in Nat
  BY MovesAssumption
<1>2. NextDir = (IF reverse THEN -dir ELSE dir) /\ NextDir \in {-1, 1}
  BY DEF MotionType, NextDir
<1>3. CASE quad = 0
  <2>1. NextQuad = IF reverse THEN 2 ELSE IF dir = 1 THEN 1 ELSE 3
    BY <1>2, <1>3 DEF NextQuad, MotionType
  <2> QED
    BY <1>1, <1>2, <1>3, <2>1 DEF AlongX, AlongY, MotionType
<1>4. CASE quad = 1
  <2>1. NextQuad = IF reverse THEN 3 ELSE IF dir = 1 THEN 2 ELSE 0
    BY <1>2, <1>4 DEF NextQuad, MotionType
  <2> QED
    BY <1>1, <1>2, <1>4, <2>1 DEF AlongX, AlongY, MotionType
<1>5. CASE quad = 2
  <2>1. NextQuad = IF reverse THEN 0 ELSE IF dir = 1 THEN 3 ELSE 1
    BY <1>2, <1>5 DEF NextQuad, MotionType
  <2> QED
    BY <1>1, <1>2, <1>5, <2>1 DEF AlongX, AlongY, MotionType
<1>6. CASE quad = 3
  <2>1. NextQuad = IF reverse THEN 1 ELSE IF dir = 1 THEN 0 ELSE 2
    BY <1>2, <1>6 DEF NextQuad, MotionType
  <2> QED
    BY <1>1, <1>2, <1>6, <2>1 DEF AlongX, AlongY, MotionType
<1> QED
  BY <1>2, <1>3, <1>4, <1>5, <1>6 DEF MotionType

LEMMA MotionKept ==
  ASSUME MotionInv, NEW r, NEW off \in BOOLEAN, off => r # 0 /\ Moving,
         MoveSecretElevators(r, off)
  PROVE  MotionInv'
<1>1. /\ MotionType /\ QuadrantMoves \in Nat /\ QuadrantMoves > 0
      /\ moves \in 0 .. QuadrantMoves - 1 /\ quad \in {0, 1, 2, 3} /\ dir \in {-1, 1}
  BY MovesAssumption DEF MotionInv, MotionType
<1>2. \A e \in SecretPair :
        /\ Shifted(at[e], Vector(quad)) \in [x : Int, y : Int]
        /\ lost[e] = 0 =>
             /\ Shifted(at[e], Vector(quad)).x = Start[e].x + AlongX(quad, dir, moves + 1)
             /\ Shifted(at[e], Vector(quad)).y = Start[e].y + AlongY(quad, dir, moves + 1)
  <2> TAKE e \in SecretPair
  <2>1. /\ Vector(quad).x \in Int /\ Vector(quad).y \in Int
        /\ at[e].x \in Int /\ at[e].y \in Int
    BY <1>1 DEF Vector, MotionType
  <2>2. /\ Shifted(at[e], Vector(quad)).x = (at[e].x + Vector(quad).x) % 256
        /\ Shifted(at[e], Vector(quad)).y = (at[e].y + Vector(quad).y) % 256
        /\ Shifted(at[e], Vector(quad)) \in [x : Int, y : Int]
    BY <2>1 DEF Shifted
  <2>3. SUFFICES ASSUME lost[e] = 0
                 PROVE  /\ (at[e].x + Vector(quad).x) % 256
                             = Start[e].x + AlongX(quad, dir, moves + 1)
                        /\ (at[e].y + Vector(quad).y) % 256
                             = Start[e].y + AlongY(quad, dir, moves + 1)
    BY <2>2
  <2>4. /\ at[e].x = Start[e].x + AlongX(quad, dir, moves)
        /\ at[e].y = Start[e].y + AlongY(quad, dir, moves)
    BY <2>3 DEF MotionInv, OnTheWay
  <2>5. /\ AlongX(quad, dir, moves) + Vector(quad).x = AlongX(quad, dir, moves + 1)
        /\ AlongY(quad, dir, moves) + Vector(quad).y = AlongY(quad, dir, moves + 1)
    BY <1>1, OneMove
  <2>6. /\ Start[e].x \in Int /\ Start[e].y \in Int
        /\ AlongX(quad, dir, moves) \in Int /\ AlongY(quad, dir, moves) \in Int
    BY <1>1, WayOnScreen
  <2>7. moves + 1 \in 0 .. QuadrantMoves
    BY <1>1
  <2>8. /\ Start[e].x + AlongX(quad, dir, moves + 1) \in 0 .. 255
        /\ Start[e].y + AlongY(quad, dir, moves + 1) \in 0 .. 255
    <3>1. OnScreen(e, quad, dir, moves + 1)
      BY <1>1, <2>7, WayOnScreen
    <3> QED
      BY <3>1 DEF OnScreen
  <2>9. /\ at[e].x + Vector(quad).x = Start[e].x + AlongX(quad, dir, moves + 1)
        /\ at[e].y + Vector(quad).y = Start[e].y + AlongY(quad, dir, moves + 1)
    BY <2>1, <2>4, <2>5, <2>6
  <2>10. \A n \in 0 .. 255 : n % 256 = n
    OBVIOUS
  <2> QED
    BY <2>8, <2>9, <2>10
<1>3. \A e \in SecretPair : lost'[e] \in Nat /\ (lost'[e] = 0 => lost[e] = 0 /\ ~(off /\ e = r))
  BY DEF MoveSecretElevators, MotionInv, MotionType
<1>4. CASE Moving
  <2>1. at' \in [SecretPair -> [x : Int, y : Int]] /\ lost' \in [SecretPair -> Nat]
    BY <1>1, <1>2, <1>3 DEF MoveSecretElevators, MotionType
  <2>2. \A e \in SecretPair : lost'[e] = 0 =>
           /\ at'[e].x = Start[e].x + AlongX(quad, dir, moves + 1)
           /\ at'[e].y = Start[e].y + AlongY(quad, dir, moves + 1)
    BY <1>2, <1>3, <1>4 DEF MoveSecretElevators
  <2>3. CASE AtCorner
    <3>1. moves' = 0 /\ quad' = NextQuad /\ dir' = NextDir /\ moves + 1 = QuadrantMoves
      BY <1>1, <2>3 DEF MoveSecretElevators, AtCorner
    <3>2. /\ quad' \in {0, 1, 2, 3} /\ dir' \in {-1, 1} /\ moves' \in 0 .. QuadrantMoves - 1
          /\ AlongX(quad', dir', moves') = AlongX(quad, dir, moves + 1)
          /\ AlongY(quad', dir', moves') = AlongY(quad, dir, moves + 1)
      BY <1>1, <3>1, CornersMeet
    <3> QED
      BY <2>1, <2>2, <3>2 DEF MotionInv, MotionType, OnTheWay, AlongX, AlongY
  <2>4. CASE ~AtCorner
    <3>1. moves' = moves + 1 /\ quad' = quad /\ dir' = dir /\ moves + 1 < QuadrantMoves
      BY <1>1, <1>4, <2>4 DEF MoveSecretElevators, AtCorner
    <3> QED
      BY <1>1, <2>1, <2>2, <3>1 DEF MotionInv, MotionType, OnTheWay, AlongX, AlongY
  <2> QED
    BY <2>3, <2>4
<1>5. CASE ~Moving
  <2>1. ~off /\ ~AtCorner
    BY <1>5 DEF AtCorner
  <2>2. at' = at /\ lost' = lost /\ moves' = moves /\ quad' = quad /\ dir' = dir
    BY <1>1, <1>5, <2>1 DEF MoveSecretElevators, MotionType
  <2> QED
    BY <2>2 DEF MotionInv, MotionType, OnTheWay, AlongX, AlongY
<1> QED
  BY <1>4, <1>5

LEMMA MotionStart ==
  ASSUME at = Start, quad = 0, dir = 1, moves = 0, lost = [e \in SecretPair |-> 0]
  PROVE  MotionInv
<1>1. QuadrantMoves \in Nat /\ QuadrantMoves > 0
  BY MovesAssumption
<1>2. AlongX(0, 1, 0) = 0 /\ AlongY(0, 1, 0) = 0
  BY DEF AlongX, AlongY
<1>3. \A e \in SecretPair : Start[e] \in [x : Int, y : Int]
  BY CoordsAssumption, <1>1
<1>4. at \in [SecretPair -> [x : Int, y : Int]]
  BY <1>3, CoordsAssumption
<1>5. MotionType
  BY <1>1, <1>4 DEF MotionType
<1>6. OnTheWay
  BY <1>2, <1>3 DEF OnTheWay
<1> QED
  BY <1>5, <1>6 DEF MotionInv

LEMMA MotionRestart ==
  ASSUME at' = Start, quad' = 0, dir' = 1, moves' = 0,
         lost' = [e \in SecretPair |-> 0]
  PROVE  MotionInv'
<1>1. QuadrantMoves \in Nat /\ QuadrantMoves > 0
  BY MovesAssumption
<1>2. AlongX(0, 1, 0) = 0 /\ AlongY(0, 1, 0) = 0
  BY DEF AlongX, AlongY
<1>3. \A e \in SecretPair : Start[e] \in [x : Int, y : Int]
  BY CoordsAssumption, <1>1
<1>4. at' \in [SecretPair -> [x : Int, y : Int]]
  BY <1>3, CoordsAssumption
<1>5. MotionType'
  BY <1>1, <1>4 DEF MotionType
<1>6. OnTheWay'
  BY <1>2, <1>3 DEF OnTheWay, AlongX, AlongY
<1> QED
  BY <1>5, <1>6 DEF MotionInv

(* The inductive invariant of the secret elevators' way. *)
THEOREM MotionInvHolds == SecretSpec => []MotionInv
<1>1. SecretInit => MotionInv
  BY MotionStart DEF SecretInit
<1>2. MotionInv /\ [SecretNext]_secretVars => MotionInv'
  <2> SUFFICES ASSUME MotionInv, [SecretNext]_secretVars PROVE MotionInv'
    OBVIOUS
  <2>1. CASE RunSecretStage
    <3>1. PICK r \in RiderMoves, off \in BOOLEAN :
            (off => r # 0 /\ Moving) /\ MoveSecretElevators(r, off)
      BY <2>1 DEF RunSecretStage
    <3> QED
      BY <3>1, MotionKept
  <2>2. CASE NewVisit
    BY <2>2, MotionRestart DEF NewVisit
  <2>3. CASE UNCHANGED secretVars
    BY <2>3 DEF secretVars, motionVars, MotionInv, MotionType, OnTheWay, AlongX, AlongY
  <2> QED
    BY <2>1, <2>2, <2>3 DEF SecretNext
<1> QED
  BY <1>1, <1>2, PTL DEF SecretSpec

(* Reversed wherever and as often as they may be, the secret elevators     *)
(* stay on their diamond.                                                  *)
THEOREM AlwaysOnDiamond == SecretSpec => []StaysOnDiamond
<1>1. MotionInv => StaysOnDiamond
  <2> SUFFICES ASSUME MotionInv, NEW e \in SecretPair, lost[e] = 0
               PROVE  Distance(at[e].x, Start[e].x)
                        + Distance(at[e].y, Start[e].y + QuadrantMoves) = QuadrantMoves
    BY DEF StaysOnDiamond
  <2>1. /\ QuadrantMoves \in Nat /\ moves \in 0 .. QuadrantMoves - 1
        /\ quad \in {0, 1, 2, 3} /\ dir \in {-1, 1}
    BY MovesAssumption DEF MotionInv, MotionType
  <2> DEFINE sx == Start[e].x
             sy == Start[e].y
  <2>2. sx \in Int /\ sy \in Int
    <3>1. moves \in 0 .. QuadrantMoves
      BY <2>1
    <3> QED
      BY <2>1, <3>1, WayOnScreen
  <2>3. /\ at[e].x = sx + AlongX(quad, dir, moves)
        /\ at[e].y = sy + AlongY(quad, dir, moves)
    BY DEF MotionInv, OnTheWay
  <2> HIDE DEF sx, sy
  <2>4. Distance(sx + AlongX(quad, dir, moves), sx)
          + Distance(sy + AlongY(quad, dir, moves), sy + QuadrantMoves) = QuadrantMoves
    <3>1. CASE quad = 0
      BY <2>1, <2>2, <3>1 DEF AlongX, AlongY, Distance
    <3>2. CASE quad = 1
      BY <2>1, <2>2, <3>2 DEF AlongX, AlongY, Distance
    <3>3. CASE quad = 2
      BY <2>1, <2>2, <3>3 DEF AlongX, AlongY, Distance
    <3>4. CASE quad = 3
      BY <2>1, <2>2, <3>4 DEF AlongX, AlongY, Distance
    <3> QED
      BY <2>1, <3>1, <3>2, <3>3, <3>4
  <2> QED
    BY <2>3, <2>4 DEF sx, sy
<1> QED
  BY <1>1, MotionInvHolds, PTL

(***************************************************************************)
(* The cage.                                                               *)
(***************************************************************************)
CageInv == shown \subseteq Triggers /\ bars \in 0 .. 255 /\ BarsMatchTriggers

LEMMA CageKept ==
  ASSUME CageInv, NEW t \in ShownNow \cup {NoTrigger}, shown' = ShownNow, CheckTriggers(t)
  PROVE  CageInv'
<1>1. /\ shown' \subseteq Triggers /\ IsFiniteSet(shown') /\ NoTrigger \notin shown'
      /\ bars = Cardinality(shown') /\ bars \in 0 .. 255 /\ reached' = t
  <2>1. shown' \subseteq Triggers
    BY DEF CageInv, ShownNow
  <2>2. IsFiniteSet(shown') /\ NoTrigger \notin shown'
    BY <2>1, TriggersAssumption, FS_Subset
  <2> QED
    BY <2>1, <2>2 DEF CageInv, BarsMatchTriggers, ShownNow, CheckTriggers
<1>2. CASE t = NoTrigger
  <2>1. bars' = bars /\ shown' \ {reached'} = shown'
    BY <1>1, <1>2 DEF CheckTriggers
  <2> QED
    BY <1>1, <2>1 DEF CageInv, BarsMatchTriggers
<1>3. CASE t # NoTrigger
  <2>1. t \in shown' /\ bars' = (bars - 1) % 256
    BY <1>3 DEF CheckTriggers
  <2>2. Cardinality(shown' \ {t}) = Cardinality(shown') - 1
    BY <1>1, <2>1, FS_RemoveElement
  <2>3. Cardinality(shown' \ {t}) \in Nat
    BY <1>1, FS_RemoveElement, FS_CardinalityType
  <2>4. bars - 1 \in 0 .. 255
    BY <1>1, <2>2, <2>3
  <2>5. bars' = bars - 1
    BY <2>1, <2>4
  <2> QED
    BY <1>1, <2>2, <2>4, <2>5 DEF CageInv, BarsMatchTriggers
<1> QED
  BY <1>2, <1>3

(* A trigger takes one bar, whatever number of them there is.              *)
THEOREM BarsAlwaysMatch == SecretSpec => []BarsMatchTriggers
<1>1. SecretInit => CageInv
  <2> SUFFICES ASSUME SecretInit PROVE CageInv
    OBVIOUS
  <2>1. shown \ {reached} = Triggers /\ shown = Triggers /\ bars = CageBars
    BY TriggersAssumption DEF SecretInit
  <2>2. bars = Cardinality(Triggers) /\ bars \in 0 .. 255
    <3>1. Cardinality(Triggers) \in Nat
      BY TriggersAssumption, FS_CardinalityType
    <3> QED
      BY <2>1, <3>1, BarsAssumption
  <2> QED
    BY <2>1, <2>2 DEF CageInv, BarsMatchTriggers
<1>2. CageInv /\ [SecretNext]_secretVars => CageInv'
  <2> SUFFICES ASSUME CageInv, [SecretNext]_secretVars PROVE CageInv'
    OBVIOUS
  <2>1. CASE RunSecretStage
    <3>1. PICK t \in ShownNow \cup {NoTrigger} : shown' = ShownNow /\ CheckTriggers(t)
      BY <2>1 DEF RunSecretStage
    <3> QED
      BY <3>1, CageKept
  <2>2. CASE NewVisit
    <3>1. shown' \ {reached'} = Triggers /\ shown' = Triggers /\ bars' = CageBars
      BY <2>2, TriggersAssumption DEF NewVisit
    <3>2. bars' = Cardinality(Triggers) /\ bars' \in 0 .. 255
      <4>1. Cardinality(Triggers) \in Nat
        BY TriggersAssumption, FS_CardinalityType
      <4> QED
        BY <3>1, <4>1, BarsAssumption
    <3> QED
      BY <3>1, <3>2 DEF CageInv, BarsMatchTriggers
  <2>3. CASE UNCHANGED secretVars
    BY <2>3 DEF secretVars, cageVars, CageInv, BarsMatchTriggers
  <2> QED
    BY <2>1, <2>2, <2>3 DEF SecretNext
<1>3. CageInv => BarsMatchTriggers
  BY DEF CageInv
<1> QED
  BY <1>1, <1>2, <1>3, PTL DEF SecretSpec


-----------------------------------------------------------------------------
(***************************************************************************)
(* Retracting ladders.  Between two moves of the ladder $6222 and the row  *)
(* go together: a row counts as compared if it is a multiple of four.  It  *)
(* is what the ends are, so that nobody in step gets past one.             *)
(***************************************************************************)
Climbers == [where : {"away", "bottom", "top", "climbing"}, inLine : BOOLEAN,
             y : Int, wait : Int, odd : {0, 1}, blocked : {0, 1}, drawn : BOOLEAN]

StepFits(m) == m.y \in TopEnd + 2 .. BottomEnd - 2 /\ m.y % 4 = 2 * m.odd

ClimberInv(m, s) ==
  /\ m \in Climbers
  /\ m.where # "climbing" => m.odd = 0
  /\ m.where = "bottom" => m.y = BottomEnd
  /\ m.where = "top" => m.y = TopEnd
  /\ m.where = "climbing" => m.inLine
  /\ m.where = "climbing" /\ ~m.drawn => StepFits(m)
  /\ m.where = "climbing" /\ s # 0 /\ m.y < 122 => m.blocked = 1

LadderInv == state \in 0 .. 3 /\ ClimberInv(climber, state)

(* The bit that L_LADDER_STATE_1 takes from the row is that of a climber   *)
(* in step.                                                                *)
LEMMA BitOfRow ==
  ASSUME NEW y \in Int, y % 2 = 0
  PROVE  (y \div 2) % 2 \in {0, 1} /\ y % 4 = 2 * ((y \div 2) % 2)
<1>1. y = 2 * (y \div 2) /\ y \div 2 \in Int
  OBVIOUS
<1> DEFINE q == (y \div 2) \div 2
           r == (y \div 2) % 2
<1>2. r \in {0, 1} /\ q \in Int /\ y \div 2 = 2 * q + r
  BY <1>1
<1>3. y = 4 * q + 2 * r
  BY <1>1, <1>2
<1> HIDE DEF q, r
<1>4. y % 4 = 2 * r
  <2>1. CASE r = 0
    BY <1>2, <1>3, <2>1
  <2>2. CASE r = 1
    BY <1>2, <1>3, <2>2
  <2> QED
    BY <1>2, <2>1, <2>2
<1> QED
  BY <1>2, <1>4 DEF r

(* A step of two rows changes it.                                          *)
LEMMA StepOfRow ==
  ASSUME NEW y \in 82 .. 118, NEW bit \in {0, 1}, NEW dy \in {-2, 2}, y % 4 = 2 * bit
  PROVE  /\ (y + dy) % 4 = 2 * (1 - bit) /\ y + dy \in 80 .. 120
         /\ y + dy \in {80, 120} => bit = 1
<1>1. y = 4 * (y \div 4) + 2 * bit /\ y \div 4 \in Int
  OBVIOUS
<1> DEFINE q == y \div 4
<1>2. q \in Int /\ y = 4 * q + 2 * bit
  BY <1>1
<1> HIDE DEF q
<1>3. CASE bit = 0
  <2>1. y + 2 = 4 * q + 2 /\ y - 2 = 4 * (q - 1) + 2
    BY <1>2, <1>3
  <2> QED
    BY <1>2, <1>3, <2>1
<1>4. CASE bit = 1
  <2>1. y + 2 = 4 * (q + 1) /\ y - 2 = 4 * q
    BY <1>2, <1>4
  <2> QED
    BY <1>2, <1>4, <2>1
<1> QED
  BY <1>3, <1>4

LEMMA ClimbedKeeps ==
  ASSUME NEW m, NEW s, NEW dy \in {-2, 2}, NEW w \in Int, ClimberInv(m, s),
         \/ m.where = "bottom" /\ dy = -2 /\ m.blocked = 1
         \/ m.where = "climbing" /\ m.y < 122
  PROVE  ClimberInv(Climbed(m, dy, w), s)
<1> DEFINE y == m.y + dy
           atEnd == m.odd = 1 /\ y \in {TopEnd, BottomEnd}
           inLine == m.inLine \/ m.odd = 0
           drawn == m.drawn /\ ~atEnd
           where == IF ~atEnd THEN "climbing" ELSE IF y = TopEnd THEN "top" ELSE "bottom"
           n == Climbed(m, dy, w)
<1>1. /\ n.where = where /\ n.inLine = inLine /\ n.y = y /\ n.odd = 1 - m.odd
      /\ n.blocked = m.blocked /\ n.drawn = drawn /\ n \in Climbers
  <2>1. m \in Climbers /\ m.y \in Int /\ m.odd \in {0, 1} /\ 1 - m.odd \in {0, 1}
    BY DEF ClimberInv, Climbers
  <2>2. y \in Int /\ inLine \in BOOLEAN /\ drawn \in BOOLEAN
    BY <2>1
  <2>3. where \in {"away", "bottom", "top", "climbing"}
    OBVIOUS
  <2>4. n = [m EXCEPT !.y = y, !.wait = w, !.odd = 1 - m.odd, !.inLine = inLine,
                      !.drawn = drawn, !.where = where]
    BY Zenon DEF Climbed
  <2> HIDE DEF y, inLine, drawn, where, n, atEnd
  <2> QED
    BY <2>1, <2>2, <2>3, <2>4 DEF Climbers
<1> HIDE DEF n
<1> USE DEF ClimberInv, Climbers, StepFits, TopEnd, BottomEnd
<1>2. m.where = "climbing" /\ ~m.drawn =>
        y % 4 = 2 * (1 - m.odd) /\ y \in 80 .. 120 /\ (y \in {80, 120} => m.odd = 1)
  <2> SUFFICES ASSUME m.where = "climbing", ~m.drawn
               PROVE  y % 4 = 2 * (1 - m.odd) /\ y \in 80 .. 120 /\ (y \in {80, 120} => m.odd = 1)
    OBVIOUS
  <2>1. m.y \in 82 .. 118 /\ m.odd \in {0, 1} /\ m.y % 4 = 2 * m.odd
    OBVIOUS
  <2> QED
    BY <2>1, StepOfRow
<1>3. m.where = "bottom" => y = 118 /\ m.odd = 0
  OBVIOUS
<1>4. n.where = "climbing" /\ ~n.drawn => StepFits(n)
  <2> SUFFICES ASSUME ~atEnd, ~m.drawn \/ m.where = "bottom" PROVE y \in 82 .. 118 /\ y % 4 = 2 * (1 - m.odd)
    BY <1>1
  <2>1. CASE m.where = "bottom"
    BY <1>3, <2>1
  <2>2. CASE m.where = "climbing" /\ ~m.drawn
    <3>1. y \in 80 .. 120 /\ y # 80 /\ y # 120 /\ y % 4 = 2 * (1 - m.odd)
      BY <1>2, <2>2
    <3>2. y # 81 /\ y # 119
      <4>1. 81 % 4 = 1 /\ 119 % 4 = 3 /\ 2 * (1 - m.odd) \in {0, 2}
        OBVIOUS
      <4> QED
        BY <3>1, <4>1
    <3> HIDE DEF y
    <3> QED
      BY <3>1, <3>2
  <2> QED
    BY <2>1, <2>2
<1>5. n.where # "climbing" => n.odd = 0
  BY <1>1
<1>6. (n.where = "bottom" => n.y = BottomEnd) /\ (n.where = "top" => n.y = TopEnd)
  BY <1>1
<1>7. n.inLine
  BY <1>1
<1>8. s # 0 => n.blocked = 1
  BY <1>1
<1>9. n \in Climbers
  BY <1>1
<1> QED
  BY ONLY <1>4, <1>5, <1>6, <1>7, <1>8, <1>9, Zenon DEF ClimberInv, n

LEMMA WaitedKeeps ==
  ASSUME NEW m, NEW s, ClimberInv(m, s)
  PROVE  ClimberInv(Waited(m), s) /\ (m.where = "bottom" => Waited(m).blocked = m.blocked)
BY DEF Waited, ClimberInv, Climbers, StepFits

LEMMA AtAnEndKeeps ==
  ASSUME NEW m, NEW s, ClimberInv(m, s)
  PROVE  /\ ClimberInv(AtAnEnd(m), s)
         /\ AtAnEnd(m).where = m.where /\ AtAnEnd(m).blocked = 1
BY DEF AtAnEnd, ClimberInv, Climbers, StepFits

LEMMA PressesKeep ==
  ASSUME NEW m, NEW s, ClimberInv(m, s)
  PROVE  /\ m.where = "climbing" /\ m.y < 122 => ClimberInv(PressDown(m), s)
         /\ \/ m.where = "climbing" /\ m.y < 122
            \/ m.where = "bottom" /\ m.blocked = 1
            => ClimberInv(PressUp(m), s)
BY ClimbedKeeps, WaitedKeeps DEF PressDown, PressUp

LEMMA ArrivedKeeps ==
  ASSUME NEW m, NEW s, ClimberInv(m, s), m.where = "away", NEW w \in {"bottom", "top"},
         NEW line \in BOOLEAN, NEW rest \in 0 .. 2
  PROVE  ClimberInv(Arrived(m, w, line, rest), s)
<1> DEFINE y == IF w = "top" THEN TopEnd ELSE BottomEnd
           n == Arrived(m, w, line, rest)
<1>1. /\ m \in Climbers /\ m.odd = 0 /\ y \in Int /\ rest \in Int
      /\ w \in {"away", "bottom", "top", "climbing"}
  BY DEF ClimberInv, TopEnd, BottomEnd
<1>2. \A no \in BOOLEAN : no = FALSE =>
        n = [m EXCEPT !.where = w, !.inLine = line, !.wait = rest, !.y = y, !.drawn = no]
  BY Zenon DEF Arrived
<1>3. PICK no \in BOOLEAN : no = FALSE
  OBVIOUS
<1> HIDE DEF y, n
<1>4. n \in Climbers /\ n.where = w /\ n.y = y /\ n.odd = m.odd
  BY <1>1, <1>2, <1>3 DEF Climbers
<1> QED
  BY <1>1, <1>4 DEF ClimberInv, y, n

LEMMA LeavesKeeps ==
  ASSUME NEW m, NEW s, ClimberInv(m, s), m.where # "climbing"
  PROVE  ClimberInv([m EXCEPT !.where = "away"], s)
BY DEF ClimberInv, Climbers

(* What the player does keeps it ... *)
LEMMA ClimberMovesKeep ==
  ASSUME NEW c, NEW s, ClimberInv(c, s), NEW m \in ClimberMoves(c)
  PROVE  ClimberInv(m, s)
<1>1. c.where \in {"away", "bottom", "top", "climbing"} /\ c.y \in Int
  BY DEF ClimberInv, Climbers
<1>2. CASE c.where = "away"
  BY <1>2, ArrivedKeeps DEF ClimberMoves
<1>3. CASE c.where = "top"
  BY <1>3, AtAnEndKeeps, LeavesKeeps DEF ClimberMoves
<1>4. CASE c.where = "bottom"
  BY <1>4, AtAnEndKeeps, LeavesKeeps, PressesKeep DEF ClimberMoves
<1>5. CASE c.where = "climbing"
  BY <1>1, <1>5, PressesKeep DEF ClimberMoves, Followed, TopEnd, BottomEnd
<1> QED
  BY <1>1, <1>2, <1>3, <1>4, <1>5

(* ... and what the ladder does. *)
LEMMA DrawnKeeps ==
  ASSUME NEW m, ClimberInv(m, 1), NEW s \in {1, 2}
  PROVE  ClimberInv(Drawn(m), s)
<1>1. CASE ~OnLadder(m)
  BY <1>1 DEF Drawn, ClimberInv
<1>2. CASE OnLadder(m) /\ (m.y < PartUp \/ m.y % 2 = 1)
  <2>1. m.where # "bottom"
    BY <1>2 DEF ClimberInv, PartUp, BottomEnd
  <2>2. Drawn(m) = MovedDown(m)
    BY <1>2 DEF Drawn
  <2> DEFINE where == IF m.where = "climbing" THEN m.where ELSE "away"
             n == MovedDown(m)
  <2>3. m \in Climbers /\ m.y \in Int /\ m.y + 1 \in Int /\ where \in {"away", "climbing"}
    BY DEF ClimberInv, Climbers
  <2>4. \A yes \in BOOLEAN : yes = TRUE =>
          n = [m EXCEPT !.y = m.y + 1, !.drawn = yes, !.where = where]
    BY Zenon DEF MovedDown
  <2>5. PICK yes \in BOOLEAN : yes = TRUE
    OBVIOUS
  <2> HIDE DEF where, n
  <2>6. /\ n \in Climbers /\ n.where = where /\ n.y = m.y + 1 /\ n.odd = m.odd
        /\ n.inLine = m.inLine /\ n.blocked = m.blocked /\ n.drawn = yes
    BY <2>3, <2>4, <2>5 DEF Climbers
  <2>7. n.drawn
    BY <2>5, <2>6
  <2>8. n.where \in {"away", "climbing"} /\ (n.where = "climbing" <=> m.where = "climbing")
    BY <2>3, <2>6 DEF where
  <2>9. ClimberInv(n, s)
    <3>1. n.where # "climbing" => n.odd = 0
      BY <2>6, <2>8 DEF ClimberInv
    <3>2. n.where = "climbing" => n.inLine
      BY <2>6, <2>8, Zenon DEF ClimberInv
    <3>3. n.where = "climbing" /\ n.y < 122 => n.blocked = 1
      BY <2>3, <2>6, <2>8 DEF ClimberInv
    <3> QED
      BY <2>6, <2>7, <2>8, <3>1, <3>2, <3>3 DEF ClimberInv
  <2> QED
    BY <2>2, <2>9 DEF n
<1>3. CASE OnLadder(m) /\ ~(m.y < PartUp \/ m.y % 2 = 1)
  <2> DEFINE bit == (m.y \div 2) % 2
  <2>1. Drawn(m) = Fitted(m, bit) /\ m.y \in Int /\ m.y \in 104 .. 121 /\ m.y % 2 = 0
    BY <1>3 DEF Drawn, OnLadder, ClimberInv, Climbers, PartUp
  <2>2. bit \in {0, 1} /\ m.y % 4 = 2 * bit
    BY <2>1, BitOfRow
  <2> HIDE DEF bit
  <2>3. m.y = 120 => bit = 0
    BY <2>2
  <2> DEFINE drawn == m.drawn /\ m.y = BottomEnd
  <2>4. drawn \in BOOLEAN /\ Fitted(m, bit) = [m EXCEPT !.odd = bit, !.drawn = drawn]
    BY Zenon DEF Fitted, ClimberInv, Climbers
  <2>5. m \in Climbers
    BY DEF ClimberInv
  <2> DEFINE n == Fitted(m, bit)
  <2> HIDE DEF drawn, n
  <2>6. /\ n \in Climbers /\ n.where = m.where /\ n.y = m.y /\ n.inLine = m.inLine
        /\ n.odd = bit /\ n.drawn = drawn /\ n.blocked = m.blocked
    BY <2>2, <2>4, <2>5 DEF Climbers, n
  <2>7. n.where = "climbing" /\ ~n.drawn => StepFits(n)
    <3> SUFFICES ASSUME m.where = "climbing", ~drawn PROVE m.y \in 82 .. 118 /\ m.y % 4 = 2 * bit
      BY <2>6 DEF StepFits, TopEnd, BottomEnd
    <3>1. CASE m.drawn
      <4>1. m.y # 120 /\ m.y # 119 /\ m.y # 121
        BY <2>1, <3>1 DEF drawn, BottomEnd
      <4> QED
        BY <2>1, <2>2, <4>1
    <3>2. CASE ~m.drawn
      BY <2>2, <3>2 DEF ClimberInv, StepFits, TopEnd, BottomEnd
    <3> QED
      BY <3>1, <3>2
  <2>8. n.where # "climbing" => n.odd = 0
    <3>1. m.where \in {"bottom", "top", "climbing"}
      BY <1>3, <2>5 DEF OnLadder, Climbers
    <3>2. m.where = "bottom" => m.y = 120
      BY DEF ClimberInv, BottomEnd
    <3>3. m.where = "top" => m.y = 80
      BY DEF ClimberInv, TopEnd
    <3> QED
      BY <2>1, <2>3, <2>6, <3>1, <3>2, <3>3
  <2> QED
    BY <2>1, <2>6, <2>7, <2>8, <1>3 DEF ClimberInv, n
<1> QED
  BY <1>1, <1>2, <1>3

LEMMA BlockedKeeps ==
  ASSUME NEW m, ClimberInv(m, 0), NEW s \in {0, 1}
  PROVE  ClimberInv(Blocked(m, s), s)
BY DEF Blocked, OnLadder, ClimberInv, Climbers, StepFits

LEMMA LadderStep == LadderInv /\ [LadderNext]_ladderVars => LadderInv'
<1> SUFFICES ASSUME LadderInv, [LadderNext]_ladderVars PROVE LadderInv'
  OBVIOUS
<1> USE DEF LadderInv
<1>1. CASE UNCHANGED ladderVars
  BY <1>1 DEF ladderVars, partVars, ClimberInv
<1>2. CASE LadderNext
  <2>1. PICK m \in ClimberMoves(climber) :
          IF counter2 # Turn
          THEN climber' = m /\ UNCHANGED partVars
          ELSE \/ LadderWaitsUp(m) \/ LadderGoesDown(m)
               \/ LadderWaitsDown(m) \/ LadderGoesUp(m)
    BY <1>2 DEF LadderNext
  <2>2. ClimberInv(m, state)
    BY ClimberMovesKeep
  <2>3. CASE climber' = m /\ UNCHANGED partVars
    BY <2>2, <2>3 DEF partVars
  <2>4. CASE LadderWaitsUp(m)
    <3>1. ClimberInv(m, 0) /\ state' \in {0, 1} /\ climber' = Blocked(m, state')
      BY <2>2, <2>4 DEF LadderWaitsUp
    <3> QED
      BY <3>1, BlockedKeeps
  <2>5. CASE LadderGoesDown(m)
    <3>1. ClimberInv(m, 1) /\ state' \in {1, 2}
      BY <2>2, <2>5 DEF LadderGoesDown
    <3>2. (climber' = m /\ state' = 1) \/ climber' = Drawn(m)
      BY <2>5 DEF LadderGoesDown
    <3> QED
      BY <3>1, <3>2, DrawnKeeps
  <2>6. CASE LadderWaitsDown(m)
    BY <2>2, <2>6 DEF LadderWaitsDown, ClimberInv
  <2>7. CASE LadderGoesUp(m)
    BY <2>2, <2>7 DEF LadderGoesUp, ClimberInv
  <2> QED
    BY <2>1, <2>3, <2>4, <2>5, <2>6, <2>7
<1> QED
  BY <1>1, <1>2

THEOREM LadderInvHolds == LadderSpec => []LadderInv
<1>1. LadderInit => LadderInv
  BY DEF LadderInit, LadderInv, Away, ClimberInv, Climbers, BottomEnd
<1> QED
  BY <1>1, LadderStep, PTL DEF LadderSpec

(* Mario misses an end of a retracting ladder only if it has moved him and *)
(* $6222 has not been set to fit his row since, above its foot.            *)
THEOREM OnlyDrawnClimbPast == LadderSpec => []OnlyDrawnMissEnds
<1>1. LadderInv => OnlyDrawnMissEnds
  BY DEF LadderInv, ClimberInv, StepFits, OnlyDrawnMissEnds, TopEnd, BottomEnd
<1> QED
  BY <1>1, LadderInvHolds, PTL

(* Who climbs a ladder whose upper part is not up has $621a set.           *)
THEOREM DownIsBlocked == LadderSpec => []BlockedWhileDown
<1>1. LadderInv => BlockedWhileDown
  BY DEF LadderInv, ClimberInv, BlockedWhileDown, OnLadder
<1> QED
  BY <1>1, LadderInvHolds, PTL
=============================================================================
