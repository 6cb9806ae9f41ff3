--------------------------- MODULE EnemiesProofs ---------------------------
(***************************************************************************)
(* Theorems about the places of the fireballs, about the barrels, and      *)
(* about what is earned for smashing them.                                 *)
(***************************************************************************)
EXTENDS Fireballs, Barrels, Awards, FiniteSetTheorems, WellFoundedInduction, TLAPS

(***************************************************************************)
(* Fireballs.  The search compares a count with the limit, but what keeps  *)
(* it right is where the fireballs are: on the mixer stage none is beyond  *)
(* the place whose number is the difficulty.                               *)
(***************************************************************************)
FireballType == /\ mixer \in BOOLEAN /\ burning \subseteq Places
                /\ difficulty \in 1 .. MaxDifficulty

FirstPlaces == mixer => burning \subseteq 1 .. difficulty

FireballInv == FireballType /\ FirstPlaces

(* The first free place has all places before it in use. *)
LEMMA FirstFreeIsFirst ==
  ASSUME NEW b \in SUBSET Places, b # Places
  PROVE  /\ FirstFree(b) \in Places \ b
         /\ \A g \in Places \ b : FirstFree(b) <= g
<1>1. \E f \in Places \ b : \A g \in Places \ b : f <= g
  <2>1. CASE 1 \notin b
    BY <2>1 DEF Places
  <2>2. CASE 1 \in b /\ 2 \notin b
    BY <2>2 DEF Places
  <2>3. CASE 1 \in b /\ 2 \in b /\ 3 \notin b
    BY <2>3 DEF Places
  <2>4. CASE 1 \in b /\ 2 \in b /\ 3 \in b /\ 4 \notin b
    BY <2>4 DEF Places
  <2>5. CASE 1 \in b /\ 2 \in b /\ 3 \in b /\ 4 \in b
    <3>1. 5 \notin b
      <4> SUFFICES ASSUME 5 \in b PROVE Places \subseteq b
        OBVIOUS
      <4> QED
        BY <2>5 DEF Places
    <3> QED
      BY <2>5, <3>1 DEF Places
  <2> QED
    BY <2>1, <2>2, <2>3, <2>4, <2>5
<1> QED
  BY <1>1 DEF FirstFree

(* When the search gets there it has counted the places before it. *)
LEMMA PassedAtFirstFree ==
  ASSUME NEW b \in SUBSET Places, b # Places
  PROVE  Passed(b, FirstFree(b)) = FirstFree(b) - 1
<1> DEFINE f == FirstFree(b)
<1>1. f \in Places \ b /\ \A g \in Places \ b : f <= g
  BY FirstFreeIsFirst
<1> HIDE DEF f
<1> DEFINE before == {g \in b : g < f}
<1>2. before = 1 .. f - 1
  <2>1. ASSUME NEW g \in 1 .. f - 1 PROVE g \in before
    BY <1>1, <2>1 DEF Places
  <2>2. ASSUME NEW g \in before PROVE g \in 1 .. f - 1
    BY <1>1, <2>2 DEF Places
  <2> HIDE DEF before
  <2> QED
    BY <2>1, <2>2
<1>3. Cardinality(1 .. f - 1) = f - 1
  <2>1. f \in Int /\ 1 \in Int /\ f - 1 \in Int /\ 1 <= f
    BY <1>1 DEF Places
  <2>2. Cardinality(1 .. f - 1) = IF 1 > f - 1 THEN 0 ELSE (f - 1) - 1 + 1
    BY <2>1, FS_Interval
  <2> QED
    BY <2>1, <2>2
<1> QED
  BY <1>2, <1>3 DEF Passed, f

LEMMA SpawnKeepsFirstPlaces ==
  ASSUME FireballInv
  PROVE  AfterSpawn \subseteq Places /\ (mixer => AfterSpawn \subseteq 1 .. difficulty)
<1>1. CASE ~Spawns
  BY <1>1 DEF AfterSpawn, FireballInv, FireballType, FirstPlaces
<1>2. CASE Spawns
  <2> DEFINE f == FirstFree(burning)
  <2>1. burning \in SUBSET Places /\ burning # Places /\ f \notin Stops(burning)
    BY <1>2 DEF Spawns, FireballInv, FireballType
  <2>2. f \in Places \ burning /\ \A g \in Places \ burning : f <= g
    BY <2>1, FirstFreeIsFirst
  <2>3. mixer => Passed(burning, f) # difficulty
    BY <2>1, <2>2 DEF Stops
  <2>4. mixer => f # difficulty + 1
    BY <2>1, <2>2, <2>3, PassedAtFirstFree DEF Places, FireballInv, FireballType
  <2>5. mixer => f <= difficulty
    <3> SUFFICES ASSUME mixer PROVE f <= difficulty
      OBVIOUS
    <3>1. difficulty \in 1 .. 5 /\ f \in 1 .. 5 /\ burning \subseteq 1 .. difficulty
      BY <2>2 DEF FireballInv, FireballType, FirstPlaces, Places, MaxDifficulty
    <3>2. difficulty + 1 \notin burning
      BY <3>1
    <3>3. difficulty < 5 => f <= difficulty + 1
      BY <2>2, <3>1, <3>2 DEF Places
    <3> QED
      BY <2>4, <3>1, <3>3
  <2>6. AfterSpawn = burning \cup {f}
    BY <1>2 DEF AfterSpawn
  <2> HIDE DEF f
  <2>7. mixer => f \in 1 .. difficulty
    BY <2>2, <2>5 DEF FireballInv, FireballType, Places, MaxDifficulty
  <2> QED
    BY <2>2, <2>6, <2>7 DEF FireballInv, FireballType, FirstPlaces
<1> QED
  BY <1>1, <1>2

(* FireballInv is inductive, on both kinds of stage.                       *)
THEOREM FireballInvHolds == FireballsSpec => []FireballInv
<1>1. FireballsInit => FireballInv
  BY DEF FireballsInit, FireballInv, FireballType, FirstPlaces
<1>2. FireballInv /\ [FireballsNext]_fireballVars => FireballInv'
  <2> SUFFICES ASSUME FireballInv, [FireballsNext]_fireballVars PROVE FireballInv'
    OBVIOUS
  <2> USE DEF FireballInv, FireballType, FirstPlaces
  <2>1. CASE Updated
    BY <2>1, SpawnKeepsFirstPlaces DEF Updated
  <2>2. CASE Skipped
    BY <2>2 DEF Skipped
  <2>3. CASE Smashed
    BY <2>3 DEF Smashed
  <2>4. CASE Harder
    BY <2>4 DEF Harder, MaxDifficulty
  <2>5. CASE FireballsAgain
    BY <2>5 DEF FireballsAgain
  <2>6. CASE UNCHANGED fireballVars
    BY <2>6 DEF fireballVars
  <2> QED
    BY <2>1, <2>2, <2>3, <2>4, <2>5, <2>6 DEF FireballsNext
<1> QED
  BY <1>1, <1>2, PTL DEF FireballsSpec

(* On the mixer stage there are never more fireballs than the difficulty   *)
(* allows, although L_SPAWN_FIREBALLS compares for equality.               *)
THEOREM FireballsWithinDifficulty == FireballsSpec => []WithinDifficulty
<1>1. FireballInv => WithinDifficulty
  <2> SUFFICES ASSUME FireballInv, mixer PROVE Cardinality(burning) <= difficulty
    BY DEF WithinDifficulty
  <2>1. difficulty \in 1 .. 5 /\ burning \subseteq 1 .. difficulty
    BY DEF FireballInv, FireballType, FirstPlaces, MaxDifficulty
  <2>2. IsFiniteSet(1 .. difficulty) /\ Cardinality(1 .. difficulty) = difficulty
    <3>1. 1 \in Int /\ difficulty \in Int /\ 1 <= difficulty
      BY <2>1
    <3>2. /\ IsFiniteSet(1 .. difficulty)
          /\ Cardinality(1 .. difficulty) = IF 1 > difficulty THEN 0 ELSE difficulty - 1 + 1
      BY <3>1, FS_Interval
    <3> QED
      BY <3>1, <3>2
  <2>3. Cardinality(burning) <= Cardinality(1 .. difficulty)
    BY <2>1, <2>2, FS_Subset
  <2> QED
    BY <2>2, <2>3
<1> QED
  BY <1>1, FireballInvHolds, PTL

(***************************************************************************)
(* Barrels.  Donkey Kong takes a barrel only with all his gestures and all *)
(* the drawing data before him; so he cannot let it go in the frame in     *)
(* which he takes it, when no slot would be marked as rolling.             *)
(***************************************************************************)
Doing == [stomping : BOOLEAN, request : BOOLEAN, kind : 0 .. 2, mark : BOOLEAN,
          steps : Nat, count : Int, held : Slots, script : Nat]

BarrelType == slot \in [Slots -> 0 .. 2] /\ oil \in [Slots -> BOOLEAN] /\ dk \in Doing

ReadyToTake(d) == ~d.stomping => /\ d.script = LongScript
                                 /\ d.request => d.steps > 1

BarrelInv == BarrelType /\ HoldsOneBarrel /\ ReadyToTake(dk)

(* What a gesture leaves alone, and when it lets the barrel go. *)
Keeps(d, e) == /\ e \in Doing
               /\ e.held = d.held /\ (e.mark <=> d.mark)
               /\ e.stomping => (e.request <=> d.request)
               /\ d.script # 0 => (e.stomping <=> d.stomping)
               /\ ~e.stomping => e.script = LongScript /\ ~e.request

(* Single entries of the record. *)
Same(d, e) == /\ e \in Doing /\ (e.stomping <=> d.stomping) /\ (e.request <=> d.request)
              /\ (e.mark <=> d.mark) /\ e.held = d.held

LEMMA SetSteps ==
  ASSUME NEW d \in Doing, NEW n \in Nat
  PROVE  LET e == [d EXCEPT !.steps = n] IN
         Same(d, e) /\ e.script = d.script /\ e.steps = n
  BY DEF Doing, Same

LEMMA SetCount ==
  ASSUME NEW d \in Doing, NEW n \in Int
  PROVE  LET e == [d EXCEPT !.count = n] IN
         Same(d, e) /\ e.script = d.script /\ e.steps = d.steps
  BY DEF Doing, Same

LEMMA SetScript ==
  ASSUME NEW d \in Doing, NEW n \in Nat
  PROVE  LET e == [d EXCEPT !.script = n] IN Same(d, e) /\ e.script = n
  BY DEF Doing, Same

LEMMA LetGoKeeps ==
  ASSUME NEW d \in Doing
  PROVE  /\ LetGo(d) \in Doing
         /\ LetGo(d).held = d.held /\ (LetGo(d).mark <=> d.mark)
         /\ ~LetGo(d).stomping /\ ~LetGo(d).request /\ LetGo(d).script = LongScript
<1>1. [d EXCEPT !.stomping = FALSE] \in Doing
  BY DEF Doing
<1>2. [d EXCEPT !.stomping = FALSE, !.request = FALSE] \in Doing
  BY <1>1 DEF Doing
<1> QED
  BY <1>2 DEF Doing, LetGo, LongScript

LEMMA ShowKeeps ==
  ASSUME NEW d \in Doing, d.stomping
  PROVE  Keeps(d, ShowOrLetGo(d))
<1>1. CASE d.script = 0
  BY <1>1, LetGoKeeps DEF ShowOrLetGo, Keeps
<1>2. CASE d.script # 0
  <2>1. d.script - 1 \in Nat /\ ShowOrLetGo(d) = [d EXCEPT !.script = d.script - 1]
    BY <1>2 DEF ShowOrLetGo, Doing
  <2> QED
    BY <1>2, <2>1, SetScript DEF Keeps, Same
<1> QED
  BY <1>1, <1>2

LEMMA GestureKeeps ==
  ASSUME NEW d \in Doing, d.stomping
  PROVE  /\ Gesture(d) \in Doing
         /\ Gesture(d).held = d.held /\ (Gesture(d).mark <=> d.mark)
         /\ Gesture(d).stomping => (Gesture(d).request <=> d.request)
         /\ ~Gesture(d).stomping => Gesture(d).script = LongScript /\ ~Gesture(d).request
         /\ d.script # 0 /\ d.steps > 1 => Gesture(d).stomping
<1>1. CASE d.steps = 0
  BY <1>1, ShowKeeps DEF Gesture, Keeps
<1>2. CASE d.steps > 1
  <2> DEFINE e == [d EXCEPT !.steps = d.steps - 1]
  <2>1. d.steps - 1 \in Nat /\ Gesture(d) = ShowOrLetGo(e)
    BY <1>2 DEF Gesture, Doing
  <2>2. Same(d, e) /\ e.script = d.script
    BY <2>1, SetSteps
  <2> HIDE DEF e
  <2> QED
    BY <2>1, <2>2, ShowKeeps DEF Keeps, Same
<1>3. CASE d.steps = 1
  <2> DEFINE n == IF d.kind = Dropped THEN ShortScript ELSE d.script
             c == [d EXCEPT !.steps = 0]
             b == [c EXCEPT !.count = 1]
             e == [b EXCEPT !.script = n]
  <2>1. n \in Nat
    BY DEF Doing, ShortScript
  <2>2. Gesture(d) = ShowOrLetGo(e)
    BY <1>3 DEF Gesture, Doing
  <2> HIDE DEF n
  <2>3. Same(d, c)
    BY SetSteps
  <2> HIDE DEF c
  <2>4. Same(c, b)
    BY <2>3, SetCount DEF Same
  <2> HIDE DEF b
  <2>5. Same(b, e)
    BY <2>1, <2>4, SetScript DEF Same
  <2> HIDE DEF e
  <2>6. Same(d, e)
    BY <2>3, <2>4, <2>5 DEF Same
  <2> QED
    BY <1>3, <2>2, <2>6, ShowKeeps DEF Keeps, Same
<1> QED
  BY <1>1, <1>2, <1>3 DEF Doing

LEMMA HandlesKeeps ==
  ASSUME NEW d \in Doing, d.stomping
  PROVE  /\ Handles(d) \in Doing
         /\ Handles(d).held = d.held /\ (Handles(d).mark <=> d.mark)
         /\ Handles(d).stomping => (Handles(d).request <=> d.request)
         /\ ~Handles(d).stomping => Handles(d).script = LongScript /\ ~Handles(d).request
         /\ d.script # 0 /\ d.steps > 1 => Handles(d).stomping
<1>1. CASE d.count = 1
  <2> DEFINE e == [d EXCEPT !.count = Pause]
  <2>1. Same(d, e) /\ e.script = d.script /\ e.steps = d.steps
    BY BarrelsAssumption, SetCount
  <2>2. Handles(d) = Gesture(e)
    BY <1>1 DEF Handles
  <2> HIDE DEF e
  <2> QED
    BY <2>1, <2>2, GestureKeeps DEF Same
<1>2. CASE d.count # 1
  <2>1. d.count - 1 \in Int /\ Handles(d) = [d EXCEPT !.count = d.count - 1]
    BY <1>2 DEF Handles, Doing
  <2> QED
    BY <2>1, SetCount DEF Same
<1> QED
  BY <1>1, <1>2

LEMMA DecideKeeps ==
  ASSUME NEW d \in Doing, ~d.stomping, ReadyToTake(d), NEW n, NEW room \in BOOLEAN,
         NEW k \in {NoBarrel, Normal, Dropped, Second}
  PROVE  LET e == Decide(d, n, k, room) IN
         e \in Doing /\ ~e.stomping /\ ReadyToTake(e)
<1>1. CASE k = NoBarrel
  BY <1>1 DEF Decide
<1>2. CASE k # NoBarrel
  <2> DEFINE m == n = oilAt /\ room
             t == IF k = Dropped THEN 2 ELSE 3
             a == [d EXCEPT !.request = TRUE]
             b == [a EXCEPT !.kind = k]
             c == [b EXCEPT !.steps = t]
             e == [c EXCEPT !.mark = m]
  <2>1. k \in 0 .. 2 /\ t \in Nat /\ t > 1 /\ m \in BOOLEAN
    BY <1>2 DEF NoBarrel, Normal, Dropped, Second
  <2>2. Decide(d, n, k, room) = e
    BY <1>2 DEF Decide
  <2> HIDE DEF m, t
  <2>3. a \in Doing /\ ~a.stomping /\ a.script = d.script
    BY DEF Doing
  <2> HIDE DEF a
  <2>4. b \in Doing /\ ~b.stomping /\ b.script = d.script
    BY <2>1, <2>3 DEF Doing
  <2> HIDE DEF b
  <2>5. c \in Doing /\ ~c.stomping /\ c.script = d.script /\ c.steps = t
    BY <2>1, <2>4 DEF Doing
  <2> HIDE DEF c
  <2>6. e \in Doing /\ ~e.stomping /\ e.script = d.script /\ e.steps = t
    BY <2>1, <2>5 DEF Doing
  <2> HIDE DEF e
  <2> QED
    BY <2>1, <2>2, <2>6 DEF ReadyToTake
<1> QED
  BY <1>1, <1>2

LEMMA DecisionsOf ==
  ASSUME NEW d, NEW n, NEW k \in Decisions(d, n)
  PROVE  k \in {NoBarrel, Normal, Dropped, Second} /\ (d.stomping => k = NoBarrel)
  BY DEF Decisions

(* The barrel taken is the only one held. *)
LEMMA TakenIsHeld ==
  ASSUME BarrelInv, NEW s \in [Slots -> 0 .. 2],
         \A i \in Slots : s[i] = 2 <=> slot[i] = 2, Takes(s)
  PROVE  LET i == FirstFreeSlot(s)
             h == Hands(s)
         IN  /\ i \in Slots /\ s[i] = 0
             /\ \A j \in Slots : s[j] # 2
             /\ h \in Doing /\ h.stomping /\ h.held = i
             /\ h.request /\ (h.mark <=> dk.mark)
<1> DEFINE i == FirstFreeSlot(s)
<1>1. i \in Slots /\ EndsAt(s, i)
  BY DEF Takes, FirstFreeSlot
<1>2. s[i] = 0
  BY <1>1 DEF EndsAt
<1> HIDE DEF i
<1>3. dk \in Doing /\ ~dk.stomping /\ dk.request /\ dk.script = LongScript /\ dk.steps > 1
  BY DEF Takes, BarrelInv, BarrelType, ReadyToTake
<1>4. \A j \in Slots : s[j] # 2
  BY <1>3 DEF BarrelInv, HoldsOneBarrel
<1> DEFINE a == [dk EXCEPT !.stomping = TRUE]
           d == [a EXCEPT !.held = i]
<1>5. Hands(s) = Handles(d)
  BY DEF Hands, i
<1>6. /\ a \in Doing /\ a.stomping /\ a.request /\ (a.mark <=> dk.mark)
      /\ a.script = LongScript /\ a.steps > 1
  BY <1>3 DEF Doing
<1> HIDE DEF a
<1>7. /\ d \in Doing /\ d.stomping /\ d.request /\ (d.mark <=> dk.mark)
      /\ d.script = LongScript /\ d.steps > 1 /\ d.held = i
  BY <1>1, <1>6 DEF Doing
<1> HIDE DEF d
<1> QED
  BY <1>1, <1>2, <1>4, <1>5, <1>7, HandlesKeeps DEF i, LongScript

LEMMA BarrelStep ==
  ASSUME BarrelInv, BarrelFrame
  PROVE  BarrelInv'
<1>1. PICK gone \in SUBSET {i \in Slots : slot[i] = 1}, room \in BOOLEAN :
        LET s == [i \in Slots |-> IF i \in gone THEN 0 ELSE slot[i]] IN
        /\ Throws(s)
        /\ \E k \in Decisions(Hands(s), left') : dk' = Decide(Hands(s), left', k, room)
  BY DEF BarrelFrame
<1> DEFINE s == [i \in Slots |-> IF i \in gone THEN 0 ELSE slot[i]]
           h == Hands(s)
<1>2. PICK k \in Decisions(h, left') : dk' = Decide(h, left', k, room)
  BY <1>1
<1>3. k \in {NoBarrel, Normal, Dropped, Second} /\ (h.stomping => k = NoBarrel)
  BY <1>2, DecisionsOf
<1>4. h.stomping => dk' = h
  BY <1>2, <1>3 DEF Decide
<1>5. Throws(s)
  BY <1>1
<1>6. s \in [Slots -> 0 .. 2] /\ \A i \in Slots : s[i] = 2 <=> slot[i] = 2
  BY DEF BarrelInv, BarrelType
<1> HIDE DEF s
<1>7. CASE Takes(s)
  <2> DEFINE i == FirstFreeSlot(s)
  <2>1. /\ i \in Slots /\ s[i] = 0 /\ \A j \in Slots : s[j] # 2
        /\ h \in Doing /\ h.stomping /\ h.held = i /\ h.request /\ (h.mark <=> dk.mark)
    BY <1>6, <1>7, TakenIsHeld
  <2>2. slot' = [s EXCEPT ![i] = 2] /\ oil' = [oil EXCEPT ![i] = dk.mark]
    BY <1>5, <1>7 DEF Throws
  <2>3. dk' = h
    BY <1>4, <2>1
  <2> HIDE DEF i, h
  <2>4. slot' \in [Slots -> 0 .. 2] /\ \A j \in Slots : slot'[j] = 2 <=> j = i
    BY <1>6, <2>1, <2>2
  <2>5. dk.mark \in BOOLEAN /\ h.mark \in BOOLEAN
    BY <2>1 DEF BarrelInv, BarrelType, Doing
  <2>6. oil' \in [Slots -> BOOLEAN] /\ oil'[i] = dk.mark
    BY <2>1, <2>2, <2>5 DEF BarrelInv, BarrelType
  <2>7. dk.mark = h.mark
    BY <2>1, <2>5
  <2>8. {j \in Slots : slot'[j] = 2} = {i}
    BY <2>1, <2>4
  <2>9. HoldsOneBarrel'
    BY <2>1, <2>3, <2>6, <2>7, <2>8 DEF HoldsOneBarrel
  <2> QED
    BY <2>1, <2>3, <2>4, <2>6, <2>9 DEF BarrelInv, BarrelType, ReadyToTake
<1>8. CASE ~Takes(s) /\ dk.stomping
  <2>1. dk \in Doing /\ h = Handles(dk)
    BY <1>8 DEF Hands, BarrelInv, BarrelType
  <2>2. /\ h \in Doing /\ h.held = dk.held /\ (h.mark <=> dk.mark)
        /\ h.stomping => (h.request <=> dk.request)
        /\ ~h.stomping => h.script = LongScript /\ ~h.request
    BY <1>8, <2>1, HandlesKeeps
  <2>3. slot' = Rolling(s, h) /\ oil' = oil
    BY <1>5, <1>8, <2>1 DEF Throws
  <2>4. \A j \in Slots : s[j] = 2 <=> j = dk.held
    BY <1>6, <1>8 DEF BarrelInv, HoldsOneBarrel
  <2>5. dk.held \in Slots /\ oil[dk.held] = dk.mark /\ dk.request
    BY <1>8, <2>1 DEF BarrelInv, HoldsOneBarrel, Doing
  <2> HIDE DEF h
  <2>6. CASE h.stomping
    <3>1. dk' = h /\ slot' = s
      BY <1>4, <2>3, <2>6 DEF Rolling
    <3>2. h.mark = dk.mark
      BY <2>1, <2>2 DEF Doing
    <3>3. {j \in Slots : slot'[j] = 2} = {dk.held}
      BY <2>4, <2>5, <3>1
    <3>4. HoldsOneBarrel'
      BY <2>2, <2>3, <2>5, <2>6, <3>1, <3>2, <3>3 DEF HoldsOneBarrel
    <3> QED
      BY <1>6, <2>2, <2>3, <2>6, <3>1, <3>4 DEF BarrelInv, BarrelType, ReadyToTake
  <2>7. CASE ~h.stomping
    <3>1. slot' = [s EXCEPT ![dk.held] = 1]
      BY <1>8, <2>2, <2>3, <2>7 DEF Rolling
    <3>2. slot' \in [Slots -> 0 .. 2] /\ \A j \in Slots : slot'[j] # 2
      BY <1>6, <2>4, <2>5, <3>1
    <3>3. dk' \in Doing /\ ~dk'.stomping /\ ReadyToTake(dk')
      BY <1>2, <1>3, <2>2, <2>7, DecideKeeps DEF ReadyToTake
    <3> QED
      BY <2>3, <3>2, <3>3 DEF BarrelInv, BarrelType, HoldsOneBarrel, ReadyToTake
  <2> QED
    BY <2>6, <2>7
<1>9. CASE ~Takes(s) /\ ~dk.stomping
  <2>1. h = dk /\ dk \in Doing /\ ReadyToTake(dk)
    BY <1>9 DEF Hands, BarrelInv, BarrelType
  <2>2. slot' = s /\ oil' = oil
    BY <1>5, <1>9 DEF Throws, Rolling
  <2>3. \A j \in Slots : slot'[j] # 2
    BY <1>6, <1>9, <2>2 DEF BarrelInv, HoldsOneBarrel
  <2>4. dk' \in Doing /\ ~dk'.stomping /\ ReadyToTake(dk')
    BY <1>2, <1>3, <1>9, <2>1, DecideKeeps
  <2> QED
    BY <1>6, <2>2, <2>3, <2>4 DEF BarrelInv, BarrelType, HoldsOneBarrel, ReadyToTake
<1> QED
  BY <1>7, <1>8, <1>9

LEMMA BarrelStart ==
  ASSUME slot = [i \in Slots |-> 0], oil = [i \in Slots |-> FALSE], dk = Idle
  PROVE  BarrelInv
<1>1. 0 \in Slots
  BY BarrelsAssumption DEF Slots
<1>2. Idle \in Doing /\ ~Idle.stomping /\ ReadyToTake(Idle)
  BY <1>1 DEF Idle, Doing, Normal, LongScript, ReadyToTake
<1>3. dk \in Doing /\ ~dk.stomping /\ ReadyToTake(dk)
  BY <1>2
<1>4. slot \in [Slots -> 0 .. 2] /\ oil \in [Slots -> BOOLEAN]
  OBVIOUS
<1>5. {i \in Slots : slot[i] = 2} = {}
  OBVIOUS
<1>6. HoldsOneBarrel
  BY <1>3, <1>5 DEF HoldsOneBarrel
<1> QED
  BY <1>3, <1>4, <1>6 DEF BarrelInv, BarrelType

LEMMA BarrelRestart ==
  ASSUME slot' = [i \in Slots |-> 0], oil' = [i \in Slots |-> FALSE], dk' = Idle
  PROVE  BarrelInv'
<1>1. 0 \in Slots
  BY BarrelsAssumption DEF Slots
<1>2. Idle \in Doing /\ ~Idle.stomping /\ ReadyToTake(Idle)
  BY <1>1 DEF Idle, Doing, Normal, LongScript, ReadyToTake
<1>3. dk' \in Doing /\ ~dk'.stomping /\ ReadyToTake(dk')
  BY <1>2
<1>4. slot' \in [Slots -> 0 .. 2] /\ oil' \in [Slots -> BOOLEAN]
  OBVIOUS
<1>5. {i \in Slots : slot'[i] = 2} = {}
  OBVIOUS
<1>6. HoldsOneBarrel'
  BY <1>3, <1>5 DEF HoldsOneBarrel
<1>7. ReadyToTake(dk)'
  BY <1>3 DEF ReadyToTake
<1> QED
  BY <1>3, <1>4, <1>6, <1>7 DEF BarrelInv, BarrelType

(* BarrelInv is inductive, for any number of structures and any timer.     *)
THEOREM BarrelInvHolds == BarrelsSpec => []BarrelInv
<1>1. BarrelsInit => BarrelInv
  BY BarrelStart DEF BarrelsInit
<1>2. BarrelInv /\ [BarrelsNext]_barrelVars => BarrelInv'
  <2> SUFFICES ASSUME BarrelInv, [BarrelsNext]_barrelVars PROVE BarrelInv'
    OBVIOUS
  <2>1. CASE BarrelFrame
    BY <2>1, BarrelStep
  <2>2. CASE BarrelsAgain
    BY <2>2, BarrelRestart DEF BarrelsAgain
  <2>3. CASE UNCHANGED barrelVars
    BY <2>3 DEF barrelVars, BarrelInv, BarrelType, HoldsOneBarrel, ReadyToTake
  <2> QED
    BY <2>1, <2>2, <2>3 DEF BarrelsNext
<1> QED
  BY <1>1, <1>2, PTL DEF BarrelsSpec

(* Whatever l2c03 decides in the meantime, Donkey Kong never holds two *)
(* barrels, nor one of another type than he was asked for.                 *)
THEOREM AlwaysHoldsOneBarrel == BarrelsSpec => []HoldsOneBarrel
<1>1. BarrelInv => HoldsOneBarrel
  BY DEF BarrelInv
<1> QED
  BY <1>1, BarrelInvHolds, PTL

(* Only a search of slots that are all in use finds none.                  *)
LEMMA SearchEnds ==
  ASSUME NEW s, NEW f \in Slots, s[f] = 0
  PROVE  \E i \in Slots : EndsAt(s, i)
<1> DEFINE free == {i \in Slots : s[i] = 0}
<1>1. free \in SUBSET Nat /\ f \in free
  BY BarrelsAssumption DEF Slots
<1>2. PICK i \in free : \A j \in Nat : j < i => j \notin free
  <2>1. \E i \in free : \A j \in free : <<j, i>> \notin OpToRel(<, Nat)
    BY <1>1, NatLessThanWellFounded, WFMin
  <2> QED
    BY <1>1, <2>1 DEF OpToRel
<1>3. ASSUME NEW j \in 0 .. i - 1 PROVE s[j] # 0
  BY <1>1, <1>2, <1>3, BarrelsAssumption DEF Slots
<1> QED
  BY <1>2, <1>3 DEF EndsAt

LEMMA OilStep ==
  ASSUME BarrelInv, BarrelFrame, OilAsked
  PROVE  OilTaken \/ \A i \in Slots : slot'[i] # 0
<1>1. PICK gone \in SUBSET {i \in Slots : slot[i] = 1}, room \in BOOLEAN :
        LET s == [i \in Slots |-> IF i \in gone THEN 0 ELSE slot[i]] IN
        /\ Throws(s)
        /\ \E k \in Decisions(Hands(s), left') : dk' = Decide(Hands(s), left', k, room)
  BY DEF BarrelFrame
<1> DEFINE s == [i \in Slots |-> IF i \in gone THEN 0 ELSE slot[i]]
           h == Hands(s)
<1>2. PICK k \in Decisions(h, left') : dk' = Decide(h, left', k, room)
  BY <1>1
<1>3. h.stomping => dk' = h
  BY <1>2, DecisionsOf DEF Decide
<1>4. Throws(s)
  BY <1>1
<1>5. s \in [Slots -> 0 .. 2] /\ \A i \in Slots : s[i] = 2 <=> slot[i] = 2
  BY DEF BarrelInv, BarrelType
<1> HIDE DEF s
<1>6. CASE Takes(s)
  <2> DEFINE i == FirstFreeSlot(s)
  <2>1. i \in Slots /\ h \in Doing /\ h.stomping /\ h.held = i
    BY <1>5, <1>6, TakenIsHeld
  <2>2. oil' = [oil EXCEPT ![i] = dk.mark]
    BY <1>4, <1>6 DEF Throws
  <2>3. dk' = h
    BY <1>3, <2>1
  <2> HIDE DEF i, h
  <2>4. oil \in [Slots -> BOOLEAN] /\ dk.mark
    BY DEF BarrelInv, BarrelType, OilAsked
  <2>5. oil'[i] = dk.mark
    BY <2>1, <2>2, <2>4
  <2> QED
    BY <2>1, <2>3, <2>4, <2>5 DEF OilTaken
<1>7. CASE ~Takes(s)
  <2>1. \A i \in Slots : s[i] # 0
    BY <1>7, SearchEnds DEF Takes, OilAsked
  <2>2. slot' = s
    BY <1>4, <1>7 DEF Throws, Rolling, OilAsked
  <2> QED
    BY <2>1, <2>2
<1> QED
  BY <1>6, <1>7

(* An oil barrel that was asked for is the next one taken; with all the    *)
(* structures in use, and only then, it is left for a later frame, where   *)
(* another decision may take the mark from it.                             *)
THEOREM OilWaitsForRoom == BarrelsSpec => OilMissedOnlyWhenFull
<1>1. BarrelInv /\ [BarrelsNext]_barrelVars
        => [OilAsked => \/ OilTaken \/ \A i \in Slots : slot'[i] # 0
                        \/ dk' = Idle]_barrelVars
  BY OilStep DEF BarrelsNext, BarrelsAgain
<1> QED
  BY <1>1, BarrelInvHolds, PTL DEF BarrelsSpec, OilMissedOnlyWhenFull

-----------------------------------------------------------------------------
(***************************************************************************)
(* The slot of the point awards, for any prizes, any number of rivets and  *)
(* any time of display.                                                    *)
(*                                                                         *)
(* OwedIsPending and PrizePaidOnce are inductive together, once it is      *)
(* known that the animation of a smashed enemy, after its first frame,     *)
(* has the enemy's type in the slot: nothing writes there before its end.  *)
(***************************************************************************)
KillTypes == {PlainType, SpecialType}

Smashes == [active : BOOLEAN, state : 0 .. 2, delay : Int, cycle : Int,
            special : BOOLEAN]

SmashInv ==
  /\ smash \in Smashes
  /\ smash.active => /\ killed = (IF smash.special THEN SpecialType ELSE PlainType)
                     /\ smash.state # 0 => awardType = killed
  /\ ~smash.active => smash.state = 0

AwardsInv == SmashInv /\ OwedIsPending /\ PrizePaidOnce

(* Sprites of prizes are no other sprites, and no award is no award. *)
LEMMA Distinct ==
  /\ \A k \in KillTypes : k # None
  /\ \A k \in KillTypes : \A at : Place(k, at) = at
  /\ \A t \in {0} \cup KillTypes \cup JumpTypes, at \in Prizes \cup {"mario", "smash"} :
       Award(t, at) # None
  /\ \A p \in Prizes : p # None /\ p # "mario" /\ p # "smash"
  BY AwardsAssumption DEF KillTypes, PlainType, SpecialType, Award, JumpTypes, Place

(* L_IMPLEMENT_POINT_AWARD leaves the slot empty or as it was, and hides   *)
(* what it pays for.                                                       *)
LEMMA PaidFromSlot ==
  ASSUME AwardsInv
  PROVE  /\ SlotAfter[1] # 1
         /\ StillOwed = None
         /\ NowPaid \cap (visible \ Hidden) = {}
<1>1. SlotAfter[1] # 1
  BY DEF SlotAfter, Pays
<1>2. StillOwed = None
  BY DEF StillOwed, Pays, AwardsInv, OwedIsPending
<1>3. NowPaid \cap (visible \ Hidden) = {}
  <2>1. CASE Pays /\ owed # None
    <3>1. owed.at = Place(awardType, pointer)
      BY <2>1 DEF Pays, AwardsInv, OwedIsPending, Award
    <3> QED
      BY <2>1, <3>1 DEF NowPaid, Hidden, AwardsInv, PrizePaidOnce
  <2>2. CASE ~(Pays /\ owed # None)
    BY <2>2 DEF NowPaid, AwardsInv, PrizePaidOnce
  <2> QED
    BY <2>1, <2>2
<1> QED
  BY <1>1, <1>2, <1>3

(* Single entries of the record of the animation. *)
LEMMA SetActive ==
  ASSUME NEW s \in Smashes, NEW b \in BOOLEAN, NEW t, t = [s EXCEPT !.active = b]
  PROVE  /\ t \in Smashes /\ t.state = s.state /\ (t.special <=> s.special)
         /\ (t.active <=> b)
  BY DEF Smashes

LEMMA SetSpecial ==
  ASSUME NEW s \in Smashes, NEW b \in BOOLEAN, NEW t, t = [s EXCEPT !.special = b]
  PROVE  /\ t \in Smashes /\ t.state = s.state /\ (t.active <=> s.active)
         /\ (t.special <=> b)
  BY DEF Smashes

LEMMA SetState ==
  ASSUME NEW s \in Smashes, NEW n \in 0 .. 2, NEW t, t = [s EXCEPT !.state = n]
  PROVE  /\ t \in Smashes /\ t.state = n
         /\ (t.special <=> s.special) /\ (t.active <=> s.active)
  BY DEF Smashes

LEMMA SetDelay ==
  ASSUME NEW s \in Smashes, NEW n \in Int, NEW t, t = [s EXCEPT !.delay = n]
  PROVE  /\ t \in Smashes /\ t.state = s.state
         /\ (t.special <=> s.special) /\ (t.active <=> s.active)
  BY DEF Smashes

LEMMA SetCycle ==
  ASSUME NEW s \in Smashes, NEW n \in Int, NEW t, t = [s EXCEPT !.cycle = n]
  PROVE  /\ t \in Smashes /\ t.state = s.state
         /\ (t.special <=> s.special) /\ (t.active <=> s.active)
  BY DEF Smashes

LEMMA SetCounters ==
  ASSUME NEW s \in Smashes, NEW m \in Int, NEW n \in Int,
         NEW d, d = [s EXCEPT !.delay = m], NEW t, t = [d EXCEPT !.cycle = n]
  PROVE  /\ t \in Smashes /\ t.state = s.state
         /\ (t.special <=> s.special) /\ (t.active <=> s.active)
<1>1. /\ d \in Smashes /\ d.state = s.state
      /\ (d.special <=> s.special) /\ (d.active <=> s.active)
  BY SetDelay
<1> QED
  BY <1>1, SetCycle

(* A step of the animation keeps the kind of the enemy; it leaves the      *)
(* first phase, and ends with the last.                                    *)
LEMMA SmashStepType ==
  ASSUME SmashInv, smash.active, NEW t, t = SmashStep(smash)
  PROVE  /\ t \in Smashes
         /\ (t.special <=> smash.special)
         /\ t.active => t.state # 0
         /\ ~t.active => t.state = 0 /\ smash.state = 2
<1>1. smash \in Smashes /\ smash.state \in 0 .. 2 /\ smash.delay \in Int /\ smash.cycle \in Int
  BY DEF SmashInv, Smashes
<1>2. CASE smash.state = 0
  <2> DEFINE de == 6
             cy == 5
             u == [smash EXCEPT !.state = 1]
             d == [u EXCEPT !.delay = de]
  <2>1. /\ u = [smash EXCEPT !.state = 1] /\ d = [u EXCEPT !.delay = de]
        /\ t = [d EXCEPT !.cycle = cy] /\ de \in Int /\ cy \in Int
    BY <1>2 DEF SmashStep
  <2> HIDE DEF u, d, de, cy
  <2>2. u \in Smashes /\ u.state = 1 /\ (u.special <=> smash.special) /\ u.active
    BY <1>1, <2>1, SetState
  <2>3. /\ t \in Smashes /\ t.state = u.state
        /\ (t.special <=> u.special) /\ (t.active <=> u.active)
    BY <2>1, <2>2, SetCounters
  <2> QED
    BY <2>2, <2>3
<1>3. CASE smash.state = 1
  <2> DEFINE late == smash.delay = 1
             last == late /\ smash.cycle = 1
             st == IF last THEN 2 ELSE 1
             de == IF late THEN 6 ELSE smash.delay - 1
             cy == IF last THEN 4 ELSE IF late THEN smash.cycle - 1 ELSE smash.cycle
             u == [smash EXCEPT !.state = st]
             d == [u EXCEPT !.delay = de]
  <2>1. st \in {1, 2} /\ de \in Int /\ cy \in Int
    BY <1>1
  <2>2. t = [smash EXCEPT !.state = st, !.delay = de, !.cycle = cy]
    BY <1>3 DEF SmashStep
  <2> HIDE DEF st, de, cy
  <2>3. /\ u = [smash EXCEPT !.state = st] /\ d = [u EXCEPT !.delay = de]
        /\ t = [d EXCEPT !.cycle = cy]
    BY <2>2
  <2> HIDE DEF u, d
  <2>4. u \in Smashes /\ u.state = st /\ (u.special <=> smash.special) /\ u.active
    BY <1>1, <2>1, <2>3, SetState
  <2>5. /\ t \in Smashes /\ t.state = u.state
        /\ (t.special <=> u.special) /\ (t.active <=> u.active)
    BY <2>1, <2>3, <2>4, SetCounters
  <2> QED
    BY <2>1, <2>4, <2>5
<1>4. CASE smash.state = 2
  <2> DEFINE late == smash.delay = 1
             last == late /\ smash.cycle = 1
             ac == ~last
             st == IF last THEN 0 ELSE 2
             de == IF late THEN 12 ELSE smash.delay - 1
             cy == IF late THEN smash.cycle - 1 ELSE smash.cycle
             u == [smash EXCEPT !.active = ac]
             v == [u EXCEPT !.state = st]
             d == [v EXCEPT !.delay = de]
  <2>1. ac \in BOOLEAN /\ st \in {0, 2} /\ de \in Int /\ cy \in Int /\ (ac <=> st # 0)
    BY <1>1
  <2>2. t = [smash EXCEPT !.active = ac, !.state = st, !.delay = de, !.cycle = cy]
    BY <1>4 DEF SmashStep
  <2> HIDE DEF ac, st, de, cy
  <2>3. /\ u = [smash EXCEPT !.active = ac] /\ v = [u EXCEPT !.state = st]
        /\ d = [v EXCEPT !.delay = de] /\ t = [d EXCEPT !.cycle = cy]
    BY <2>2
  <2> HIDE DEF u, v, d
  <2>4. u \in Smashes /\ (u.special <=> smash.special) /\ (u.active <=> ac)
    BY <1>1, <2>1, <2>3, SetActive
  <2>5. v \in Smashes /\ v.state = st /\ (v.special <=> smash.special) /\ (v.active <=> ac)
    <3>1. st \in 0 .. 2
      BY <2>1
    <3>2. /\ v \in Smashes /\ v.state = st
          /\ (v.special <=> u.special) /\ (v.active <=> u.active)
      BY <3>1, <2>3, <2>4, SetState
    <3> QED
      BY <2>4, <3>2
  <2>6. /\ t \in Smashes /\ t.state = v.state
        /\ (t.special <=> v.special) /\ (t.active <=> v.active)
    BY <2>1, <2>3, <2>5, SetCounters
  <2> QED
    BY <1>4, <2>1, <2>5, <2>6
<1> QED
  BY <1>1, <1>2, <1>3, <1>4

LEMMA SmashFrameKeeps == AwardsInv /\ SmashFrame => AwardsInv'
<1> SUFFICES ASSUME AwardsInv, SmashFrame PROVE AwardsInv'
  OBVIOUS
<1>1. /\ smash.active /\ SmashInv /\ smash' = SmashStep(smash)
      /\ visible' = visible \ Hidden /\ paid' = NowPaid
  BY DEF AwardsInv, SmashFrame
<1>2. /\ smash' \in Smashes
      /\ (smash'.special <=> smash.special)
      /\ smash'.active => smash'.state # 0
      /\ ~smash'.active => smash'.state = 0 /\ smash.state = 2
  BY <1>1, SmashStepType
<1>3. killed = (IF smash.special THEN SpecialType ELSE PlainType)
  BY <1>1 DEF SmashInv
<1>4. killed \in KillTypes /\ killed # None
  BY <1>3, Distinct DEF KillTypes
<1>5. awardType' = killed
  BY <1>1, <1>3 DEF SmashFrame, SmashInv
<1>6. paid' \cap visible' = {}
  BY <1>1, PaidFromSlot
<1>7. CASE smash'.active
  <2>1. pointState' # 1 /\ owed' = None /\ killed' = killed
    BY <1>7, PaidFromSlot DEF SmashFrame
  <2>2. SmashInv'
    BY <1>2, <1>3, <1>5, <1>7, <2>1 DEF SmashInv
  <2>3. OwedIsPending'
    BY <1>4, <1>7, <1>2, <2>1 DEF OwedIsPending
  <2>4. PrizePaidOnce'
    BY <1>6, <2>1 DEF PrizePaidOnce
  <2> QED
    BY <2>2, <2>3, <2>4 DEF AwardsInv
<1>8. CASE ~smash'.active
  <2>1. /\ pointState' = 1 /\ owed' = Award(killed, "smash")
        /\ killed' = None /\ pointer' = "smash"
    BY <1>8 DEF SmashFrame
  <2>2. SmashInv'
    BY <1>2, <1>8 DEF SmashInv
  <2>3. OwedIsPending'
    BY <1>2, <1>4, <1>5, <1>8, <2>1, Distinct DEF OwedIsPending
  <2>4. PrizePaidOnce'
    <3>1. owed'.at \notin Prizes
      BY <2>1, Distinct DEF Award
    <3> QED
      BY <1>6, <3>1 DEF PrizePaidOnce
  <2> QED
    BY <2>2, <2>3, <2>4 DEF AwardsInv
<1> QED
  BY <1>7, <1>8

LEMMA GameFrameKeeps == AwardsInv /\ GameFrame => AwardsInv'
<1> SUFFICES ASSUME AwardsInv, GameFrame PROVE AwardsInv'
  OBVIOUS
<1>1. PICK e \in Event :
        /\ Possible(e)
        /\ pointState' = IF Asked(e) # None THEN 1 ELSE SlotAfter[1]
        /\ awardType' = IF Asked(e) # None THEN Asked(e).type ELSE awardType
        /\ pointer' = IF e.prize # None THEN e.prize ELSE pointer
        /\ visible' = visible \ Hidden
        /\ paid' = NowPaid
        /\ owed' = IF Asked(e) # None THEN Asked(e) ELSE StillOwed
        /\ smash' = IF e.kill = None THEN smash
                    ELSE [smash EXCEPT !.active = TRUE,
                                       !.special = e.kill = SpecialType]
        /\ killed' = IF e.kill = None THEN killed ELSE e.kill
  BY DEF GameFrame
<1>2. ~smash.active /\ SmashInv /\ killed = None
  BY DEF GameFrame, AwardsInv, OwedIsPending
<1>3. paid' \cap visible' = {}
  BY <1>1, PaidFromSlot
<1>4. e.kill # None => e.kill \in KillTypes
  BY <1>1 DEF Event, KillTypes
<1>5. SmashInv' /\ (smash'.active <=> killed' # None)
  <2>1. CASE e.kill = None
    BY <1>1, <1>2, <2>1 DEF SmashInv
  <2>2. CASE e.kill # None
    <3> DEFINE special == e.kill = SpecialType
               hit == [smash EXCEPT !.active = TRUE]
    <3>1. hit = [smash EXCEPT !.active = TRUE] /\ smash' = [hit EXCEPT !.special = special]
      BY <1>1, <2>2
    <3>2. special \in BOOLEAN /\ e.kill = (IF special THEN SpecialType ELSE PlainType)
      BY <1>4, <2>2 DEF KillTypes
    <3> HIDE DEF special, hit
    <3>3. smash \in Smashes /\ smash.state = 0
      BY <1>2 DEF SmashInv
    <3>4. hit \in Smashes /\ hit.state = 0 /\ hit.active
      BY <3>1, <3>3, SetActive
    <3>5. /\ smash' \in Smashes /\ smash'.state = 0 /\ smash'.active
          /\ (smash'.special <=> special)
      BY <3>1, <3>2, <3>4, SetSpecial
    <3>6. killed' = (IF special THEN SpecialType ELSE PlainType)
      BY <1>1, <2>2, <3>2
    <3> QED
      BY <1>1, <2>2, <3>5, <3>6 DEF SmashInv
  <2> QED
    BY <2>1, <2>2
<1>6. CASE e.prize # None
  <2>1. e.prize \in Prizes /\ e.prize \in visible'
    BY <1>1, <1>6 DEF Possible, Event
  <2>2. Asked(e) = Award(PrizeType, e.prize) /\ Asked(e) # None
    BY <1>6, <2>1, Distinct DEF Asked, PrizeType
  <2>3. owed' = Award(0, e.prize) /\ pointState' = 1 /\ awardType' = 0 /\ pointer' = e.prize
    BY <1>1, <1>6, <2>2 DEF Award, PrizeType
  <2>4. OwedIsPending'
    BY <1>5, <2>3 DEF OwedIsPending, Place
  <2>5. PrizePaidOnce'
    BY <1>3, <2>1, <2>3 DEF PrizePaidOnce, Award
  <2> QED
    BY <1>5, <2>4, <2>5 DEF AwardsInv
<1>7. CASE e.prize = None /\ (e.rivet \/ e.jump # None)
  <2>1. PICK t \in JumpTypes : Asked(e) = Award(t, "mario")
    BY <1>1, <1>7 DEF Asked, Event, JumpTypes
  <2>2. Asked(e) # None
    BY <2>1, Distinct
  <2>3. owed' = Award(t, "mario") /\ pointState' = 1 /\ awardType' = t
    BY <1>1, <2>1, <2>2 DEF Award
  <2>4. Place(t, pointer') = "mario"
    BY <2>1 DEF Place, JumpTypes
  <2>5. OwedIsPending'
    BY <1>5, <2>3, <2>4 DEF OwedIsPending
  <2>6. PrizePaidOnce'
    BY <1>3, <2>3, Distinct DEF PrizePaidOnce, Award
  <2> QED
    BY <1>5, <2>5, <2>6 DEF AwardsInv
<1>8. CASE e.prize = None /\ ~e.rivet /\ e.jump = None
  <2>1. Asked(e) = None
    BY <1>8 DEF Asked
  <2>2. pointState' # 1 /\ owed' = None
    BY <1>1, <2>1, PaidFromSlot
  <2>3. OwedIsPending'
    BY <1>5, <2>2 DEF OwedIsPending
  <2>4. PrizePaidOnce'
    BY <1>3, <2>2 DEF PrizePaidOnce
  <2> QED
    BY <1>5, <2>3, <2>4 DEF AwardsInv
<1> QED
  BY <1>6, <1>7, <1>8

LEMMA AnimationFrameKeeps == AwardsInv /\ AnimationFrame => AwardsInv'
<1> SUFFICES ASSUME AwardsInv, AnimationFrame PROVE AwardsInv'
  OBVIOUS
<1>1. /\ pointState' # 1 /\ owed' = None
      /\ paid' \cap visible' = {}
      /\ UNCHANGED <<awardType, smash, killed>>
  BY PaidFromSlot DEF AnimationFrame
<1>2. SmashInv'
  BY <1>1 DEF AwardsInv, SmashInv
<1>3. OwedIsPending'
  BY <1>1 DEF AwardsInv, OwedIsPending
<1>4. PrizePaidOnce'
  BY <1>1 DEF PrizePaidOnce
<1> QED
  BY <1>2, <1>3, <1>4 DEF AwardsInv

LEMMA NoSmashIdle == NoSmash \in Smashes /\ ~NoSmash.active /\ NoSmash.state = 0
  BY DEF NoSmash, Smashes

(* The inductive invariant of the slot. *)
THEOREM AwardsInvHolds == AwardsSpec => []AwardsInv
<1>1. AwardsInit => AwardsInv
  <2> SUFFICES ASSUME AwardsInit PROVE AwardsInv
    OBVIOUS
  <2>1. SmashInv /\ ~smash.active
    BY NoSmashIdle DEF AwardsInit, SmashInv
  <2>2. OwedIsPending
    BY <2>1 DEF AwardsInit, OwedIsPending
  <2>3. PrizePaidOnce
    BY DEF AwardsInit, PrizePaidOnce
  <2> QED
    BY <2>1, <2>2, <2>3 DEF AwardsInv
<1>2. AwardsInv /\ [AwardsNext]_awardsVars => AwardsInv'
  <2> SUFFICES ASSUME AwardsInv, [AwardsNext]_awardsVars PROVE AwardsInv'
    OBVIOUS
  <2>1. CASE SmashFrame
    BY <2>1, SmashFrameKeeps
  <2>2. CASE GameFrame
    BY <2>2, GameFrameKeeps
  <2>3. CASE AnimationFrame
    BY <2>3, AnimationFrameKeeps
  <2>4. CASE AwardsAgain
    <3>1. SmashInv' /\ ~smash'.active
      BY <2>4, NoSmashIdle DEF AwardsAgain, SmashInv
    <3>2. OwedIsPending'
      BY <2>4, <3>1 DEF AwardsAgain, OwedIsPending
    <3>3. PrizePaidOnce'
      BY <2>4 DEF AwardsAgain, PrizePaidOnce
    <3> QED
      BY <3>1, <3>2, <3>3 DEF AwardsInv
  <2>5. CASE UNCHANGED awardsVars
    BY <2>5 DEF awardsVars, slotVars, AwardsInv, SmashInv, OwedIsPending, PrizePaidOnce
  <2> QED
    BY <2>1, <2>2, <2>3, <2>4, <2>5 DEF AwardsNext
<1> QED
  BY <1>1, <1>2, PTL DEF AwardsSpec

(* The one slot that all handlers write never holds anything but what was  *)
(* last earned, also when the animation of L_INIT_SMASH_ANIM overwrites    *)
(* its type.                                                               *)
THEOREM OwedAlwaysPending == AwardsSpec => []OwedIsPending
<1>1. AwardsInv => OwedIsPending
  BY DEF AwardsInv
<1> QED
  BY <1>1, AwardsInvHolds, PTL

(* L_CHECK_IF_PRIZE_REACHED never finds a prize for the second time.       *)
THEOREM PrizesPaidOnce == AwardsSpec => []PrizePaidOnce
<1>1. AwardsInv => PrizePaidOnce
  BY DEF AwardsInv
<1> QED
  BY <1>1, AwardsInvHolds, PTL
=============================================================================
