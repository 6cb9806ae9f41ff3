------------------------------ MODULE Barrels ------------------------------
(***************************************************************************)
(* Donkey Kong and his barrels on the barrels stage: l2c03 decides that a  *)
(* barrel is to be thrown, and which; l2c8f takes a free one of the        *)
(* BARREL_STRUCTS, goes through his gestures with it and lets it go.       *)
(* Every eighth tick of the bonus timer asks for an oil barrel.            *)
(***************************************************************************)
EXTENDS Integers

CONSTANTS NumSlots, \* BARREL_STRUCTS: 10
          Timer,    \* INTERNAL_TIMER
          Pause     \* frames between two gestures: 24

ASSUME BarrelsAssumption == /\ NumSlots \in Nat \ {0}
                            /\ Timer \in 3 .. 255
                            /\ Pause \in 2 .. 255

Slots == 0 .. NumSlots - 1

VARIABLES left,  \* $62b1, the ticks left
          oilAt, \* $62b2, where the next oil barrel is due
          slot,  \* active entry of each barrel: 0 free, 1 rolling, 2 held
          oil,   \* its type, entry 21
          dk     \* what Donkey Kong does, see Idle

barrelVars == <<left, oilAt, slot, oil, dk>>

(* stomping: DK_STOMPING; request: $6392; kind, mark: bits 0 and 1, bit 7  *)
(* of $6382; steps: $638f; count: DK_CLIMBING_COUNTER; held: $62aa;        *)
(* script: how much of the drawing data is left at $62a8.                  *)
Normal == 0
Dropped == 1
Second == 2
LongScript == 4   \* l39c3
ShortScript == 1  \* l39cc

Idle == [stomping |-> FALSE, request |-> FALSE, kind |-> Normal, mark |-> FALSE,
         steps |-> 0, count |-> 1, held |-> 0, script |-> LongScript]

BarrelsInit == /\ left = Timer /\ oilAt = Timer
               /\ slot = [i \in Slots |-> 0]
               /\ oil = [i \in Slots |-> FALSE]
               /\ dk = Idle

-----------------------------------------------------------------------------
(* Donkey Kong with a barrel, l2d15 .. l2da5.                              *)

LetGo(d) == [d EXCEPT !.stomping = FALSE, !.request = FALSE, !.script = LongScript]

ShowOrLetGo(d) ==
  IF d.script = 0 THEN LetGo(d) ELSE [d EXCEPT !.script = @ - 1]

(* Faulty variant: the end of the gestures is not looked for. *)
GestureForEver(d) == IF d.steps = 0 THEN d ELSE ShowOrLetGo([d EXCEPT !.steps = @ - 1])

(* After the last gesture the data of a dropped barrel is the short one.   *)
Gesture(d) ==
  IF d.steps = 0 THEN ShowOrLetGo(d)
  ELSE IF d.steps > 1 THEN ShowOrLetGo([d EXCEPT !.steps = @ - 1])
  ELSE ShowOrLetGo([d EXCEPT !.steps = 0, !.count = 1,
                    !.script = IF d.kind = Dropped THEN ShortScript ELSE @])

Handles(d) == IF d.count = 1 THEN Gesture([d EXCEPT !.count = Pause])
                             ELSE [d EXCEPT !.count = @ - 1]

(* The search of l2c8f ends at slot i, the first that is free.             *)
EndsAt(s, i) == s[i] = 0 /\ \A j \in 0 .. i - 1 : s[j] # 0
FirstFreeSlot(s) == CHOOSE i \in Slots : EndsAt(s, i)

(* Faulty variant: he does not wait for the barrel he holds. *)
TakesBeforeThrow(s) == dk.request /\ \E i \in Slots : EndsAt(s, i)

(* Faulty variant: the search leaves out the last structure. *)
TakesButLast(s) == ~dk.stomping /\ dk.request /\ \E i \in 0 .. NumSlots - 2 : EndsAt(s, i)

(* Does he take a barrel from the slots s?                                 *)
Takes(s) == ~dk.stomping /\ dk.request /\ \E i \in Slots : EndsAt(s, i)

(* He has let it go: it rolls.                                             *)
Rolling(s, d) == IF dk.stomping /\ ~d.stomping THEN [s EXCEPT ![d.held] = 1] ELSE s

Throws(s) ==
  IF Takes(s)
  THEN LET i == FirstFreeSlot(s) IN
       /\ slot' = [s EXCEPT ![i] = 2]
       /\ oil' = [oil EXCEPT ![i] = dk.mark]
       /\ left' = left - 1
  ELSE /\ UNCHANGED <<oil, left>>
       /\ slot' = Rolling(s, IF dk.stomping THEN Handles(dk) ELSE dk)

(* What he does with his hands, before l2c03.                              *)
Hands(s) ==
  IF Takes(s) THEN Handles([dk EXCEPT !.stomping = TRUE, !.held = FirstFreeSlot(s)])
  ELSE IF dk.stomping THEN Handles(dk) ELSE dk

-----------------------------------------------------------------------------
(* l2c03, with n ticks left: no barrel, or its kind.  The first two are    *)
(* fixed, the one after the second is normal, the others are at random.    *)
NoBarrel == -1

Decisions(d, n) ==
  IF d.stomping \/ n = 0 THEN {NoBarrel}
  ELSE IF n = Timer THEN {Dropped}
  ELSE IF n = Timer - 1 THEN {Second}
  ELSE IF d.kind = Second THEN {Normal}
  ELSE {NoBarrel, Normal, Dropped}

(* l2c4f: the mark for oil is for one decision, and only given when there  *)
(* is room for the fireball that comes of it.                              *)
Decide(d, n, k, room) ==
  IF k = NoBarrel THEN d
  ELSE [d EXCEPT !.request = TRUE, !.kind = k,
                 !.steps = IF k = Dropped THEN 2 ELSE 3,
                 !.mark = n = oilAt /\ room]

BarrelFrame ==
  \E gone \in SUBSET {i \in Slots : slot[i] = 1}, room \in BOOLEAN :
    LET s == [i \in Slots |-> IF i \in gone THEN 0 ELSE slot[i]] IN
    /\ Throws(s)
    /\ \E k \in Decisions(Hands(s), left') :
         /\ dk' = Decide(Hands(s), left', k, room)
         /\ oilAt' = IF k # NoBarrel /\ left' = oilAt THEN (oilAt - 8) % 256
                                                      ELSE oilAt

(* A death or a win: L_INIT_CURRENT_STAGE.                                 *)
BarrelsAgain == /\ left' = Timer /\ oilAt' = Timer
                /\ slot' = [i \in Slots |-> 0]
                /\ oil' = [i \in Slots |-> FALSE]
                /\ dk' = Idle

BarrelsNext == BarrelFrame \/ BarrelsAgain

BarrelsSpec == /\ BarrelsInit /\ [][BarrelsNext]_barrelVars
               /\ WF_barrelVars(BarrelFrame)
-----------------------------------------------------------------------------
(* Donkey Kong holds one barrel while he stomps, the one $62aa points to,  *)
(* and none otherwise; it is of the type asked for, which no decision      *)
(* made in the meantime changes.                                           *)
HoldsOneBarrel ==
  /\ {i \in Slots : slot[i] = 2} = IF dk.stomping THEN {dk.held} ELSE {}
  /\ dk.stomping => oil[dk.held] = dk.mark /\ dk.request

(* An oil barrel asked for is the next one taken, or all slots are in use. *)
OilAsked == dk.request /\ ~dk.stomping /\ dk.mark
OilTaken == dk'.stomping /\ oil'[dk'.held]

OilMissedOnlyWhenFull ==
  [][OilAsked => \/ OilTaken
                 \/ \A i \in Slots : slot'[i] # 0
                 \/ dk' = Idle]_barrelVars

(* A barrel taken is let go: Donkey Kong does not stomp for ever.          *)
EveryBarrelThrown == dk.stomping ~> ~dk.stomping
=============================================================================
