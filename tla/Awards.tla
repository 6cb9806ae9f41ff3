------------------------------- MODULE Awards -------------------------------
(***************************************************************************)
(* The points Mario earns on a stage: for a prize or a cage trigger, a     *)
(* jump over enemies, a rivet, an enemy smashed with the hammer.  They     *)
(* share one slot (POINT_AWARD_STATE, POINT_AWARD_TYPE): a frame's         *)
(* handlers fill it, L_IMPLEMENT_POINT_AWARD pays at the start of the      *)
(* next frame.  A smashed enemy is paid after an animation that stops the  *)
(* rest of the game (L_CHECK_FOR_SMASH_ANIM).                              *)
(***************************************************************************)
EXTENDS Integers

CONSTANTS Prizes,      \* the prizes of the stage, or its cage triggers
          Rivets,      \* rivets of the stage, 0 unless it is the rivets stage
          DisplayTime, \* POINT_AWARD_DISPLAY_TIMER at first
          None         \* no award, no kill

ASSUME AwardsAssumption == /\ Rivets \in Nat /\ DisplayTime \in 1 .. 255
                           /\ None \notin Prizes \cup 0 .. 7
                           /\ "mario" \notin Prizes /\ "smash" \notin Prizes
                           /\ None \notin [type : 0 .. 7,
                                           at : Prizes \cup {"mario", "smash"}]

VARIABLES pointState,   \* POINT_AWARD_STATE
          awardType,    \* POINT_AWARD_TYPE
          displayTimer, \* POINT_AWARD_DISPLAY_TIMER
          pointer,      \* SMASHED_SPRITE_POINTER: a prize, "smash" or None
          smash,        \* the smash animation, see NoSmash
          visible,      \* prizes whose sprite is shown
          rivets,       \* REMAINING_RIVETS
          turn          \* "running", "dying" or "won"

(* What has been earned: the award to be paid next, the kind of the enemy  *)
(* hit and not yet paid for, the prizes paid for.                          *)
VARIABLES owed, killed, paid

slotVars   == <<pointState, awardType, displayTimer, pointer>>
awardsVars == <<slotVars, smash, visible, rivets, turn, owed, killed, paid>>

(* SMASH_ANIMATION_ACTIVE, _STATE, _FRAME_DELAY, _CYCLE_COUNTER; special:  *)
(* what L_INIT_SMASH_ANIM finds in the data of the enemy of                *)
(* SMASH_ANIMATION_ENEMY_INDEX.                                            *)
NoSmash == [active |-> FALSE, state |-> 0, delay |-> 0, cycle |-> 0,
            special |-> FALSE]

(* L_INIT_CURRENT_STAGE *)
AwardsInit == /\ pointState = 0 /\ awardType = 0 /\ displayTimer = 0
              /\ pointer = None /\ smash = NoSmash
              /\ visible = Prizes /\ rivets = Rivets
              /\ turn = "running"
              /\ owed = None /\ killed = None /\ paid = {}

-----------------------------------------------------------------------------
(* The types of award; a jump over one, two, or more enemies has type 1,   *)
(* 3 or 7 (l3e99), a rivet type 1.                                         *)
PrizeType == 0
PlainType == 2
SpecialType == 4
JumpTypes == {1, 3, 7}

Award(type, at) == [type |-> type, at |-> at]

(* L_GIVE_POINT_AWARD: where the award of the slot is shown.               *)
Place(type, sprite) == IF type % 2 = 1 THEN "mario" ELSE sprite

(* L_IMPLEMENT_POINT_AWARD, the first routine of every frame: does it pay? *)
(* Faulty variant: not while an enemy is being smashed. *)
PaysUnlessHit == pointState = 1 /\ ~smash.active

Pays == pointState = 1

(* The slot after it, as <<state, timer>>.                                 *)
SlotAfter ==
  IF Pays THEN <<2, DisplayTime>>
  ELSE IF pointState # 2 THEN <<pointState, displayTimer>>
  ELSE <<IF displayTimer = 1 THEN 0 ELSE 2, displayTimer - 1>>

(* A sprite whose points are shown in its place is hidden.                 *)
(* Faulty variant: only a smashed enemy is hidden. *)
HidesSmashed == IF Pays THEN {"smash"} ELSE {}

Hidden == IF Pays THEN {Place(awardType, pointer)} ELSE {}

NowPaid == IF Pays /\ owed # None THEN paid \cup ({owed.at} \cap Prizes) ELSE paid

StillOwed == IF Pays THEN None ELSE owed

-----------------------------------------------------------------------------
(* L_IMPLEMENT_SMASH_ANIM: three phases, counted in frames and cycles.     *)
(* Faulty variant: the second phase goes round for ever. *)
SmashCycles(s) ==
  [s EXCEPT !.state = IF @ = 0 THEN 1 ELSE @, !.delay = IF @ < 2 THEN 6 ELSE @ - 1,
            !.cycle = IF @ = 0 THEN 5 ELSE @]

SmashStep(s) ==
  LET late == s.delay = 1
      last == late /\ s.cycle = 1 IN
  CASE s.state = 0 -> [s EXCEPT !.state = 1, !.delay = 6, !.cycle = 5]
    [] s.state = 1 -> [s EXCEPT !.state = IF last THEN 2 ELSE 1,
                                !.delay = IF late THEN 6 ELSE @ - 1,
                                !.cycle = IF last THEN 4 ELSE IF late THEN @ - 1 ELSE @]
    [] s.state = 2 -> [s EXCEPT !.active = ~last,
                                !.state = IF last THEN 0 ELSE 2,
                                !.delay = IF late THEN 12 ELSE @ - 1,
                                !.cycle = IF late THEN @ - 1 ELSE @]

(* While it is active no other routine of the game runs.  At its start it  *)
(* sets the type of the award, at its end it asks for it.                  *)
SmashFrame ==
  /\ turn = "running" /\ smash.active
  /\ visible' = visible \ Hidden
  /\ paid' = NowPaid
  /\ smash' = SmashStep(smash)
  /\ LET asks == ~smash'.active IN
     /\ pointState' = IF asks THEN 1 ELSE SlotAfter[1]
     /\ displayTimer' = SlotAfter[2]
     /\ awardType' = IF smash.state # 0 THEN awardType
                     ELSE IF smash.special THEN SpecialType ELSE PlainType
     /\ pointer' = IF asks THEN "smash" ELSE pointer
     /\ owed' = IF asks THEN Award(killed, "smash") ELSE StillOwed
     /\ killed' = IF asks THEN None ELSE killed
  /\ UNCHANGED <<rivets, turn>>

-----------------------------------------------------------------------------
(* What can happen in one frame of the game, in the order of the calls of  *)
(* L_RUN_GAME: a jump over enemies (l1c05), a rivet removed (l1a33), a     *)
(* prize or trigger reached, a death by an enemy or at the end of the      *)
(* time, a hit with the hammer, which Mario does not hold in a jump, the   *)
(* end of the stage.  The rivets stage ends with its last rivet.           *)
Event == [jump : JumpTypes \cup {None}, rivet : BOOLEAN, prize : Prizes \cup {None},
          kill : {PlainType, SpecialType, None}, dies : BOOLEAN, wins : BOOLEAN]

Possible(e) ==
  /\ e.jump = None \/ e.kill = None
  /\ e.rivet => rivets > 0
  /\ IF Rivets = 0 THEN TRUE ELSE e.wins = (e.rivet /\ rivets = 1)
  /\ e.prize # None => e.prize \in visible \ Hidden

(* The awards a frame asks for, the later one in place of the earlier.     *)
Asked(e) ==
  IF e.prize # None THEN Award(PrizeType, e.prize)
  ELSE IF e.rivet THEN Award(1, "mario")
  ELSE IF e.jump # None THEN Award(e.jump, "mario")
  ELSE None

(* A win ends the frame before the death is looked at.                     *)
GameFrame ==
  /\ turn = "running" /\ ~smash.active
  /\ \E e \in Event :
       /\ Possible(e)
       /\ LET asked == Asked(e) IN
          /\ pointState' = IF asked # None THEN 1 ELSE SlotAfter[1]
          /\ awardType' = IF asked # None THEN asked.type ELSE awardType
          /\ pointer' = IF e.prize # None THEN e.prize ELSE pointer
          /\ displayTimer' = SlotAfter[2]
          /\ visible' = visible \ Hidden
          /\ paid' = NowPaid
          /\ owed' = IF asked # None THEN asked ELSE StillOwed
       /\ smash' = IF e.kill = None THEN smash
                   ELSE [smash EXCEPT !.active = TRUE,
                                      !.special = e.kill = SpecialType]
       /\ killed' = IF e.kill = None THEN killed ELSE e.kill
       /\ rivets' = IF e.rivet THEN rivets - 1 ELSE rivets
       /\ turn' = IF e.wins THEN "won" ELSE IF e.dies THEN "dying" ELSE turn

-----------------------------------------------------------------------------
(* L_IMPLEMENT_DEATH_ANIM and L_IMPLEMENT_RIVETS_WIN_ANIM pay, the other   *)
(* animations of a win do not.                                             *)
PaysAfterwards == turn = "dying" \/ (turn = "won" /\ Rivets > 0)

AnimationFrame ==
  /\ PaysAfterwards
  /\ pointState' = SlotAfter[1] /\ displayTimer' = SlotAfter[2]
  /\ visible' = visible \ Hidden
  /\ paid' = NowPaid
  /\ owed' = StillOwed
  /\ UNCHANGED <<awardType, pointer, smash, rivets, turn, killed>>

(* The next turn or stage.  The paying animations last longer than one     *)
(* frame.  What is still owed or not yet paid for is lost.                 *)
AwardsAgain ==
  /\ turn # "running"
  /\ ~(PaysAfterwards /\ pointState = 1)
  /\ pointState' = 0 /\ awardType' = 0 /\ displayTimer' = 0
  /\ pointer' = None /\ smash' = NoSmash
  /\ visible' = Prizes /\ rivets' = Rivets
  /\ turn' = "running"
  /\ owed' = None /\ killed' = None /\ paid' = {}

AwardsNext == SmashFrame \/ GameFrame \/ AnimationFrame \/ AwardsAgain

AwardsFairness == WF_awardsVars(SmashFrame)

AwardsSpec == AwardsInit /\ [][AwardsNext]_awardsVars /\ AwardsFairness
-----------------------------------------------------------------------------
(* The slot holds what Mario has earned: an award pending in it is the one *)
(* last asked for, with its type and place, an award owed is pending, and  *)
(* the animation runs exactly while an enemy is hit and not paid for.  The *)
(* start of the animation overwrites the type: it must find the slot paid. *)
OwedIsPending ==
  /\ IF pointState = 1 THEN owed = Award(awardType, Place(awardType, pointer))
                       ELSE owed = None
  /\ smash.active <=> killed # None

(* A prize is paid once: its sprite is gone, with which it could be had a  *)
(* second time, when the points are added, and a prize pending is shown.   *)
PrizePaidOnce ==
  /\ paid \cap visible = {}
  /\ owed # None /\ owed.at \in Prizes => owed.at \in visible

(* An enemy hit while Mario lives on is paid for: the animation, which     *)
(* stops the rest of the game, comes to its end.                           *)
KillSettled == killed # None /\ turn = "running" ~> killed = None
=============================================================================
