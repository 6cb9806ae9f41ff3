----------------------------- MODULE Fireballs -----------------------------
(***************************************************************************)
(* The five places for fireballs and the trigger that asks for one         *)
(* (RELEASE_A_FIREBALL).  L_SPAWN_FIREBALLS goes through the places in     *)
(* order.  On the mixer stage it counts the fireballs it has passed and    *)
(* leaves at a free place when they are as many as the difficulty says.    *)
(***************************************************************************)
EXTENDS Integers, FiniteSets

Places == 1 .. 5
MaxDifficulty == 5

VARIABLES mixer,      \* CURRENT_STAGE = 2
          burning,    \* the places of FIREBALL_STRUCTS in use
          release,    \* RELEASE_A_FIREBALL
          count,      \* ACTIVE_FIREBALL_COUNT
          difficulty  \* CP_DIFFICULTY

fireballVars == <<mixer, burning, release, count, difficulty>>

(* L_INIT_CURRENT_STAGE zeroes the places, the trigger and the difficulty; *)
(* the latter is the level again when the stage has been drawn.            *)
FireballsInit == /\ mixer \in BOOLEAN
                 /\ burning = {} /\ release = FALSE /\ count = 0
                 /\ difficulty \in 1 .. MaxDifficulty

-----------------------------------------------------------------------------
(* ACTIVE_FIREBALL_COUNT when the search gets to place f.                  *)
Passed(b, f) == Cardinality({g \in b : g < f})

(* Faulty variant: the limit is one too high. *)
StopsPastLimit(b) == {f \in Places \ b : mixer /\ Passed(b, f) = difficulty + 1}

(* The free places at which the search ends, the limit being reached.      *)
Stops(b) == {f \in Places \ b : mixer /\ Passed(b, f) = difficulty}

FirstFree(b) == CHOOSE f \in Places \ b : \A g \in Places \ b : f <= g

(* The search gets to a free place, and a fireball is asked for.           *)
Spawns == /\ release /\ burning # Places
          /\ FirstFree(burning) \notin Stops(burning)

AfterSpawn == IF Spawns THEN burning \cup {FirstFree(burning)} ELSE burning

(* A search that ends before its last place leaves the trigger as it is.   *)
KeepsTrigger == release /\ ~Spawns /\ Stops(burning) # {}

(* A frame in which L_CONTROL_FIREBALL_SPEED lets the fireballs be         *)
(* updated; later in it L_RANDOMLY_RELEASE_FIREBALL may pull the trigger.  *)
Updated ==
  /\ burning' = AfterSpawn
  /\ count' = IF Stops(AfterSpawn) # {} THEN difficulty ELSE Cardinality(AfterSpawn)
  /\ release' \in {KeepsTrigger, TRUE}
  /\ UNCHANGED <<mixer, difficulty>>

(* Another frame.  L_IMPLEMENT_BARREL_FIRE may pull the trigger as well.   *)
Skipped == /\ release' = TRUE
           /\ UNCHANGED <<mixer, burning, count, difficulty>>

(* L_INIT_SMASH_ANIM, for a fireball.                                      *)
Smashed == /\ \E f \in burning : burning' = burning \ {f}
           /\ UNCHANGED <<mixer, release, count, difficulty>>

(* L_INCREASE_DIFFICULTY, from the main loop.                              *)
Harder == /\ difficulty < MaxDifficulty /\ difficulty' = difficulty + 1
          /\ UNCHANGED <<mixer, burning, release, count>>

FireballsAgain == /\ mixer' \in BOOLEAN
                  /\ burning' = {} /\ release' = FALSE /\ count' = 0
                  /\ difficulty' \in 1 .. MaxDifficulty

FireballsNext == Updated \/ Skipped \/ Smashed \/ Harder \/ FireballsAgain

FireballsSpec == FireballsInit /\ [][FireballsNext]_fireballVars

-----------------------------------------------------------------------------
(* "Apparently, the number of active fireballs on the mixer stage is       *)
(* limited by the current difficulty level": although the search compares  *)
(* for equality, at free places only and with the fireballs in front of    *)
(* them, and smashed fireballs leave holes.                                *)
WithinDifficulty == mixer => Cardinality(burning) <= difficulty
=============================================================================
