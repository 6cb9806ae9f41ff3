------------------------------ MODULE MCStages ------------------------------
(***************************************************************************)
(* The machinery of the five stages in one run.  The parts have no         *)
(* variable in common, so the run looks at one of them at a time: from the *)
(* initial states of all, the steps of one.                                *)
(***************************************************************************)
EXTENDS Elevators, SecretElevators, RetractingLadder, Awards, Barrels, Fireballs

CONSTANTS p1, p2, t1, t2

VARIABLE part

(* L_ELEVATOR_COORDS: the first three go up, the others down. *)
ElevatorPlatforms == 1 .. 6
ElevatorShaft == [top |-> 96, bottom |-> 248]
ElevatorSide == [p \in 1 .. 6 |-> IF p <= 3 THEN "up" ELSE "down"]
ElevatorRow == <<244, 192, 140, 112, 164, 216>>

(* L_SECRET_ELEVATOR_COORDS *)
SecretStart == <<[x |-> 127, y |-> 204], [x |-> 127, y |-> 108]>>

MCVars == <<part, elevatorVars, secretVars, ladderVars, awardsVars, barrelVars,
            fireballVars>>

MCInit ==
  /\ part \in {"elevators", "secret", "ladder", "awards", "barrels", "fireballs"}
  /\ ElevatorsInit /\ SecretInit /\ LadderInit /\ AwardsInit /\ BarrelsInit
  /\ FireballsInit
  /\ part = "fireballs" \/ (~mixer /\ difficulty = 1)

MCNext ==
  \/ part = "elevators" /\ ElevatorsNext
     /\ UNCHANGED <<part, secretVars, ladderVars, awardsVars, barrelVars, fireballVars>>
  \/ part = "secret" /\ SecretNext
     /\ UNCHANGED <<part, elevatorVars, ladderVars, awardsVars, barrelVars, fireballVars>>
  \/ part = "ladder" /\ LadderNext
     /\ UNCHANGED <<part, elevatorVars, secretVars, awardsVars, barrelVars, fireballVars>>
  \/ part = "awards" /\ AwardsNext
     /\ UNCHANGED <<part, elevatorVars, secretVars, ladderVars, barrelVars, fireballVars>>
  \/ part = "barrels" /\ BarrelsNext
     /\ UNCHANGED <<part, elevatorVars, secretVars, ladderVars, awardsVars, fireballVars>>
  \/ part = "fireballs" /\ FireballsNext
     /\ UNCHANGED <<part, elevatorVars, secretVars, ladderVars, awardsVars, barrelVars>>

(* The fairness of AwardsSpec and BarrelsSpec: the interrupt runs frames.  *)
OthersThanAwards == <<part, elevatorVars, secretVars, ladderVars, barrelVars, fireballVars>>
OthersThanBarrels == <<part, elevatorVars, secretVars, ladderVars, awardsVars, fireballVars>>

MCSpec ==
  /\ MCInit /\ [][MCNext]_MCVars
  /\ WF_MCVars(part = "awards" /\ SmashFrame /\ UNCHANGED OthersThanAwards)
  /\ WF_MCVars(part = "barrels" /\ BarrelFrame /\ UNCHANGED OthersThanBarrels)
=============================================================================
