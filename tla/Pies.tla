-------------------------------- MODULE Pies --------------------------------
(***************************************************************************)
(* The pies of the mixer stage and Mario among them.  A frame releases a   *)
(* pie if one is due (l2523), moves the pies with the conveyers            *)
(* (L_MOVE_PIES_ON_CONVEYERS), moves the conveyers and Mario on them, and  *)
(* looks whether he touches a pie (L_MIXER_ENEMY_COLLISION).               *)
(***************************************************************************)
EXTENDS Integers

CONSTANT MarioStart  \* MARIO_X, 22 .. 233 on the bottom conveyer, before the
                     \* first pie

VARIABLES pie,       \* PIE_STRUCTS: belt ("none" for inactive) and x
          wait,      \* $639b
          odd,       \* the low bit of COUNTER_2
          master,    \* BOT_MASTER_CONVEYER_DIR, its sign
          timer,     \* BOT_MASTER_REVERSE_TIMER
          bottomDir, \* BOT_CONVEYER_DIR
          rightDir,  \* RIGHT_CONVEYER_DIR, the opposite of LEFT_
          marioX,    \* MARIO_X
          alive      \* MARIO_ALIVE

beltVars == <<odd, master, timer, bottomDir, rightDir>>
pieVars  == <<pie, wait, beltVars, marioX, alive>>

Barrel == 128  \* the oil barrel, between the conveyers in the middle
NoPie == [belt |-> "none", x |-> 0]

PiesInit == /\ pie = [p \in 1 .. 6 |-> NoPie] /\ wait = 0
            /\ odd = 0 /\ master = -1 /\ timer = 255
            /\ bottomDir = 0 /\ rightDir = 0
            /\ marioX = MarioStart /\ alive = TRUE

-----------------------------------------------------------------------------
(* l2523, when L_RANDOMLY_RELEASE_FIREBALL has asked for one: at either    *)
(* end in the middle, on the bottom where its conveyer starts.             *)
Starts == {[belt |-> "mid", x |-> 7], [belt |-> "mid", x |-> 248],
           [belt |-> "bottom", x |-> IF master = 1 THEN 7 ELSE 248]}

Free == {p \in 1 .. 6 : pie[p].belt = "none"}

Released ==
  {pie} \cup IF wait # 0 \/ Free = {} THEN {}
             ELSE {[pie EXCEPT ![CHOOSE p \in Free : \A q \in Free : p <= q] = s] :
                     s \in Starts}

Moved(p) ==
  IF p.belt = "none" \/ p.x \in 0 .. 6 \cup 249 .. 255
     \/ (p.belt = "mid" /\ p.x = Barrel) THEN NoPie
  ELSE [p EXCEPT !.x = @ + (IF p.belt = "bottom" THEN bottomDir
                            ELSE IF @ > Barrel THEN rightDir ELSE -rightDir)]

(* L_IMPLEMENT_CONVEYERS: the conveyers run in every second frame, the one *)
(* at the bottom turns when its timer, counted in the others, is over.     *)
BeltsRun ==
  /\ odd' = 1 - odd
  /\ timer' = IF odd = 1 THEN timer ELSE IF timer = 1 THEN 255 ELSE timer - 1
  /\ master' = IF odd = 0 /\ timer = 1 THEN -master ELSE master
  /\ bottomDir' = IF odd = 1 THEN master ELSE 0
  /\ rightDir' = IF odd = 1 THEN -1 ELSE 0

-----------------------------------------------------------------------------
(* L_CHECK_FOR_COLLISION of Mario, standing on the bottom conveyer, with p.*)
Touches(p, x) == p.belt = "bottom" /\ p.x - x \in -11 .. 11

(* L_MIXER_ENEMY_COLLISION sets only the low byte of the size of the data. *)
(* The high byte is what the jump through the table of stages has left:    *)
(* beyond the first pie the check reads other memory.                      *)
Checked == {1}

Dies(x) == IF \E p \in Checked : Touches(pie'[p], x) THEN {TRUE} ELSE BOOLEAN

PieFrame ==
  /\ alive
  /\ \E r \in Released :
       /\ pie' = [p \in 1 .. 6 |-> Moved(r[p])]
       /\ wait' = IF r # pie THEN 123 ELSE IF wait = 0 THEN 0 ELSE wait - 1
  /\ BeltsRun
  /\ \E walk \in {-1, 0, 1} : marioX' = marioX + walk + bottomDir'
  /\ marioX' \in 22 .. 233
  /\ \E d \in Dies(marioX') : alive' = ~d

PiesSpec == PiesInit /\ [][PieFrame]_pieVars

-----------------------------------------------------------------------------
(* "Return if there has been a collision with a pie", over 6 pies: Mario   *)
(* is not alive after a frame that leaves him in contact with one.         *)
PiesAreDeadly == alive => \A p \in 1 .. 6 : ~Touches(pie[p], marioX)
=============================================================================
