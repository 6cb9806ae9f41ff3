------------------------------ MODULE MCPoints ------------------------------
(***************************************************************************)
(* Instances of Scores and StageTimer for TLC.  The two have no variable   *)
(* in common (a score takes the digits of the timer as Timers), so the run *)
(* looks at one of them at a time.                                         *)
(***************************************************************************)
EXTENDS Scores, StageTimer

VARIABLE part

(* The entries the code awards and a few timers, among them 80, the        *)
(* highest, whose tens reach past the table: 00, 05, 39, 46 and 80.        *)
MCAwards == {1, 3, 5, 8}
MCTimers == {0, 5, 57, 70, 128}

(* The levels give the four timers there are, 50, 60, 70 and 80; and every *)
(* level that is counted.                                                  *)
FewLevels == {1, 2, 3, 4, 5, 21}
AllLevels == 1 .. 99

ScoresSteps == part = "scores" /\ ScoresNext /\ UNCHANGED <<part, timerVars>>
TimerSteps  == part = "timer" /\ TimerNext /\ UNCHANGED <<part, scoresVars>>

MCInit == /\ part \in {"scores", "timer"}
          /\ ScoresInit /\ TimerInit
          /\ part = "scores" => level = 1 /\ barrels = 1
MCNext == ScoresSteps \/ TimerSteps
MCSpec == MCInit /\ [][MCNext]_<<part, scoresVars, timerVars>>

=============================================================================
