---------------------------- MODULE MCHighScores ----------------------------
(* An instance of HighScores for TLC: four entries, two of the same score  *)
(* at the start, so that both players' entries and old ones have room and  *)
(* any of them can be pushed out; two letters besides RUB and END; time    *)
(* for eight inputs.                                                       *)
EXTENDS HighScores

MCPoints == 0 .. 3
MCDefault == <<2, 1, 1, 0>>
=============================================================================
